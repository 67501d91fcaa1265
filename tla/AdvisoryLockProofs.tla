--------------------------- MODULE AdvisoryLockProofs ---------------------------
(***************************************************************************)
(* The two users of the advisory lock, runs of V01 and the signing key.    *)
(*                                                                         *)
(* For any planners, commands, loops and evidence: a run is taken for      *)
(* ended, or completed, only when it is.  As long as the lock does what it *)
(* promises, answered runs verify, reports follow the ledger, and an ended *)
(* ledger is replaced only by a start that had passed its preflight; and   *)
(* of two processes, whose report builds join no contention, the lock      *)
(* never lets both in.                                                     *)
(*                                                                         *)
(* For any number of processes, and wherever they exit: all get the one    *)
(* signing key, as long as the lock lets only one in.                      *)
(***************************************************************************)
EXTENDS RunV01, SigningKey, FiniteSetTheorems, SequenceTheorems, TLAPS

(* The variables are functions of what the actions select.                 *)
Shaped ==
  /\ DOMAIN cmd = Procs /\ DOMAIN dir = RunFiles
  /\ DOMAIN lpc = Procs /\ DOMAIN info = Procs /\ DOMAIN seen = Procs
  /\ \A p \in Procs : DOMAIN info[p] = {"pid", "acquired_at"} /\ info[p].pid = p
  /\ loop \in Loops

LEMMA InitShaped == Init => Shaped
BY DEF Init, LockInit, Shaped

(* What a step of a command does to the commands.                          *)
LEMMA BecomeFields ==
  ASSUME Shaped, NEW p \in Procs, NEW fields, Become(p, fields)
  PROVE  /\ DOMAIN cmd' = Procs /\ \A q \in Procs : q # p => cmd'[q] = cmd[q]
         /\ \A f \in DOMAIN Idle : cmd'[p][f] = IF f \in DOMAIN fields THEN fields[f] ELSE cmd[p][f]
BY DEF Become, Shaped

LEMMA IdleFields ==
  /\ DOMAIN Idle = {"pc", "available", "todo", "input", "report", "answer"}
  /\ Idle.pc = "idle" /\ Idle.answer = "none"
BY DEF Idle

(* Where the evidence of a start and the loop stay, so does what it writes. *)
Steady(q) == cmd'[q].available = cmd[q].available

(* A step of a command: the others stay as they are, and only a command    *)
(* that begins is given evidence.                                          *)
Moves(p) ==
  /\ \A q \in Procs : q # p => cmd'[q] = cmd[q] /\ lpc'[q] = lpc[q]
  /\ loop' = loop
  /\ cmd[p].pc # "idle" => Steady(p)
  /\ cmd'[p].pc # "idle"

LEMMA MoveShape ==
  ASSUME Shaped, NEW p \in Procs, NEW place, Move(p, place)
  PROVE  DOMAIN lpc' = Procs /\ lpc'[p] = place /\ \A q \in Procs : q # p => lpc'[q] = lpc[q]
BY DEF Move, Shaped

(* The calls of acquireLock and release change nothing of the others but   *)
(* the lock file.                                                          *)
LEMMA LockCall ==
  ASSUME Shaped, NEW p \in Procs, StartAcquire(p) \/ AcquireStep(p) \/ StartRelease(p) \/ Unlink(p)
  PROVE  /\ DOMAIN lpc' = Procs /\ DOMAIN info' = Procs /\ DOMAIN seen' = Procs
         /\ \A q \in Procs : q # p => lpc'[q] = lpc[q]
         /\ \A q \in Procs : DOMAIN info'[q] = {"pid", "acquired_at"} /\ info'[q].pid = q
         /\ alive' = alive /\ p \in alive
<1>1. CASE StartAcquire(p)
  BY <1>1, MoveShape DEF StartAcquire, Shaped, At
<1>2. CASE Link(p)
  BY <1>2, MoveShape DEF Link, Shaped, At
<1>3. CASE ReadHolder(p) \/ Decide(p) \/ Steal(p)
  BY <1>3, MoveShape DEF ReadHolder, Decide, Steal, Shaped, At
<1>4. CASE ConfirmSteal(p)
  BY <1>4, MoveShape DEF ConfirmSteal, Shaped, At
<1>5. CASE StartRelease(p) \/ Unlink(p)
  BY <1>5, MoveShape DEF StartRelease, Unlink, Shaped, At
<1> QED BY <1>1, <1>2, <1>3, <1>4, <1>5 DEF AcquireStep

-----------------------------------------------------------------------------
(* What each step does to its command.                                     *)

(* The rest of the state keeps its shape.                                  *)
Framed(p) ==
  /\ DOMAIN cmd' = Procs /\ DOMAIN dir' = RunFiles /\ loop' = loop
  /\ DOMAIN lpc' = Procs /\ DOMAIN info' = Procs /\ DOMAIN seen' = Procs
  /\ \A q \in Procs : q # p => lpc'[q] = lpc[q]
  /\ \A q \in Procs : DOMAIN info'[q] = {"pid", "acquired_at"} /\ info'[q].pid = q

LEMMA FramedMoves ==
  ASSUME Shaped, NEW p \in Procs, Framed(p), \A q \in Procs : q # p => cmd'[q] = cmd[q],
         cmd[p].pc # "idle" => Steady(p), cmd'[p].pc # "idle"
  PROVE  Shaped' /\ Moves(p)
BY DEF Shaped, Framed, Moves

LEMMA StillFramed ==
  ASSUME Shaped, NEW p \in Procs, UNCHANGED <<lockVars, loop>>, DOMAIN cmd' = Procs, DOMAIN dir' = RunFiles
  PROVE  Framed(p)
BY DEF Shaped, Framed, lockVars

LEMMA LockFramed ==
  ASSUME Shaped, NEW p \in Procs, StartAcquire(p) \/ AcquireStep(p) \/ StartRelease(p) \/ Unlink(p),
         UNCHANGED <<loop, dir>>, DOMAIN cmd' = Procs
  PROVE  Framed(p)
BY LockCall DEF Shaped, Framed

LEMMA PreflightEffect ==
  ASSUME Shaped, NEW p \in Procs, Preflight(p)
  PROVE  /\ Shaped' /\ Moves(p) /\ UNCHANGED <<lpc, lock, alive, dir, dirKind, writer, rivals, planner>>
         /\ cmd[p].pc = "idle" /\ cmd'[p].pc = "ready" /\ cmd'[p].answer = cmd[p].answer /\ p \in alive
         /\ dirKind = "planned" /\ dir["ledger"] = NoFile
<1>1. PICK available : Become(p, [pc |-> "ready", available |-> available])
  BY DEF Preflight
<1>2. /\ DOMAIN cmd' = Procs /\ \A q \in Procs : q # p => cmd'[q] = cmd[q]
      /\ cmd'[p].pc = "ready" /\ cmd'[p].answer = cmd[p].answer
  BY <1>1, BecomeFields, IdleFields
<1>3. UNCHANGED <<lockVars, loop, dir>> /\ cmd[p].pc = "idle"
  BY DEF Preflight
<1>4. Framed(p)
  BY <1>2, <1>3, StillFramed DEF Shaped
<1>5. dir["ledger"] = NoFile
  BY DEF Preflight, Started, ExecutionArtifacts, RunFiles
<1> QED BY <1>2, <1>3, <1>4, <1>5, FramedMoves DEF Preflight, At, lockVars

LEMMA TakeLockEffect ==
  ASSUME Shaped, NEW p \in Procs, TakeLock(p)
  PROVE  /\ Shaped' /\ Moves(p) /\ UNCHANGED <<alive, dir, dirKind, writer, rivals, planner>>
         /\ cmd[p].pc = "ready" /\ cmd'[p].pc = "locking" /\ cmd'[p].answer = cmd[p].answer
<1>1. /\ DOMAIN cmd' = Procs /\ \A q \in Procs : q # p => cmd'[q] = cmd[q]
      /\ cmd'[p].pc = "locking" /\ cmd'[p].answer = cmd[p].answer /\ Steady(p)
  BY BecomeFields, IdleFields DEF TakeLock, Steady
<1>2. Framed(p) /\ alive' = alive
  BY <1>1, LockFramed, LockCall DEF TakeLock
<1> QED BY <1>1, <1>2, FramedMoves DEF TakeLock

(* Whoever gets the lock goes on; whoever is refused it is done.           *)
LEMMA AcquireEffect ==
  ASSUME Shaped, NEW p \in Procs, Acquire(p)
  PROVE  /\ Shaped' /\ Moves(p) /\ UNCHANGED <<alive, dir, dirKind, writer, rivals, planner>>
         /\ cmd[p].pc \in {"locking", "joining"} /\ p \in alive
         /\ \/ lpc'[p] = "held" /\ cmd'[p].answer = cmd[p].answer
               /\ cmd'[p].pc = IF cmd[p].pc = "locking" THEN "locked" ELSE "read"
            \/ lpc'[p] = "idle" /\ cmd'[p].pc = "done"
               /\ cmd'[p].answer = IF cmd[p].pc = "locking" THEN "error" ELSE cmd[p].answer
            \/ lpc'[p] \notin {"held", "idle"} /\ cmd' = cmd
<1> DEFINE goes == [pc |-> IF cmd[p].pc = "locking" THEN "locked" ELSE "read"]
           ends == [pc |-> "done", answer |-> IF cmd[p].pc = "locking" THEN "error" ELSE cmd[p].answer]
<1>1. \/ lpc'[p] = "held" /\ Become(p, goes)
      \/ lpc'[p] = "idle" /\ Become(p, ends)
      \/ lpc'[p] \notin {"held", "idle"} /\ UNCHANGED cmd
  BY DEF Acquire
<1>2. CASE lpc'[p] = "held" /\ Become(p, goes)
  <2>1. /\ DOMAIN cmd' = Procs /\ \A q \in Procs : q # p => cmd'[q] = cmd[q]
        /\ cmd'[p].pc = (IF cmd[p].pc = "locking" THEN "locked" ELSE "read")
        /\ cmd'[p].answer = cmd[p].answer /\ Steady(p)
    BY <1>2, BecomeFields, IdleFields DEF Steady
  <2>2. Framed(p) /\ alive' = alive /\ p \in alive
    BY <2>1, LockFramed, LockCall DEF Acquire
  <2> QED BY <1>2, <2>1, <2>2, FramedMoves DEF Acquire
<1>3. CASE lpc'[p] = "idle" /\ Become(p, ends)
  <2>1. /\ DOMAIN cmd' = Procs /\ \A q \in Procs : q # p => cmd'[q] = cmd[q]
        /\ cmd'[p].pc = "done" /\ cmd'[p].answer = (IF cmd[p].pc = "locking" THEN "error" ELSE cmd[p].answer)
        /\ Steady(p)
    BY <1>3, BecomeFields, IdleFields DEF Steady
  <2>2. Framed(p) /\ alive' = alive /\ p \in alive
    BY <2>1, LockFramed, LockCall DEF Acquire
  <2> QED BY <1>3, <2>1, <2>2, FramedMoves DEF Acquire
<1>4. CASE lpc'[p] \notin {"held", "idle"} /\ UNCHANGED cmd
  <2>1. DOMAIN cmd' = Procs /\ Steady(p) /\ cmd'[p].pc # "idle"
    BY <1>4 DEF Shaped, Steady, Acquire
  <2>2. Framed(p) /\ alive' = alive /\ p \in alive
    BY <2>1, LockFramed, LockCall DEF Acquire
  <2> QED BY <1>4, <2>1, <2>2, FramedMoves DEF Acquire
<1> QED BY <1>1, <1>2, <1>3, <1>4

LEMMA HoldEffect ==
  ASSUME Shaped, NEW p \in Procs, Hold(p)
  PROVE  /\ Shaped' /\ Moves(p) /\ UNCHANGED <<lpc, lock, alive, dir, dirKind, writer, rivals, planner>>
         /\ cmd[p].pc = "locked" /\ cmd'[p].pc = "release" /\ cmd'[p].answer = "error" /\ p \in alive
<1>1. /\ DOMAIN cmd' = Procs /\ \A q \in Procs : q # p => cmd'[q] = cmd[q]
      /\ cmd'[p].pc = "release" /\ cmd'[p].answer = "error" /\ Steady(p)
  BY BecomeFields, IdleFields DEF Hold, Steady
<1>2. Framed(p)
  BY <1>1, StillFramed DEF Hold, Shaped
<1> QED BY <1>1, <1>2, FramedMoves DEF Hold, lockVars

(* The files of a run in the order in which a sealed start writes them;    *)
(* those from the n-th on.                                                 *)
Script == <<"receipt", "ledger", "manifest", "md", "html", "input", "summary">>
Rest(n) == SubSeq(Script, n, 7)

LEMMA ScriptFacts ==
  /\ \A n \in 1 .. 7 : Script[n] \in RunFiles /\ Head(Rest(n)) = Script[n] /\ Tail(Rest(n)) = Rest(n + 1)
  /\ \A n \in 1 .. 8 : Rest(n) = <<>> <=> n = 8
  /\ \A i, n \in 1 .. 8 : Rest(i) = Rest(n) => i = n
  /\ \A i, n \in 1 .. 7 : Script[i] = Script[n] => i = n
  /\ Rest(1) = <<"receipt">> \o WriteOrder /\ Rest(2) = WriteOrder
<1>1. Script \in Seq(RunFiles) /\ Len(Script) = 7
  BY DEF Script, RunFiles
<1>3. \A i \in 1 .. 7 : Script[i] \in RunFiles
  BY DEF Script, RunFiles
<1>2. ASSUME NEW n \in 1 .. 8
      PROVE  /\ Rest(n) \in Seq(RunFiles) /\ Len(Rest(n)) = 8 - n
             /\ \A i \in 1 .. 8 - n : Rest(n)[i] = Script[n + i - 1]
  <2>1. n \in Int /\ 7 \in Int /\ \A i \in n .. 7 : Script[i] \in RunFiles
    BY <1>3
  <2>2. /\ SubSeq(Script, n, 7) \in Seq(RunFiles)
        /\ Len(SubSeq(Script, n, 7)) = IF n <= 7 THEN 7 - n + 1 ELSE 0
        /\ \A i \in 1 .. 7 - n + 1 : SubSeq(Script, n, 7)[i] = Script[n + i - 1]
    BY <2>1, SubSeqProperties
  <2> QED BY <2>2 DEF Rest
<1>4. ASSUME NEW n \in 1 .. 7
      PROVE  Script[n] \in RunFiles /\ Head(Rest(n)) = Script[n] /\ Tail(Rest(n)) = Rest(n + 1)
  <2>1. n \in 1 .. Len(Script) /\ 7 \in n .. Len(Script)
    BY <1>1
  <2>2. Head(SubSeq(Script, n, 7)) = Script[n] /\ Tail(SubSeq(Script, n, 7)) = SubSeq(Script, n + 1, 7)
    BY <1>1, <2>1, HeadTailOfSubSeq
  <2> QED BY <1>3, <2>2 DEF Rest
<1>6. ASSUME NEW n \in 1 .. 8 PROVE Rest(n) = <<>> <=> n = 8
  <2>1. Rest(n) \in Seq(RunFiles) /\ Len(Rest(n)) = 8 - n
    BY <1>2
  <2> QED BY <2>1, EmptySeq
<1>7. \A i, n \in 1 .. 8 : Rest(i) = Rest(n) => i = n
  <2> SUFFICES ASSUME NEW i \in 1 .. 8, NEW n \in 1 .. 8, Rest(i) = Rest(n) PROVE i = n
    OBVIOUS
  <2>1. 8 - i = 8 - n
    BY <1>2
  <2> QED BY <2>1
<1>8. \A i, n \in 1 .. 7 : Script[i] = Script[n] => i = n
  BY DEF Script
<1>9. Rest(2) = WriteOrder
  <2>1. WriteOrder \in Seq(RunFiles) /\ Len(WriteOrder) = 6
    BY DEF WriteOrder, RunFiles
  <2>2. \A i \in 1 .. 6 : WriteOrder[i] = Script[i + 1]
    BY DEF WriteOrder, Script
  <2>3. Rest(2) \in Seq(RunFiles) /\ Len(Rest(2)) = 8 - 2
        /\ \A i \in 1 .. 8 - 2 : Rest(2)[i] = Script[2 + i - 1]
    <3> DEFINE two == 2
    <3>1. two \in 1 .. 8
      OBVIOUS
    <3> HIDE DEF two
    <3>2. Rest(two) \in Seq(RunFiles) /\ Len(Rest(two)) = 8 - two
          /\ \A i \in 1 .. 8 - two : Rest(two)[i] = Script[two + i - 1]
      BY <1>2, <3>1
    <3> QED BY <3>2 DEF two
  <2>4. ASSUME NEW i \in 1 .. 6 PROVE Rest(2)[i] = WriteOrder[i]
    <3>1. i \in 1 .. 8 - 2 /\ 2 + i - 1 = i + 1
      OBVIOUS
    <3> QED BY <2>2, <2>3, <3>1
  <2>5. Len(Rest(2)) = 6 /\ \A i \in 1 .. Len(Rest(2)) : Rest(2)[i] = WriteOrder[i]
    BY <2>3, <2>4
  <2>6. Rest(2) \in Seq(RunFiles) /\ Len(Rest(2)) = Len(WriteOrder)
    BY <2>1, <2>3
  <2> QED BY <2>1, <2>5, <2>6, SeqEqual
<1>10. Rest(1) = <<"receipt">> \o WriteOrder
  <2>1. 1 \in 1 .. Len(Script) /\ 7 \in 1 .. Len(Script)
    BY <1>1
  <2>2. SubSeq(Script, 1, 7) = <<Script[1]>> \o SubSeq(Script, 2, 7)
    BY <1>1, <2>1, SubSeqRecursiveFirst
  <2>3. Script[1] = "receipt"
    BY DEF Script
  <2> QED BY <1>9, <2>2, <2>3 DEF Rest
<1> QED BY <1>4, <1>6, <1>7, <1>8, <1>9, <1>10

(* A start begins to write: a sealed one with the receipt, unless that     *)
(* could not be made.                                                      *)
Begins(p) ==
  /\ cmd'[p].pc = "truncate"
  /\ \/ cmd'[p].answer = "ok" /\ cmd'[p].todo = IF p \in Sealers THEN Rest(1) ELSE Rest(2)
     \/ cmd'[p].answer = "error" /\ cmd'[p].todo = Rest(2)

LEMMA AssembleEffect ==
  ASSUME Shaped, NEW p \in Procs, Assemble(p)
  PROVE  /\ Shaped' /\ Moves(p) /\ UNCHANGED <<lpc, lock, alive, dir, dirKind, writer, rivals, planner>>
         /\ cmd[p].pc = "locked" /\ Begins(p) /\ p \in alive
<1> DEFINE files == IF p \in Sealers THEN <<"receipt">> \o WriteOrder ELSE WriteOrder
           first == [pc |-> "truncate", answer |-> "ok", todo |-> files]
           second == [pc |-> "truncate", answer |-> "error", todo |-> WriteOrder]
<1>1. Become(p, first) \/ Become(p, second)
  BY DEF Assemble
<1>2. CASE Become(p, first)
  <2>1. /\ DOMAIN cmd' = Procs /\ \A q \in Procs : q # p => cmd'[q] = cmd[q]
        /\ cmd'[p].pc = "truncate" /\ cmd'[p].answer = "ok" /\ Steady(p)
        /\ cmd'[p].todo = files
    <3> HIDE DEF files
    <3> QED BY <1>2, BecomeFields, IdleFields DEF Steady
  <2>2. Framed(p)
    BY <2>1, StillFramed DEF Assemble, Shaped
  <2> QED BY <2>1, <2>2, ScriptFacts, FramedMoves DEF Assemble, lockVars, Begins
<1>3. CASE Become(p, second)
  <2>1. /\ DOMAIN cmd' = Procs /\ \A q \in Procs : q # p => cmd'[q] = cmd[q]
        /\ cmd'[p].pc = "truncate" /\ cmd'[p].answer = "error" /\ Steady(p) /\ cmd'[p].todo = WriteOrder
    BY <1>3, BecomeFields, IdleFields DEF Steady
  <2>2. Framed(p)
    BY <2>1, StillFramed DEF Assemble, Shaped
  <2> QED BY <2>1, <2>2, ScriptFacts, FramedMoves DEF Assemble, lockVars, Begins
<1> QED BY <1>1, <1>2, <1>3

LEMMA RawStartEffect ==
  ASSUME Shaped, NEW p \in Procs, RawStart(p)
  PROVE  /\ Shaped' /\ Moves(p) /\ UNCHANGED <<lpc, lock, alive, dir, writer, rivals, planner>>
         /\ cmd[p].pc = "idle" /\ Begins(p) /\ cmd'[p].answer = "ok" /\ p \in alive
         /\ dirKind = "none" /\ dirKind' = "raw" /\ \A k \in Planners : planner[k].pc # "mkdir"
<1> DEFINE files == IF p \in Sealers THEN <<"receipt">> \o WriteOrder ELSE WriteOrder
<1>1. PICK available :
        Become(p, [pc |-> "truncate", available |-> available, answer |-> "ok", todo |-> files])
  BY DEF RawStart
<1>2. /\ DOMAIN cmd' = Procs /\ \A q \in Procs : q # p => cmd'[q] = cmd[q]
      /\ cmd'[p].pc = "truncate" /\ cmd'[p].answer = "ok"
      /\ cmd'[p].todo = files
  <2> HIDE DEF files
  <2> QED BY <1>1, BecomeFields, IdleFields
<1>3. UNCHANGED <<lockVars, loop, dir>> /\ cmd[p].pc = "idle"
  BY DEF RawStart
<1>4. Framed(p)
  BY <1>2, <1>3, StillFramed DEF Shaped
<1> QED BY <1>2, <1>3, <1>4, ScriptFacts, FramedMoves DEF RawStart, At, lockVars, Begins

LEMMA TruncateEffect ==
  ASSUME Shaped, NEW p \in Procs, TruncateFile(p), Head(cmd[p].todo) \in RunFiles
  PROVE  /\ Shaped' /\ Moves(p) /\ UNCHANGED <<lpc, lock, alive, dirKind, planner>>
         /\ cmd[p].pc = "truncate" /\ cmd'[p].pc = "fill" /\ p \in alive /\ writer' = p
         /\ cmd'[p].todo = cmd[p].todo /\ cmd'[p].answer = cmd[p].answer
         /\ \A f \in RunFiles : f # Head(cmd[p].todo) => dir'[f] = dir[f]
         /\ Head(cmd[p].todo) = "ledger" => dir'["ledger"] = Ledger(p, 0, FALSE) /\ rivals' = Waiting \cup {p}
         /\ Head(cmd[p].todo) # "ledger" => dir'[Head(cmd[p].todo)] = Torn /\ rivals' = rivals
<1>1. /\ DOMAIN cmd' = Procs /\ \A q \in Procs : q # p => cmd'[q] = cmd[q]
      /\ cmd'[p].pc = "fill" /\ cmd'[p].todo = cmd[p].todo /\ cmd'[p].answer = cmd[p].answer /\ Steady(p)
  BY BecomeFields, IdleFields DEF TruncateFile, Steady
<1>2. /\ DOMAIN dir' = RunFiles /\ \A f \in RunFiles : f # Head(cmd[p].todo) => dir'[f] = dir[f]
      /\ Head(cmd[p].todo) = "ledger" => dir'["ledger"] = Ledger(p, 0, FALSE)
      /\ Head(cmd[p].todo) # "ledger" => dir'[Head(cmd[p].todo)] = Torn
  BY DEF TruncateFile, Shaped
<1>3. UNCHANGED <<lockVars, loop>> /\ cmd[p].pc = "truncate"
  BY DEF TruncateFile
<1>4. Framed(p)
  BY <1>1, <1>2, <1>3, StillFramed
<1> QED BY <1>1, <1>2, <1>3, <1>4, FramedMoves DEF TruncateFile, lockVars

LEMMA FillPartEffect ==
  ASSUME Shaped, NEW p \in Procs, FillPart(p)
  PROVE  /\ Shaped' /\ Moves(p) /\ UNCHANGED <<lpc, lock, alive, dirKind, planner, cmd, writer, rivals>>
         /\ cmd[p].pc = "fill" /\ p \in alive /\ Head(cmd[p].todo) = "ledger"
         /\ \A f \in RunFiles : f # "ledger" => dir'[f] = dir[f]
         /\ dir["ledger"] = Ledger(p, 0, FALSE)
         /\ \E n \in {0, Len(Events(p)) - 1}, torn \in BOOLEAN : dir'["ledger"] = Ledger(p, n, torn)
<1>1. PICK n \in {0, Len(Events(p)) - 1}, torn \in BOOLEAN : dir' = [dir EXCEPT !["ledger"] = Ledger(p, n, torn)]
  BY DEF FillPart
<1>2. "ledger" \in RunFiles
  BY DEF RunFiles
<1>3. DOMAIN dir' = RunFiles /\ dir'["ledger"] = Ledger(p, n, torn) /\ \A f \in RunFiles : f # "ledger" => dir'[f] = dir[f]
  BY <1>1, <1>2 DEF Shaped
<1>4. UNCHANGED <<lockVars, loop, cmd>> /\ cmd[p].pc = "fill" /\ DOMAIN cmd' = Procs
  BY DEF FillPart, Shaped
<1>5. Framed(p)
  BY <1>3, <1>4, StillFramed
<1>6. Shaped' /\ Moves(p)
  BY <1>4, <1>5, FramedMoves DEF Steady
<1> QED BY <1>3, <1>4, <1>6 DEF FillPart, lockVars

LEMMA FillEffect ==
  ASSUME Shaped, NEW p \in Procs, FillFile(p), Head(cmd[p].todo) \in RunFiles
  PROVE  /\ Shaped' /\ Moves(p) /\ UNCHANGED <<lpc, lock, alive, dirKind, planner, rivals>>
         /\ cmd[p].pc = "fill" /\ p \in alive /\ writer' = p
         /\ cmd'[p].todo = Tail(cmd[p].todo) /\ cmd'[p].answer = cmd[p].answer
         /\ cmd'[p].pc = IF Tail(cmd[p].todo) = <<>> THEN Leave ELSE "truncate"
         /\ \A f \in RunFiles : f # Head(cmd[p].todo) => dir'[f] = dir[f]
         /\ dir'[Head(cmd[p].todo)] = Contents(p, Head(cmd[p].todo))
<1> DEFINE rest == Tail(cmd[p].todo)
           next == IF rest = <<>> THEN Leave ELSE "truncate"
<1>1. Become(p, [todo |-> rest, pc |-> next])
  BY DEF FillFile
<1>2. /\ DOMAIN cmd' = Procs /\ \A q \in Procs : q # p => cmd'[q] = cmd[q]
      /\ cmd'[p].pc = next /\ cmd'[p].todo = rest
      /\ cmd'[p].answer = cmd[p].answer /\ Steady(p)
  <2> HIDE DEF rest, next
  <2> QED BY <1>1, BecomeFields, IdleFields DEF Steady
<1>3. /\ DOMAIN dir' = RunFiles /\ \A f \in RunFiles : f # Head(cmd[p].todo) => dir'[f] = dir[f]
      /\ dir'[Head(cmd[p].todo)] = Contents(p, Head(cmd[p].todo))
  BY DEF FillFile, Shaped
<1>4. UNCHANGED <<lockVars, loop>> /\ cmd[p].pc = "fill" /\ Leave # "idle"
  BY DEF FillFile, Leave
<1>5. Framed(p)
  BY <1>2, <1>3, <1>4, StillFramed
<1>6. Shaped' /\ Moves(p)
  BY <1>2, <1>4, <1>5, FramedMoves
<1> QED BY <1>2, <1>3, <1>4, <1>6 DEF FillFile, lockVars

LEMMA WriteFailsEffect ==
  ASSUME Shaped, NEW p \in Procs, WriteFails(p)
  PROVE  /\ Shaped' /\ Moves(p) /\ UNCHANGED <<lpc, lock, alive, dir, dirKind, writer, rivals, planner>>
         /\ cmd[p].pc = "fill" /\ cmd'[p].pc = Leave /\ cmd'[p].answer = "error" /\ p \in alive
<1>1. /\ DOMAIN cmd' = Procs /\ \A q \in Procs : q # p => cmd'[q] = cmd[q]
      /\ cmd'[p].pc = Leave /\ cmd'[p].answer = "error" /\ Steady(p)
  BY BecomeFields, IdleFields DEF WriteFails, Steady
<1>2. Leave # "idle"
  BY DEF Leave
<1>3. Framed(p)
  BY <1>1, StillFramed DEF WriteFails, Shaped
<1> QED BY <1>1, <1>2, <1>3, FramedMoves DEF WriteFails, lockVars

LEMMA ReleaseEffect ==
  ASSUME Shaped, NEW p \in Procs, Release(p)
  PROVE  /\ Shaped' /\ Moves(p) /\ UNCHANGED <<alive, dir, dirKind, writer, rivals, planner>>
         /\ cmd[p].pc = "release" /\ cmd'[p].answer = cmd[p].answer /\ p \in alive
         /\ cmd'[p].pc = IF lpc'[p] = "idle" THEN "done" ELSE "release"
         /\ lpc[p] \in {"held", "unlinking"} /\ lpc'[p] \in {"unlinking", "idle"}
<1>1. lpc'[p] \in {"unlinking", "idle"} /\ lpc[p] \in {"held", "unlinking"}
  BY MoveShape DEF Release, StartRelease, Unlink, At
<1>2. CASE lpc'[p] = "idle"
  <2>1. /\ DOMAIN cmd' = Procs /\ \A q \in Procs : q # p => cmd'[q] = cmd[q]
        /\ cmd'[p].pc = "done" /\ cmd'[p].answer = cmd[p].answer /\ Steady(p)
    BY <1>2, BecomeFields, IdleFields DEF Release, Steady
  <2>2. Framed(p) /\ alive' = alive /\ p \in alive
    BY <2>1, LockFramed, LockCall DEF Release
  <2> QED BY <1>1, <1>2, <2>1, <2>2, FramedMoves DEF Release
<1>3. CASE lpc'[p] # "idle"
  <2>1. cmd' = cmd /\ DOMAIN cmd' = Procs /\ Steady(p) /\ cmd[p].pc = "release"
    BY <1>3 DEF Release, Steady, Shaped
  <2>2. Framed(p) /\ alive' = alive /\ p \in alive
    BY <2>1, LockFramed, LockCall DEF Release
  <2> QED BY <1>1, <1>3, <2>1, <2>2, FramedMoves DEF Release
<1> QED BY <1>2, <1>3

LEMMA BuildReportEffect ==
  ASSUME Shaped, NEW p \in Procs, BuildReport(p)
  PROVE  /\ Shaped' /\ Moves(p) /\ UNCHANGED <<alive, dir, dirKind, writer, rivals, planner>>
         /\ cmd[p].pc \in {"idle", "done"} /\ cmd'[p].pc = "joining" /\ cmd'[p].answer = cmd[p].answer
         /\ dirKind # "none" /\ Steady(p)
<1>1. /\ DOMAIN cmd' = Procs /\ \A q \in Procs : q # p => cmd'[q] = cmd[q]
      /\ cmd'[p].pc = "joining" /\ cmd'[p].answer = cmd[p].answer /\ Steady(p)
  BY BecomeFields, IdleFields DEF BuildReport, Steady
<1>2. Framed(p) /\ alive' = alive
  BY <1>1, LockFramed, LockCall DEF BuildReport
<1> QED BY <1>1, <1>2, FramedMoves DEF BuildReport

LEMMA ReadInputEffect ==
  ASSUME Shaped, NEW p \in Procs, ReadInput(p)
  PROVE  /\ Shaped' /\ Moves(p) /\ UNCHANGED <<lpc, lock, alive, dir, dirKind, writer, rivals, planner>>
         /\ cmd[p].pc = "read" /\ cmd'[p].answer = cmd[p].answer /\ p \in alive
         /\ \/ cmd'[p].pc = "anchor" /\ cmd'[p].input = dir["input"] /\ dir["input"] \notin {NoFile, Torn}
            \/ cmd'[p].pc = "release"
<1>1. CASE Whole(dir, {"input"}) /\ Become(p, [pc |-> "anchor", input |-> dir["input"]])
  <2>1. /\ DOMAIN cmd' = Procs /\ \A q \in Procs : q # p => cmd'[q] = cmd[q]
        /\ cmd'[p].pc = "anchor" /\ cmd'[p].input = dir["input"] /\ cmd'[p].answer = cmd[p].answer /\ Steady(p)
    BY <1>1, BecomeFields, IdleFields DEF Steady
  <2>2. Framed(p)
    BY <2>1, StillFramed DEF ReadInput, Shaped
  <2> QED BY <1>1, <2>1, <2>2, FramedMoves DEF ReadInput, lockVars, Whole
<1>2. CASE Become(p, [pc |-> "release"])
  <2>1. /\ DOMAIN cmd' = Procs /\ \A q \in Procs : q # p => cmd'[q] = cmd[q]
        /\ cmd'[p].pc = "release" /\ cmd'[p].answer = cmd[p].answer /\ Steady(p)
    BY <1>2, BecomeFields, IdleFields DEF Steady
  <2>2. Framed(p)
    BY <2>1, StillFramed DEF ReadInput, Shaped
  <2> QED BY <2>1, <2>2, FramedMoves DEF ReadInput, lockVars
<1> QED BY <1>1, <1>2 DEF ReadInput

LEMMA AnchorEffect ==
  ASSUME Shaped, NEW p \in Procs, Anchor(p)
  PROVE  /\ Shaped' /\ Moves(p) /\ UNCHANGED <<lpc, lock, alive, dir, dirKind, writer, rivals, planner>>
         /\ cmd[p].pc = "anchor" /\ cmd'[p].answer = cmd[p].answer /\ p \in alive
         /\ \/ /\ cmd'[p].pc = "md" /\ cmd'[p].report = Report(cmd[p].input, dir["ledger"])
               /\ dir["ledger"] # NoFile
            \/ cmd'[p].pc = "release"
<1> DEFINE report == Report(cmd[p].input, dir["ledger"])
<1>1. CASE dir["ledger"] # NoFile /\ Become(p, [pc |-> "md", report |-> report])
  <2>1. /\ DOMAIN cmd' = Procs /\ \A q \in Procs : q # p => cmd'[q] = cmd[q]
        /\ cmd'[p].pc = "md" /\ cmd'[p].report = report /\ cmd'[p].answer = cmd[p].answer /\ Steady(p)
    <3> HIDE DEF report
    <3> QED BY <1>1, BecomeFields, IdleFields DEF Steady
  <2>2. Framed(p)
    BY <2>1, StillFramed DEF Anchor, Shaped
  <2> QED BY <1>1, <2>1, <2>2, FramedMoves DEF Anchor, lockVars
<1>2. CASE Become(p, [pc |-> "release"])
  <2>1. /\ DOMAIN cmd' = Procs /\ \A q \in Procs : q # p => cmd'[q] = cmd[q]
        /\ cmd'[p].pc = "release" /\ cmd'[p].answer = cmd[p].answer /\ Steady(p)
    BY <1>2, BecomeFields, IdleFields DEF Steady
  <2>2. Framed(p)
    BY <2>1, StillFramed DEF Anchor, Shaped
  <2> QED BY <2>1, <2>2, FramedMoves DEF Anchor, lockVars
<1> QED BY <1>1, <1>2 DEF Anchor

LEMMA RenameReportEffect ==
  ASSUME Shaped, NEW p \in Procs, RenameReport(p)
  PROVE  /\ Shaped' /\ Moves(p) /\ UNCHANGED <<lpc, lock, alive, dirKind, writer, rivals, planner>>
         /\ cmd[p].pc \in {"md", "html"} /\ cmd'[p].answer = cmd[p].answer /\ p \in alive
         /\ \A f \in RunFiles : f # cmd[p].pc => dir'[f] = dir[f]
         /\ dir'[cmd[p].pc] = dir[cmd[p].pc] \/ dir'[cmd[p].pc] = cmd[p].report
         /\ \/ cmd[p].pc = "md" /\ cmd'[p].pc = "html" /\ cmd'[p].report = cmd[p].report
            \/ cmd'[p].pc = "release"
<1>0. cmd[p].pc \in RunFiles /\ cmd[p].pc \in {"md", "html"}
  BY DEF RenameReport, RunFiles
<1>1. /\ DOMAIN dir' = RunFiles /\ \A f \in RunFiles : f # cmd[p].pc => dir'[f] = dir[f]
      /\ dir'[cmd[p].pc] = dir[cmd[p].pc] \/ dir'[cmd[p].pc] = cmd[p].report
  BY <1>0 DEF RenameReport, Shaped
<1>2. CASE cmd[p].pc = "md" /\ Become(p, [pc |-> "html"])
  <2>1. /\ DOMAIN cmd' = Procs /\ \A q \in Procs : q # p => cmd'[q] = cmd[q]
        /\ cmd'[p].pc = "html" /\ cmd'[p].report = cmd[p].report /\ cmd'[p].answer = cmd[p].answer /\ Steady(p)
    BY <1>2, BecomeFields, IdleFields DEF Steady
  <2>2. Framed(p)
    BY <1>1, <2>1, StillFramed DEF RenameReport
  <2>3. Shaped' /\ Moves(p)
    BY <2>1, <2>2, FramedMoves
  <2> QED BY <1>0, <1>1, <1>2, <2>1, <2>3 DEF RenameReport, lockVars
<1>3. CASE Become(p, [pc |-> "release"])
  <2>1. /\ DOMAIN cmd' = Procs /\ \A q \in Procs : q # p => cmd'[q] = cmd[q]
        /\ cmd'[p].pc = "release" /\ cmd'[p].answer = cmd[p].answer /\ Steady(p)
    BY <1>3, BecomeFields, IdleFields DEF Steady
  <2>2. Framed(p)
    BY <1>1, <2>1, StillFramed DEF RenameReport
  <2>3. Shaped' /\ Moves(p)
    BY <2>1, <2>2, FramedMoves
  <2> QED BY <1>0, <1>1, <2>1, <2>3 DEF RenameReport, lockVars
<1>4. (cmd[p].pc = "md" /\ Become(p, [pc |-> "html"])) \/ Become(p, [pc |-> "release"])
  BY DEF RenameReport
<1> QED BY <1>2, <1>3, <1>4

LEMMA DiesEffect ==
  ASSUME Shaped, NEW p \in Procs, ProcessDies(p)
  PROVE  /\ Shaped' /\ Moves(p) /\ UNCHANGED <<lpc, lock, dir, dirKind, writer, rivals, planner>>
         /\ cmd[p].pc \notin {"idle", "done"} /\ cmd'[p].pc = "dead" /\ cmd'[p].answer = cmd[p].answer
         /\ alive' = alive \ {p} /\ p \in alive
<1>1. /\ DOMAIN cmd' = Procs /\ \A q \in Procs : q # p => cmd'[q] = cmd[q]
      /\ cmd'[p].pc = "dead" /\ cmd'[p].answer = cmd[p].answer /\ Steady(p)
  BY BecomeFields, IdleFields DEF ProcessDies, Steady
<1>2. Framed(p)
  BY <1>1 DEF Framed, ProcessDies, Die, Shaped
<1> QED BY <1>1, <1>2, FramedMoves DEF ProcessDies, Die

(* Planning is of no concern to a command but that it makes the directory, *)
(* and no planner is about to make it once a raw start has.                *)
PlannerInv ==
  /\ DOMAIN planner = Planners /\ \A k \in Planners : DOMAIN planner[k] = {"pc", "done"}
  /\ \A k \in Planners : planner[k].pc = "mkdir" => dirKind \in {"none", "planned"}

PlannerStep(k) == PlanRun(k) \/ MakePlanDir(k) \/ TruncatePlanFile(k) \/ WritePlanFile(k) \/ PlannerDies(k)

LEMMA PlannerEffect ==
  ASSUME Shaped, PlannerInv, NEW k \in Planners, PlannerStep(k)
  PROVE  /\ Shaped' /\ PlannerInv' /\ UNCHANGED <<lockVars, loop, dir, cmd, writer, rivals>>
         /\ \/ dirKind' = dirKind
            \/ dirKind' = "planned" /\ dirKind \in {"none", "planned"}
<1>1. CASE PlanRun(k)
  BY <1>1 DEF PlannerInv, PlanRun, Shaped, lockVars
<1>2. CASE MakePlanDir(k)
  BY <1>2 DEF PlannerInv, MakePlanDir, Shaped, lockVars
<1>3. CASE TruncatePlanFile(k)
  BY <1>3 DEF PlannerInv, TruncatePlanFile, Shaped, lockVars
<1>4. CASE WritePlanFile(k)
  <2> DEFINE next == IF planner[k].done + 1 = Len(PlanFiles) THEN "done" ELSE "truncate"
             count == planner[k].done + 1
  <2>1. next \in {"done", "truncate"}
    OBVIOUS
  <2>2. planner' = [planner EXCEPT ![k].done = count, ![k].pc = next]
    BY <1>4 DEF WritePlanFile
  <2> HIDE DEF next, count
  <2>3. PlannerInv'
    BY <1>4, <2>1, <2>2 DEF PlannerInv, WritePlanFile
  <2> QED BY <1>4, <2>3 DEF WritePlanFile, Shaped, lockVars
<1>5. CASE PlannerDies(k)
  BY <1>5 DEF PlannerInv, PlannerDies, Shaped, lockVars
<1> QED BY <1>1, <1>2, <1>3, <1>4, <1>5 DEF PlannerStep

-----------------------------------------------------------------------------
(* The ledger of a start.                                                  *)

LEMMA KeptFacts == ASSUME Shaped PROVE Cardinality(Kept) \in Nat
<1>1. Len(loop.gates) \in Nat
  BY RunAssumption, LenProperties DEF Shaped
<1>2. IsFiniteSet(1 .. Len(loop.gates))
  BY <1>1, FS_Interval
<1>3. IsFiniteSet(Kept)
  BY <1>2, FS_Subset DEF Kept
<1> QED BY <1>3, FS_CardinalityType

LEMMA Joined ==
  ASSUME NEW S, NEW s \in Seq(S), NEW t \in Seq(S)
  PROVE  /\ s \o t \in Seq(S) /\ Len(s \o t) = Len(s) + Len(t) /\ Len(s) \in Nat /\ Len(t) \in Nat
         /\ \A i \in 1 .. Len(s) : (s \o t)[i] = s[i]
         /\ \A i \in 1 .. Len(t) : (s \o t)[Len(s) + i] = t[i]
OBVIOUS

Types == {"brief.sealed", "run.started", "captured", "gate.result", "run.held", "run.completed"}

(* A run has an end: its last event, and before it the result of a gate.   *)
LEMMA EventsFacts ==
  ASSUME Shaped, NEW p
  PROVE  LET n == Len(Events(p)) IN
         /\ n \in Nat /\ n >= 2
         /\ Events(p)[n] = TerminalEvent(p) /\ Events(p)[n - 1] = "gate.result"
<1> DEFINE sealed == IF p \in Sealers THEN <<"brief.sealed">> ELSE <<>>
           opening == <<"run.started", "captured">>
           head == sealed \o opening
           body == head \o GateResults
           last == <<TerminalEvent(p)>>
           m == Cardinality(Kept)
<1>1. m \in Nat
  BY KeptFacts
<1>2. sealed \in Seq(Types) /\ opening \in Seq(Types) /\ TerminalEvent(p) \in Types
  <2>1. <<"brief.sealed">> \in Seq(Types) /\ <<>> \in Seq(Types) /\ opening \in Seq(Types)
    BY DEF Types
  <2>2. TerminalEvent(p) \in Types
    BY DEF TerminalEvent, Types
  <2>3. CASE p \in Sealers
    BY <2>1, <2>2, <2>3
  <2>4. CASE p \notin Sealers
    BY <2>1, <2>2, <2>4
  <2> QED BY <2>3, <2>4
<1>3. GateResults \in Seq(Types) /\ Len(GateResults) = m + 1 /\ GateResults[m + 1] = "gate.result"
  <2>1. GateResults = [i \in 1 .. m + 1 |-> "gate.result"]
    BY DEF GateResults
  <2>2. "gate.result" \in Types
    BY DEF Types
  <2> HIDE DEF m
  <2>3. DOMAIN GateResults = 1 .. m + 1 /\ m + 1 \in Nat
    BY <1>1, <2>1
  <2>4. GateResults \in [1 .. m + 1 -> Types]
    BY <2>1, <2>2
  <2>5. GateResults \in Seq(Types)
    BY <2>3, <2>4
  <2>6. Len(GateResults) = m + 1
    BY <2>3, <2>5
  <2>7. m + 1 \in 1 .. m + 1
    BY <1>1
  <2> QED BY <2>1, <2>5, <2>6, <2>7
<1>4. last \in Seq(Types) /\ Len(last) = 1 /\ last[1] = TerminalEvent(p)
  BY <1>2
<1>5. Events(p) = body \o last
  BY DEF Events
<1> HIDE DEF sealed, opening, last, m
<1>6. head \in Seq(Types) /\ Len(head) \in Nat
  BY <1>2, Joined
<1> HIDE DEF head
<1>7. /\ body \in Seq(Types) /\ Len(body) = Len(head) + Len(GateResults)
      /\ \A i \in 1 .. Len(GateResults) : body[Len(head) + i] = GateResults[i]
  <2> DEFINE results == GateResults
  <2>1. results \in Seq(Types)
    BY <1>3
  <2> HIDE DEF results
  <2>2. head \o results \in Seq(Types) /\ Len(head \o results) = Len(head) + Len(results)
        /\ \A i \in 1 .. Len(results) : (head \o results)[Len(head) + i] = results[i]
    BY <1>6, <2>1, Joined
  <2> QED BY <2>2 DEF results
<1> HIDE DEF body
<1>8. Len(body) \in Nat /\ Len(body) >= 1 /\ body[Len(body)] = "gate.result"
  <2>1. m + 1 \in 1 .. Len(GateResults) /\ Len(GateResults) = m + 1
    BY <1>1, <1>3
  <2>2. body[Len(head) + (m + 1)] = "gate.result"
    BY <1>3, <1>7, <2>1
  <2> QED BY <1>1, <1>6, <1>7, <2>1, <2>2
<1>9. /\ Len(body \o last) = Len(body) + Len(last)
      /\ \A i \in 1 .. Len(last) : (body \o last)[Len(body) + i] = last[i]
      /\ \A i \in 1 .. Len(body) : (body \o last)[i] = body[i]
  <2>1. body \in Seq(Types) /\ last \in Seq(Types)
    BY <1>4, <1>7
  <2> QED BY <2>1, Joined
<1>10. 1 \in 1 .. Len(last) /\ Len(body) \in 1 .. Len(body)
  BY <1>4, <1>8
<1>11. Len(Events(p)) = Len(body) + 1 /\ Events(p)[Len(body) + 1] = TerminalEvent(p)
       /\ Events(p)[Len(body)] = "gate.result"
  BY <1>4, <1>5, <1>8, <1>9, <1>10
<1> QED BY <1>8, <1>11

(* It stays as it is while the loop and the evidence do.                   *)
LEMMA EventsStay ==
  ASSUME loop' = loop, NEW p, cmd'[p].available = cmd[p].available
  PROVE  Events(p)' = Events(p)
<1>1. Kept' = Kept
  BY DEF Kept
<1>2. EvaluatedGates' = EvaluatedGates
  BY <1>1 DEF EvaluatedGates
<1>3. GateResults' = GateResults
  BY <1>1 DEF GateResults
<1>4. ASSUME NEW g PROVE GateStatus(g, cmd[p].available)' = GateStatus(g, cmd[p].available)
  <2>1. loop.t5' = loop.t5 /\ cmd[p].available' = cmd[p].available
    OBVIOUS
  <2> QED BY <2>1, Zenon DEF GateStatus
<1>5. BlockingHoldOrFail(cmd[p].available)' <=> BlockingHoldOrFail(cmd[p].available)
  BY <1>2, <1>4 DEF BlockingHoldOrFail
<1>6. TerminalEvent(p)' = TerminalEvent(p)
  BY <1>5 DEF TerminalEvent
<1> QED BY <1>3, <1>6 DEF Events

LEMMA WholeStays ==
  ASSUME NEW p, Events(p)' = Events(p) PROVE WholeLedger(p)' = WholeLedger(p)
BY DEF WholeLedger, Ledger

LEMMA ReportStays ==
  ASSUME NEW p, NEW ledger, Events(p)' = Events(p), Events(ledger.of)' = Events(ledger.of)
  PROVE  Report(p, ledger)' = Report(p, ledger)
<1>1. WholeLedger(p)' = WholeLedger(p) /\ WholeLedger(p).of = p
  BY WholeStays DEF WholeLedger, Ledger
<1>2. Recover(ledger)' = Recover(ledger)
  BY DEF Recover
<1>3. Recover(WholeLedger(p))' = Recover(WholeLedger(p))
  BY <1>1 DEF Recover
<1> QED BY <1>2, <1>3 DEF Report

LEMMA ContentsStay ==
  ASSUME NEW p, NEW f, Events(p)' = Events(p)
  PROVE  Contents(p, f)' = Contents(p, f)
<1>1. WholeLedger(p)' = WholeLedger(p) /\ WholeLedger(p).of = p
  BY WholeStays DEF WholeLedger, Ledger
<1>2. Report(p, WholeLedger(p))' = Report(p, WholeLedger(p))
  BY <1>1, ReportStays
<1> QED BY <1>1, <1>2 DEF Contents

-----------------------------------------------------------------------------
(* A ledger file holds a ledger of some start that has begun, whole or cut *)
(* in its first line or about its last one; and a start that writes goes   *)
(* through the files in their order.  Neither needs the lock.              *)

Writing == {"truncate", "fill"}

LedgerOf(q) ==
  \/ dir["ledger"] = WholeLedger(q)
  \/ \E n \in {0, Len(Events(q)) - 1}, torn \in BOOLEAN : dir["ledger"] = Ledger(q, n, torn)

LedgerInv == dir["ledger"] # NoFile => \E q \in Procs : cmd[q].pc # "idle" /\ LedgerOf(q)
OrderInv == \A p \in Procs : cmd[p].pc \in Writing => \E n \in 1 .. 7 : cmd[p].todo = Rest(n)

Base == Shaped /\ PlannerInv /\ LedgerInv /\ OrderInv

LEMMA Settles ==
  ASSUME NEW p \in Procs, Moves(p), NEW q \in Procs, cmd[q].pc # "idle"
  PROVE  cmd'[q].pc # "idle" /\ Events(q)' = Events(q) /\ WholeLedger(q)' = WholeLedger(q)
<1>1. cmd'[q].pc # "idle" /\ loop' = loop /\ cmd'[q].available = cmd[q].available
  BY DEF Moves, Steady
<1>2. Events(q)' = Events(q)
  BY <1>1, EventsStay
<1> QED BY <1>1, <1>2, WholeStays

LEMMA LedgerStays ==
  ASSUME LedgerInv, NEW p \in Procs, Moves(p), dir'["ledger"] = dir["ledger"]
  PROVE  LedgerInv'
<1> SUFFICES ASSUME dir["ledger"] # NoFile
             PROVE  \E q \in Procs : cmd'[q].pc # "idle" /\ LedgerOf(q)'
  BY DEF LedgerInv
<1>1. PICK q \in Procs : cmd[q].pc # "idle" /\ LedgerOf(q)
  BY DEF LedgerInv
<1>2. cmd'[q].pc # "idle" /\ Events(q)' = Events(q) /\ WholeLedger(q)' = WholeLedger(q)
  BY <1>1, Settles
<1>3. LedgerOf(q)'
  BY <1>1, <1>2 DEF LedgerOf, Ledger
<1> QED BY <1>2, <1>3

(* The steps that leave the files alone.                                   *)
Calm(p) ==
  /\ Shaped' /\ Moves(p) /\ UNCHANGED <<dir, writer, rivals, planner>>
  /\ \/ cmd'[p].pc \notin Writing /\ dirKind' = dirKind
     \/ cmd[p].pc = "locked" /\ Begins(p) /\ dirKind' = dirKind
     \/ RawStart(p)

LEMMA Calmed ==
  ASSUME Shaped, NEW p \in Procs,
         \/ Preflight(p) \/ RawStart(p) \/ BuildReport(p) \/ ProcessDies(p) \/ TakeLock(p) \/ Acquire(p)
         \/ Hold(p) \/ Assemble(p) \/ WriteFails(p) \/ Release(p) \/ ReadInput(p) \/ Anchor(p)
  PROVE  Calm(p)
<1>1. CASE Preflight(p)
  BY <1>1, PreflightEffect DEF Calm, Writing
<1>2. CASE RawStart(p)
  BY <1>2, RawStartEffect DEF Calm
<1>3. CASE BuildReport(p)
  BY <1>3, BuildReportEffect DEF Calm, Writing
<1>4. CASE ProcessDies(p)
  BY <1>4, DiesEffect DEF Calm, Writing
<1>5. CASE TakeLock(p)
  BY <1>5, TakeLockEffect DEF Calm, Writing
<1>6. CASE Acquire(p)
  <2>1. cmd'[p].pc \in {"locked", "read", "done"} \/ cmd'[p].pc = cmd[p].pc
    BY <1>6, AcquireEffect
  <2> QED BY <1>6, <2>1, AcquireEffect DEF Calm, Writing
<1>7. CASE Hold(p)
  BY <1>7, HoldEffect DEF Calm, Writing
<1>8. CASE Assemble(p)
  BY <1>8, AssembleEffect DEF Calm
<1>9. CASE WriteFails(p)
  <2>1. Leave \in {"release", "done"}
    BY DEF Leave
  <2> QED BY <1>9, <2>1, WriteFailsEffect DEF Calm, Writing
<1>10. CASE Release(p)
  <2>1. cmd'[p].pc \in {"release", "done"}
    BY <1>10, ReleaseEffect
  <2> QED BY <1>10, <2>1, ReleaseEffect DEF Calm, Writing
<1>11. CASE ReadInput(p)
  BY <1>11, ReadInputEffect DEF Calm, Writing
<1>12. CASE Anchor(p)
  BY <1>12, AnchorEffect DEF Calm, Writing
<1> QED BY <1>1, <1>2, <1>3, <1>4, <1>5, <1>6, <1>7, <1>8, <1>9, <1>10, <1>11, <1>12

LEMMA BeginsInOrder ==
  ASSUME NEW p, Begins(p) PROVE \E n \in 1 .. 2 : cmd'[p].todo = Rest(n)
BY DEF Begins

LEMMA NextCases ==
  ASSUME Shaped, [Next]_vars
  PROVE  \/ \E k \in Planners : PlannerStep(k)
         \/ \E p \in Procs : Calm(p) \/ TruncateFile(p) \/ FillPart(p) \/ FillFile(p) \/ RenameReport(p)
         \/ UNCHANGED vars
<1>1. CASE Next
  <2>1. ASSUME NEW p \in Procs, Preflight(p) \/ RawStart(p) \/ BuildReport(p) \/ Command(p) \/ ProcessDies(p)
        PROVE  Calm(p) \/ TruncateFile(p) \/ FillPart(p) \/ FillFile(p) \/ RenameReport(p)
    BY <2>1, Calmed DEF Command
  <2> QED BY <1>1, <2>1 DEF Next, PlannerStep
<1> QED BY <1>1

LEMMA RestFacts ==
  ASSUME NEW n \in 1 .. 7
  PROVE  /\ Head(Rest(n)) = Script[n] /\ Script[n] \in RunFiles /\ Tail(Rest(n)) = Rest(n + 1)
         /\ Rest(n + 1) = <<>> <=> n = 7
<1>1. Head(Rest(n)) = Script[n] /\ Script[n] \in RunFiles /\ Tail(Rest(n)) = Rest(n + 1)
  BY ScriptFacts
<1>2. n + 1 \in 1 .. 8 /\ (n + 1 = 8 <=> n = 7)
  OBVIOUS
<1>3. \A i \in 1 .. 8 : Rest(i) = <<>> <=> i = 8
  BY ScriptFacts
<1> QED BY <1>1, <1>2, <1>3

LEMMA Todo ==
  ASSUME OrderInv, NEW p \in Procs, cmd[p].pc \in Writing
  PROVE  \E n \in 1 .. 7 :
           /\ cmd[p].todo = Rest(n) /\ Head(cmd[p].todo) = Script[n] /\ Script[n] \in RunFiles
           /\ Tail(cmd[p].todo) = Rest(n + 1) /\ (Tail(cmd[p].todo) = <<>> <=> n = 7)
<1>1. PICK n \in 1 .. 7 : cmd[p].todo = Rest(n)
  BY DEF OrderInv
<1>2. /\ Head(Rest(n)) = Script[n] /\ Script[n] \in RunFiles /\ Tail(Rest(n)) = Rest(n + 1)
      /\ Rest(n + 1) = <<>> <=> n = 7
  BY RestFacts
<1> QED BY <1>1, <1>2

LEMMA OrderStays ==
  ASSUME OrderInv, NEW p \in Procs, Moves(p),
         cmd'[p].pc \in Writing => \E n \in 1 .. 7 : cmd'[p].todo = Rest(n)
  PROVE  OrderInv'
BY DEF OrderInv, Moves

LEMMA BaseStep == Base /\ [Next]_vars => Base'
<1> SUFFICES ASSUME Base, [Next]_vars PROVE Base'
  OBVIOUS
<1> USE DEF Base
<1>1. ASSUME NEW k \in Planners, PlannerStep(k) PROVE Base'
  <2>1. Shaped' /\ PlannerInv' /\ UNCHANGED <<loop, dir, cmd>>
    BY <1>1, PlannerEffect
  <2>2. \A q : Events(q)' = Events(q) /\ WholeLedger(q)' = WholeLedger(q)
    <3> SUFFICES ASSUME NEW q PROVE Events(q)' = Events(q) /\ WholeLedger(q)' = WholeLedger(q)
      OBVIOUS
    <3> QED BY <2>1, EventsStay, WholeStays
  <2>3. LedgerInv'
    BY <2>1, <2>2 DEF LedgerInv, LedgerOf, Ledger
  <2>4. OrderInv'
    BY <2>1 DEF OrderInv
  <2> QED BY <2>1, <2>3, <2>4
<1>2. ASSUME NEW p \in Procs, Calm(p) PROVE Base'
  <2>1. Shaped' /\ Moves(p) /\ UNCHANGED <<dir, planner>>
    BY <1>2 DEF Calm
  <2>2. PlannerInv'
    <3>1. CASE RawStart(p)
      BY <2>1, <3>1, RawStartEffect DEF PlannerInv
    <3> QED BY <1>2, <2>1, <3>1 DEF PlannerInv, Calm
  <2>3. LedgerInv'
    BY <2>1, LedgerStays
  <2>4. cmd'[p].pc \in Writing => Begins(p)
    BY <1>2, RawStartEffect DEF Calm
  <2>5. OrderInv'
    BY <2>1, <2>4, BeginsInOrder, OrderStays
  <2> QED BY <2>1, <2>2, <2>3, <2>5
<1>3. ASSUME NEW p \in Procs, TruncateFile(p) PROVE Base'
  <2>1. cmd[p].pc \in Writing
    BY <1>3 DEF TruncateFile, Writing
  <2>2. Head(cmd[p].todo) \in RunFiles
    BY <2>1, Todo
  <2>3. /\ Shaped' /\ Moves(p) /\ UNCHANGED <<planner, dirKind>> /\ cmd'[p].todo = cmd[p].todo
        /\ "ledger" # Head(cmd[p].todo) => dir'["ledger"] = dir["ledger"]
        /\ "ledger" = Head(cmd[p].todo) => dir'["ledger"] = Ledger(p, 0, FALSE)
    BY <1>3, <2>2, TruncateEffect DEF RunFiles
  <2>4. LedgerInv'
    <3>1. CASE "ledger" = Head(cmd[p].todo)
      <4>1. cmd'[p].pc # "idle" /\ LedgerOf(p)'
        BY <2>3, <3>1 DEF LedgerOf, Ledger, Moves
      <4> QED BY <4>1 DEF LedgerInv
    <3> QED BY <2>3, <3>1, LedgerStays
  <2>5. OrderInv'
    BY <2>1, <2>3, OrderStays DEF OrderInv
  <2> QED BY <2>3, <2>4, <2>5 DEF PlannerInv
<1>4. ASSUME NEW p \in Procs, FillPart(p) PROVE Base'
  <2>1. /\ Shaped' /\ Moves(p) /\ UNCHANGED <<planner, dirKind, cmd>> /\ cmd[p].pc = "fill"
        /\ \E n \in {0, Len(Events(p)) - 1}, torn \in BOOLEAN : dir'["ledger"] = Ledger(p, n, torn)
    BY <1>4, FillPartEffect
  <2>2. Events(p)' = Events(p) /\ cmd'[p].pc # "idle"
    BY <2>1, Settles
  <2>3. LedgerOf(p)'
    BY <2>1, <2>2 DEF LedgerOf, Ledger
  <2> QED BY <2>1, <2>2, <2>3 DEF LedgerInv, OrderInv, PlannerInv
<1>5. ASSUME NEW p \in Procs, FillFile(p) PROVE Base'
  <2>1. cmd[p].pc \in Writing /\ cmd[p].pc # "idle"
    BY <1>5 DEF FillFile, Writing
  <2>2. PICK n \in 1 .. 7 :
           /\ cmd[p].todo = Rest(n) /\ Head(cmd[p].todo) = Script[n] /\ Script[n] \in RunFiles
           /\ Tail(cmd[p].todo) = Rest(n + 1) /\ (Tail(cmd[p].todo) = <<>> <=> n = 7)
    BY <2>1, Todo
  <2>3. /\ Shaped' /\ Moves(p) /\ UNCHANGED <<planner, dirKind>> /\ cmd'[p].todo = Tail(cmd[p].todo)
        /\ cmd'[p].pc = IF Tail(cmd[p].todo) = <<>> THEN Leave ELSE "truncate"
        /\ \A f \in RunFiles : f # Head(cmd[p].todo) => dir'[f] = dir[f]
        /\ dir'[Head(cmd[p].todo)] = Contents(p, Head(cmd[p].todo))
    BY <1>5, <2>2, FillEffect
  <2>4. /\ \/ cmd'[p].todo = Rest(n + 1) /\ n # 7
           \/ cmd'[p].pc = Leave
        /\ "ledger" # Script[n] => dir'["ledger"] = dir["ledger"]
        /\ "ledger" = Script[n] => dir'["ledger"] = Contents(p, "ledger")
    BY <2>2, <2>3 DEF RunFiles
  <2>5. LedgerInv'
    <3>1. CASE "ledger" = Script[n]
      <4>1. dir'["ledger"] = WholeLedger(p)
        BY <2>4, <3>1 DEF Contents
      <4>2. WholeLedger(p)' = WholeLedger(p) /\ cmd'[p].pc # "idle"
        BY <2>1, <2>3, Settles
      <4>3. LedgerOf(p)'
        BY <4>1, <4>2 DEF LedgerOf
      <4> QED BY <4>2, <4>3 DEF LedgerInv
    <3> QED BY <2>3, <2>4, <3>1, LedgerStays
  <2>6. Leave \notin Writing
    BY DEF Leave, Writing
  <2>7. cmd'[p].pc \in Writing => cmd'[p].todo = Rest(n + 1) /\ n + 1 \in 1 .. 7
    BY <2>4, <2>6
  <2>8. OrderInv'
    BY <2>3, <2>7, OrderStays
  <2> QED BY <2>3, <2>5, <2>8 DEF PlannerInv
<1>6. ASSUME NEW p \in Procs, RenameReport(p) PROVE Base'
  <2>1. /\ Shaped' /\ Moves(p) /\ UNCHANGED <<planner, dirKind>>
        /\ cmd'[p].pc \in {"html", "release"} /\ dir'["ledger"] = dir["ledger"]
    BY <1>6, RenameReportEffect DEF RunFiles
  <2>2. LedgerInv' /\ OrderInv'
    BY <2>1, LedgerStays, OrderStays DEF Writing
  <2> QED BY <2>1, <2>2 DEF PlannerInv
<1>7. CASE UNCHANGED vars
  <2>1. UNCHANGED <<dirKind, planner, loop, dir, cmd>> /\ UNCHANGED lockVars
    BY <1>7 DEF vars, runVars
  <2>2. Shaped' /\ PlannerInv' /\ OrderInv'
    BY <2>1 DEF Shaped, PlannerInv, OrderInv, lockVars
  <2>3. \A q : Events(q)' = Events(q) /\ WholeLedger(q)' = WholeLedger(q)
    <3> SUFFICES ASSUME NEW q PROVE Events(q)' = Events(q) /\ WholeLedger(q)' = WholeLedger(q)
      OBVIOUS
    <3> QED BY <2>1, EventsStay, WholeStays
  <2>4. LedgerInv'
    BY <2>1, <2>3 DEF LedgerInv, LedgerOf, Ledger
  <2> QED BY <2>2, <2>4
<1> QED BY <1>1, <1>2, <1>3, <1>4, <1>5, <1>6, <1>7, NextCases

LEMMA InitBase == Init => Base
<1> SUFFICES ASSUME Init PROVE Base
  OBVIOUS
<1>1. dir["ledger"] = NoFile /\ \A p \in Procs : cmd[p] = Idle
  BY DEF Init, RunFiles
<1>2. LedgerInv
  BY <1>1 DEF LedgerInv
<1>3. OrderInv
  BY <1>1, IdleFields DEF OrderInv, Writing
<1>4. PlannerInv
  BY DEF Init, PlannerInv
<1> QED BY <1>2, <1>3, <1>4, InitShaped DEF Base

LEMMA BaseHolds == Spec => []Base
<1> QED BY InitBase, BaseStep, PTL DEF Spec

-----------------------------------------------------------------------------
(* A cut ledger names no end.                                              *)

LEMMA StateFacts ==
  /\ StateAfter("gate.result") = "running"
  /\ \A type : StateAfter(type) = "completed" => type = "run.completed"
BY Zenon DEF StateAfter

LEMMA EndsWhole ==
  ASSUME Base, dir["ledger"] # NoFile, Recover(dir["ledger"]).state \in {"completed", "held"}
  PROVE  \E q \in Procs : cmd[q].pc # "idle" /\ dir["ledger"] = WholeLedger(q)
<1>1. PICK q \in Procs : cmd[q].pc # "idle" /\ LedgerOf(q)
  BY DEF Base, LedgerInv
<1>2. ASSUME NEW n \in {0, Len(Events(q)) - 1}, NEW torn \in BOOLEAN, dir["ledger"] = Ledger(q, n, torn)
      PROVE  FALSE
  <2>1. dir["ledger"].of = q /\ dir["ledger"].events = n
    BY <1>2 DEF Ledger
  <2>2. Recover(dir["ledger"]).state = IF n = 0 THEN "planned" ELSE StateAfter(Events(q)[n])
    BY <2>1 DEF Recover
  <2>3. CASE n = 0
    BY <2>2, <2>3
  <2>4. CASE n # 0
    <3>1. n = Len(Events(q)) - 1 /\ Events(q)[n] = "gate.result"
      BY <2>4, EventsFacts DEF Base
    <3> QED BY <2>2, <2>4, <3>1, StateFacts
  <2> QED BY <2>3, <2>4
<1> QED BY <1>1, <1>2 DEF LedgerOf

LEMMA CompletedIsProven ==
  ASSUME Shaped, NEW p, TerminalEvent(p) = "run.completed"
  PROVE  /\ ~loop.t5
         /\ \A i \in 1 .. Len(loop.gates) :
              LET g == loop.gates[i] IN
              g.blocking /\ g.id # NoT5.id => g.inputs # {} /\ g.inputs \subseteq cmd[p].available
<1>1. ASSUME NEW g \in EvaluatedGates, g.blocking PROVE GateStatus(g, cmd[p].available) \notin {"HOLD", "FAIL"}
  <2>1. ~BlockingHoldOrFail(cmd[p].available)
    BY DEF TerminalEvent
  <2> QED BY <1>1, <2>1 DEF BlockingHoldOrFail
<1>2. NoT5 \in EvaluatedGates /\ NoT5.blocking
  BY DEF EvaluatedGates, NoT5
<1>3. ~loop.t5
  <2> SUFFICES ASSUME loop.t5 PROVE FALSE
    OBVIOUS
  <2>1. NoT5.blocking /\ NoT5.inputs = {}
    BY DEF NoT5
  <2>2. GateStatus(NoT5, cmd[p].available) = "FAIL"
    BY <2>1, Zenon DEF GateStatus
  <2> QED BY <1>1, <1>2, <2>2
<1>4. ASSUME NEW i \in 1 .. Len(loop.gates), loop.gates[i].blocking, loop.gates[i].id # NoT5.id
      PROVE  loop.gates[i].inputs # {} /\ loop.gates[i].inputs \subseteq cmd[p].available
  <2> DEFINE g == loop.gates[i]
  <2>1. g \in EvaluatedGates
    BY <1>4 DEF EvaluatedGates, Kept
  <2>2. GateStatus(g, cmd[p].available) # "HOLD"
    BY <1>1, <1>4, <2>1
  <2>3. ~(g.inputs \subseteq cmd[p].available /\ (g.blocking => g.inputs # {})) =>
          GateStatus(g, cmd[p].available) = "HOLD"
    <3> HIDE DEF g
    <3>1. g.id # NoT5.id
      BY <1>4 DEF g
    <3> QED BY <3>1, Zenon DEF GateStatus
  <2> QED BY <1>4, <2>2, <2>3
<1> QED BY <1>3, <1>4

(* However the write of a ledger was cut, and however many commands write, *)
(* run status takes a run for ended only on a whole ledger, and for        *)
(* completed only when every blocking gate was proven (ledger.ts:127-203,  *)
(* gates.ts:97).                                                           *)
THEOREM EndsAreProven == Spec => []EndedRunsAreProven
<1>1. Base => EndedRunsAreProven
  <2> SUFFICES ASSUME Base, Status.state \in {"completed", "held"}
               PROVE  /\ dir["ledger"] = WholeLedger(dir["ledger"].of)
                      /\ Status.state = "completed" =>
                           /\ ~loop.t5
                           /\ \A i \in 1 .. Len(loop.gates) :
                                LET g == loop.gates[i] IN
                                g.blocking /\ g.id # NoT5.id =>
                                  g.inputs # {} /\ g.inputs \subseteq cmd[dir["ledger"].of].available
    BY DEF EndedRunsAreProven
  <2>1. dir["ledger"] # NoFile /\ Status = Recover(dir["ledger"])
    <3>1. CASE dir["ledger"] = NoFile
      <4>1. Status.state \in {"none", "planned"}
        BY <3>1 DEF Status
      <4> QED BY <4>1
    <3> QED BY <3>1 DEF Status
  <2>2. PICK q \in Procs : dir["ledger"] = WholeLedger(q)
    BY <2>1, EndsWhole
  <2>3. dir["ledger"].of = q /\ dir["ledger"].events = Len(Events(q))
    BY <2>2 DEF WholeLedger, Ledger
  <2>4. ASSUME Status.state = "completed" PROVE TerminalEvent(q) = "run.completed"
    <3>1. Len(Events(q)) # 0 /\ Events(q)[Len(Events(q))] = TerminalEvent(q)
      BY EventsFacts DEF Base
    <3>2. Recover(dir["ledger"]).state = StateAfter(TerminalEvent(q))
      BY <2>3, <3>1 DEF Recover
    <3> QED BY <2>1, <2>4, <3>2, StateFacts
  <2> QED BY <2>2, <2>3, <2>4, CompletedIsProven DEF Base
<1> QED BY <1>1, BaseHolds, PTL

-----------------------------------------------------------------------------
(* What holds as long as nobody but its holder is behind the lock.         *)

Starting == {"ready", "locking", "locked"}
Building == {"read", "anchor", "md", "html"}

(* The n-th file holds what p writes; the first is the receipt of a sealed *)
(* start that could make one; those before the n-th are written.           *)
Mine(p, n) == dir[Script[n]] = Contents(p, Script[n])
Meant(p, n) == n = 1 => p \in Sealers /\ cmd[p].answer = "ok"
Written(p, n) == \A i \in 1 .. n - 1 : Meant(p, i) => Mine(p, i)

Place(p) ==
  /\ p \in alive <=> cmd[p].pc # "dead"
  /\ dirKind = "none" => cmd[p].pc = "idle"
  /\ cmd[p].pc = "idle" => cmd[p].answer = "none"
  /\ cmd[p].pc \in Starting => dirKind = "planned"
  /\ cmd[p].pc \in Building \cup {"locked"} => lpc[p] = "held"
  /\ cmd[p].pc \in Writing /\ dirKind = "planned" => lpc[p] = "held"

(* Where a start is, and what it has written.                              *)
Progress(p) ==
  cmd[p].pc \in Writing =>
    \E n \in 1 .. 7 : /\ cmd[p].todo = Rest(n) /\ Written(p, n)
                      /\ cmd[p].pc = "fill" /\ n = 2 => dir["ledger"] # NoFile

(* What report build has read is still so.                                 *)
Known(p) ==
  /\ cmd[p].pc = "anchor" => cmd[p].input = dir["input"] /\ dir["input"] \in Procs
  /\ cmd[p].pc \in {"md", "html"} =>
       dir["input"] \in Procs /\ dir["ledger"] # NoFile /\ cmd[p].report = Report(dir["input"], dir["ledger"])

(* What a start has answered is so until another one writes.               *)
Settled(p) ==
  cmd[p].answer = "ok" /\ cmd[p].pc \notin Writing \cup {"dead"} /\ writer = p => Written(p, 8)

(* A raw run has a single start, and its input is there once its ledger is.*)
RawInv ==
  dirKind = "raw" =>
    \E s \in Procs :
      /\ \A p \in Procs : p # s => cmd[p].pc \notin Writing
      /\ dir["input"] \in {NoFile, Torn, s}
      /\ dir["input"] = s => Mine(s, 2) /\ (cmd[s].pc \in Writing => cmd[s].todo = Rest(7))

(* A start that has yet to write its ledger was past its preflight when    *)
(* the one in place was begun.                                             *)
RivalsInv ==
  dir["ledger"] # NoFile =>
    \A p \in Procs : \/ cmd[p].pc \in Starting
                     \/ cmd[p].pc \in Writing /\ cmd[p].todo \in {Rest(1), Rest(2)}
                     => p \in rivals

DirInv ==
  /\ dirKind \in {"none", "planned", "raw"}
  /\ dir["input"] \in Procs => cmd[dir["input"]].pc # "idle"
  /\ dir["input"] \in {NoFile, Torn} \cup Procs
  /\ dirKind = "none" => dir["ledger"] = NoFile

RunInv ==
  /\ RawInv /\ RivalsInv /\ DirInv
  /\ \A p \in Procs : Place(p) /\ Progress(p) /\ Known(p) /\ Settled(p)

LEMMA InitRun == Init => RunInv
<1> SUFFICES ASSUME Init PROVE RunInv
  OBVIOUS
<1>1. /\ \A p \in Procs : cmd[p] = Idle
      /\ dir["ledger"] = NoFile /\ dir["input"] = NoFile /\ dirKind = "none" /\ alive = Procs
  BY DEF Init, LockInit, RunFiles
<1>2. NoFile \notin Procs
  BY RunAssumption
<1> QED BY <1>1, <1>2, IdleFields
        DEF RunInv, RawInv, RivalsInv, DirInv, Place, Progress, Known, Settled, Starting, Writing, Building

(* Two processes are not behind the lock at once.                          *)
LEMMA OneHolds ==
  ASSUME Shaped, HolderKeepsLock, NEW p \in Procs, NEW q \in Procs, p \in alive, q \in alive,
         lpc[p] = "held", lpc[q] = "held"
  PROVE  p = q
BY DEF Shaped, HolderKeepsLock, Holders

(* Nobody else writes while a start does, and of a planned run nobody      *)
(* else is behind the lock.                                                *)
LEMMA Alone ==
  ASSUME Base, RunInv, HolderKeepsLock, NEW p \in Procs, cmd[p].pc \in Writing, NEW q \in Procs, q # p
  PROVE  /\ cmd[q].pc \notin Writing
         /\ dirKind = "planned" => cmd[q].pc \notin Building \cup {"locked"}
         /\ dirKind \in {"planned", "raw"}
<1>1. dirKind # "none" /\ p \in alive /\ (dirKind = "planned" => lpc[p] = "held")
  BY DEF RunInv, Place, Writing
<1>2. CASE dirKind = "planned"
  <2>1. ASSUME cmd[q].pc \in Writing \cup Building \cup {"locked"} PROVE FALSE
    <3>1. lpc[q] = "held" /\ q \in alive
      BY <1>2, <2>1 DEF RunInv, Place, Writing, Building
    <3> QED BY <1>1, <1>2, <3>1, OneHolds DEF Base
  <2> QED BY <1>1, <1>2, <2>1
<1>3. CASE dirKind = "raw"
  BY <1>1, <1>3 DEF RunInv, RawInv
<1> QED BY <1>1, <1>2, <1>3 DEF RunInv, DirInv

(* Files that do not change, or to what the start means to write, do not   *)
(* undo what it has written.                                               *)
LEMMA WrittenKeeps ==
  ASSUME NEW p, NEW n \in 1 .. 8, Written(p, n), Events(p)' = Events(p), cmd'[p].answer = cmd[p].answer,
         \A i \in 1 .. n - 1 : \/ dir'[Script[i]] = dir[Script[i]]
                              \/ dir'[Script[i]] = Contents(p, Script[i])
  PROVE  Written(p, n)'
<1> SUFFICES ASSUME NEW i \in 1 .. n - 1, Meant(p, i)' PROVE Mine(p, i)'
  BY DEF Written
<1>1. Mine(p, i)
  BY DEF Meant, Written
<1>2. Contents(p, Script[i])' = Contents(p, Script[i])
  BY ContentsStay DEF Script
<1> QED BY <1>1, <1>2 DEF Mine, Script

LEMMA WrittenStays ==
  ASSUME NEW p, NEW n \in 1 .. 8, Written(p, n), Events(p)' = Events(p), cmd'[p].answer = cmd[p].answer,
         \A f \in RunFiles : dir'[f] = dir[f] \/ dir'[f] = Contents(p, f)
  PROVE  Written(p, n)'
<1>1. \A i \in 1 .. n - 1 : Script[i] \in RunFiles
  <2>1. \A i \in 1 .. 7 : Script[i] \in RunFiles
    BY ScriptFacts
  <2> QED BY <2>1
<1> QED BY <1>1, WrittenKeeps

LEMMA ReportHolds ==
  ASSUME Base, RunInv, NEW p \in Procs, Moves(p), dir["ledger"] # NoFile, dir["input"] \in Procs,
         dir'["ledger"] = dir["ledger"], dir'["input"] = dir["input"]
  PROVE  Report(dir["input"], dir["ledger"])' = Report(dir["input"], dir["ledger"])
<1>1. PICK r \in Procs : cmd[r].pc # "idle" /\ LedgerOf(r)
  BY DEF Base, LedgerInv
<1>2. dir["ledger"].of = r
  <2>1. \A n, torn : Ledger(r, n, torn).of = r
    BY DEF Ledger
  <2> QED BY <1>1, <2>1 DEF LedgerOf, WholeLedger
<1>3. PICK q \in Procs : q = dir["input"] /\ cmd[q].pc # "idle"
  BY DEF RunInv, DirInv
<1>4. Events(r)' = Events(r) /\ Events(q)' = Events(q)
  BY <1>1, <1>3, Settles
<1>5. PICK ledger : ledger = dir["ledger"]
  OBVIOUS
<1>6. Report(q, ledger)' = Report(q, ledger)
  BY <1>2, <1>4, <1>5, ReportStays
<1> QED BY <1>3, <1>5, <1>6 DEF Report, Recover, WholeLedger, Ledger

(* A step that leaves the files alone, of a command that keeps to its      *)
(* place.                                                                  *)
Quiet(p) ==
  /\ Shaped' /\ Moves(p) /\ UNCHANGED <<dir, dirKind, writer, rivals>> /\ dirKind # "none"
  /\ p \in alive' <=> cmd'[p].pc # "dead"
  /\ \A q \in Procs : q # p => (q \in alive' <=> q \in alive)
  /\ cmd'[p].pc \in Starting => dirKind = "planned" /\ (cmd[p].pc \in Starting \/ dir["ledger"] = NoFile)
  /\ cmd'[p].pc \in Building \cup {"locked"} => lpc'[p] = "held"
  /\ cmd'[p].pc \in Writing => lpc'[p] = "held" /\ cmd[p].pc = "locked" /\ Begins(p)
  /\ cmd'[p].pc = "anchor" => cmd'[p].input = dir["input"] /\ dir["input"] \in Procs
  /\ cmd'[p].pc \in {"md", "html"} =>
       /\ dir["input"] \in Procs /\ dir["ledger"] # NoFile
       /\ cmd'[p].report = Report(dir["input"], dir["ledger"])
  /\ cmd'[p].answer = "ok" /\ cmd'[p].pc \notin Writing \cup {"dead"} =>
       cmd[p].answer = "ok" /\ cmd[p].pc \notin Writing \cup {"dead"}

(* Begin at the first file that is meant, and nothing before it is missing.*)
LEMMA BeginsProgress ==
  ASSUME NEW p \in Procs, Begins(p)
  PROVE  Progress(p)'
<1>1. PICK n \in 1 .. 2 : cmd'[p].todo = Rest(n) /\ (n = 2 => ~Meant(p, 1)')
  BY DEF Begins, Meant
<1>2. Written(p, n)'
  BY <1>1 DEF Written
<1>3. cmd'[p].pc = "truncate" /\ n \in 1 .. 7
  BY DEF Begins
<1> QED BY <1>1, <1>2, <1>3 DEF Progress, Rest, Script

(* The other commands, when a step of p changes no file that concerns them.*)
LEMMA OthersStay ==
  ASSUME Base, RunInv, NEW p \in Procs, Moves(p), UNCHANGED <<dir, dirKind>>,
         NEW q \in Procs, q # p, q \in alive' <=> q \in alive, writer' = writer
  PROVE  Place(q)' /\ Progress(q)' /\ Known(q)' /\ Settled(q)'
<1>1. cmd'[q] = cmd[q] /\ lpc'[q] = lpc[q]
  BY DEF Moves
<1>2. Place(q) /\ Progress(q) /\ Known(q) /\ Settled(q)
  BY DEF RunInv
<1>3. Place(q)'
  BY <1>1, <1>2 DEF Place
<1>4. ASSUME cmd[q].pc # "idle", NEW n \in 1 .. 8, Written(q, n) PROVE Written(q, n)'
  <2>1. Events(q)' = Events(q)
    BY <1>4, Settles
  <2> QED BY <1>1, <1>4, <2>1, WrittenStays
<1>5. Progress(q)'
  <2> SUFFICES ASSUME cmd[q].pc \in Writing
               PROVE  \E n \in 1 .. 7 : /\ cmd'[q].todo = Rest(n)' /\ Written(q, n)'
                                        /\ cmd'[q].pc = "fill" /\ n = 2 => dir'["ledger"] # NoFile
    BY <1>1 DEF Progress
  <2>1. PICK n \in 1 .. 7 : /\ cmd[q].todo = Rest(n) /\ Written(q, n)
                            /\ cmd[q].pc = "fill" /\ n = 2 => dir["ledger"] # NoFile
    BY <1>2 DEF Progress
  <2>2. Written(q, n)'
    BY <1>4, <2>1 DEF Writing
  <2>3. Rest(n)' = Rest(n)
    BY DEF Rest, Script
  <2> QED BY <1>1, <2>1, <2>2, <2>3
<1>6. Known(q)'
  BY <1>1, <1>2, ReportHolds DEF Known
<1>7. Settled(q)'
  BY <1>1, <1>2, <1>4 DEF Settled, Place
<1> QED BY <1>3, <1>5, <1>6, <1>7

LEMMA QuietRun ==
  ASSUME Base, RunInv, NEW p \in Procs, Quiet(p)
  PROVE  RunInv'
<1>1. /\ Moves(p) /\ UNCHANGED <<dir, dirKind, writer, rivals>> /\ cmd'[p].pc # "idle"
      /\ \A q \in Procs : q # p => cmd'[q] = cmd[q]
  BY DEF Quiet, Moves
<1>2. ASSUME NEW q \in Procs, q # p PROVE Place(q)' /\ Progress(q)' /\ Known(q)' /\ Settled(q)'
  BY <1>1, <1>2, OthersStay DEF Quiet
<1>3. Place(p)'
  BY <1>1 DEF Quiet, Place
<1>4. Progress(p)'
  BY BeginsProgress DEF Quiet, Progress
<1>5. Known(p)'
  BY <1>1, ReportHolds DEF Quiet, Known
<1>6. Settled(p)'
  <2> SUFFICES ASSUME cmd'[p].answer = "ok", cmd'[p].pc \notin Writing \cup {"dead"}, writer' = p
               PROVE  Written(p, 8)'
    BY DEF Settled
  <2>1. cmd[p].answer = "ok" /\ cmd[p].pc \notin Writing \cup {"dead"} /\ writer = p
    BY <1>1 DEF Quiet
  <2>2. cmd[p].pc # "idle" /\ Written(p, 8)
    BY <2>1 DEF RunInv, Place, Settled
  <2>3. Events(p)' = Events(p)
    BY <1>1, <2>2, Settles
  <2> QED BY <1>1, <2>1, <2>2, <2>3, WrittenStays
<1>7. DirInv'
  BY <1>1 DEF RunInv, DirInv
<1>8. RivalsInv'
  <2> SUFFICES ASSUME dir["ledger"] # NoFile, NEW q \in Procs,
                      \/ cmd'[q].pc \in Starting
                      \/ cmd'[q].pc \in Writing /\ cmd'[q].todo \in {Rest(1), Rest(2)}
               PROVE  q \in rivals
    BY <1>1 DEF RivalsInv, Rest, Script
  <2>1. CASE q = p
    <3>1. cmd[p].pc \in Starting
      BY <2>1 DEF Quiet, Starting
    <3> QED BY <2>1, <3>1 DEF RunInv, RivalsInv
  <2>2. CASE q # p
    BY <1>1, <2>2 DEF RunInv, RivalsInv
  <2> QED BY <2>1, <2>2
<1>9. RawInv'
  <2> SUFFICES ASSUME dirKind = "raw" PROVE RawInv'
    BY <1>1 DEF RawInv
  <2>1. PICK s \in Procs :
          /\ \A q \in Procs : q # s => cmd[q].pc \notin Writing
          /\ dir["input"] \in {NoFile, Torn, s}
          /\ dir["input"] = s => Mine(s, 2) /\ (cmd[s].pc \in Writing => cmd[s].todo = Rest(7))
    BY DEF RunInv, RawInv
  <2>2. cmd'[p].pc \notin Writing
    <3>1. cmd[p].pc # "locked"
      BY DEF RunInv, Place, Starting
    <3> QED BY <3>1 DEF Quiet
  <2>3. dir["input"] = s => Mine(s, 2)'
    <3>1. SUFFICES ASSUME dir["input"] = s PROVE Mine(s, 2)'
      OBVIOUS
    <3>2. cmd[s].pc # "idle" /\ Mine(s, 2)
      BY <2>1, <3>1 DEF RunInv, DirInv
    <3>3. Events(s)' = Events(s)
      BY <1>1, <3>2, Settles
    <3> QED BY <1>1, <3>2, <3>3, ContentsStay DEF Mine, Script
  <2>4. \A q \in Procs : q # s => cmd'[q].pc \notin Writing
    BY <1>1, <2>1, <2>2
  <2>5. cmd'[s].pc \in Writing => cmd'[s] = cmd[s]
    BY <1>1, <2>2
  <2>6. Rest(7)' = Rest(7)
    BY DEF Rest, Script
  <2> QED BY <1>1, <2>1, <2>3, <2>4, <2>5, <2>6 DEF RawInv
<1> QED BY <1>2, <1>3, <1>4, <1>5, <1>6, <1>7, <1>8, <1>9 DEF RunInv

LEMMA QuietSteps ==
  ASSUME Base, RunInv, NEW p \in Procs,
         \/ Preflight(p) \/ BuildReport(p) \/ ProcessDies(p) \/ TakeLock(p) \/ Acquire(p)
         \/ Hold(p) \/ Assemble(p) \/ WriteFails(p) \/ Release(p) \/ ReadInput(p) \/ Anchor(p)
  PROVE  Quiet(p)
<1>0. /\ p \in alive <=> cmd[p].pc # "dead"
      /\ cmd[p].pc # "idle" => dirKind # "none"
      /\ cmd[p].pc = "idle" => cmd[p].answer = "none"
      /\ cmd[p].pc \in Starting => dirKind = "planned"
      /\ cmd[p].pc \in Building \cup {"locked"} => lpc[p] = "held"
      /\ cmd[p].pc = "anchor" => cmd[p].input = dir["input"] /\ dir["input"] \in Procs
      /\ dir["input"] \in {NoFile, Torn} \cup Procs
      /\ Shaped
  BY DEF RunInv, Place, Known, DirInv, Base
<1> USE DEF Quiet, Starting, Building, Writing
<1>1. CASE Preflight(p)
  BY <1>0, <1>1, PreflightEffect
<1>2. CASE BuildReport(p)
  BY <1>0, <1>2, BuildReportEffect
<1>3. CASE ProcessDies(p)
  BY <1>0, <1>3, DiesEffect
<1>4. CASE TakeLock(p)
  BY <1>0, <1>4, TakeLockEffect
<1>5. CASE Acquire(p)
  <2>1. /\ Shaped' /\ Moves(p) /\ UNCHANGED <<alive, dir, dirKind, writer, rivals>>
        /\ cmd[p].pc \in {"locking", "joining"} /\ p \in alive
        /\ \/ lpc'[p] = "held" /\ cmd[p].pc = "locking" /\ cmd'[p].pc = "locked" /\ cmd'[p].answer = cmd[p].answer
           \/ lpc'[p] = "held" /\ cmd'[p].pc = "read" /\ cmd'[p].answer = cmd[p].answer
           \/ cmd'[p].pc = "done" /\ cmd'[p].answer \in {"error", cmd[p].answer}
           \/ cmd' = cmd
    BY <1>0, <1>5, AcquireEffect
  <2> QED BY <1>0, <2>1
<1>6. CASE Hold(p)
  BY <1>0, <1>6, HoldEffect
<1>7. CASE Assemble(p)
  BY <1>0, <1>7, AssembleEffect DEF Begins
<1>8. CASE WriteFails(p)
  <2>1. Leave \in {"release", "done"}
    BY DEF Leave
  <2> QED BY <1>0, <1>8, <2>1, WriteFailsEffect
<1>9. CASE Release(p)
  <2>1. cmd'[p].pc \in {"release", "done"}
    BY <1>0, <1>9, ReleaseEffect
  <2> QED BY <1>0, <1>9, <2>1, ReleaseEffect
<1>10. CASE ReadInput(p)
  BY <1>0, <1>10, ReadInputEffect
<1>11. CASE Anchor(p)
  BY <1>0, <1>11, AnchorEffect
<1> QED BY <1>1, <1>2, <1>3, <1>4, <1>5, <1>6, <1>7, <1>8, <1>9, <1>10, <1>11

(* A raw start finds no command under way, and is the only one.            *)
LEMMA RawStartRun ==
  ASSUME Base, RunInv, NEW p \in Procs, RawStart(p)
  PROVE  RunInv'
<1>1. /\ Moves(p) /\ UNCHANGED <<lpc, alive, dir, writer, rivals>> /\ cmd[p].pc = "idle" /\ p \in alive
      /\ Begins(p) /\ dirKind = "none" /\ dirKind' = "raw" /\ cmd'[p].answer = "ok" /\ cmd'[p].pc = "truncate"
  BY RawStartEffect DEF Base, Begins
<1>2. \A q \in Procs : cmd[q].pc = "idle" /\ cmd[q].answer = "none" /\ (q # p => cmd'[q] = cmd[q])
  BY <1>1 DEF RunInv, Place, Moves
<1>3. dir["ledger"] = NoFile /\ dir["input"] \in {NoFile, Torn}
  BY <1>1, <1>2 DEF RunInv, DirInv
<1>4. \A q \in Procs : q # p => Place(q)' /\ Progress(q)' /\ Known(q)' /\ Settled(q)'
  BY <1>1, <1>2 DEF RunInv, Place, Progress, Known, Settled, Writing, Building, Starting
<1>5. Place(p)' /\ Known(p)' /\ Settled(p)'
  BY <1>1 DEF RunInv, Place, Known, Settled, Writing, Building, Starting
<1>6. Progress(p)'
  BY <1>1, BeginsProgress
<1>7. RivalsInv' /\ DirInv'
  BY <1>1, <1>2, <1>3, RunAssumption DEF RivalsInv, DirInv
<1>8. RawInv'
  <2>1. \A q \in Procs : q # p => cmd'[q].pc \notin Writing
    BY <1>2 DEF Writing
  <2>2. dir'["input"] \in {NoFile, Torn, p} /\ dir'["input"] # p
    BY <1>1, <1>3, RunAssumption
  <2> QED BY <2>1, <2>2 DEF RawInv
<1> QED BY <1>4, <1>5, <1>6, <1>7, <1>8 DEF RunInv

(* Neither does planning matter, nor a step of nobody.                     *)
LEMMA StillRun ==
  ASSUME Base, RunInv, UNCHANGED <<loop, dir, cmd, lpc, alive, writer, rivals>>,
         dirKind' = dirKind \/ (dirKind \in {"none", "planned"} /\ dirKind' = "planned")
  PROVE  RunInv'
<1>1. \A q, f : Contents(q, f)' = Contents(q, f)
  BY EventsStay, ContentsStay
<1>2. \A q, ledger : Report(q, ledger)' = Report(q, ledger)
  BY EventsStay, ReportStays
<1>3. \A q, n : Written(q, n)' <=> Written(q, n)
  BY <1>1 DEF Written, Meant, Mine, Script
<1>4. \A q \in Procs : Place(q)'
  BY DEF RunInv, Place, Writing
<1>5. \A q \in Procs : Progress(q)'
  BY <1>3 DEF RunInv, Progress, Rest, Script
<1>6. ASSUME NEW q \in Procs PROVE Known(q)'
  <2>1. Known(q)
    BY DEF RunInv
  <2>2. Report(dir["input"], dir["ledger"])' = Report(dir["input"], dir["ledger"])
    <3>1. PICK ledger, input : ledger = dir["ledger"] /\ input = dir["input"]
      OBVIOUS
    <3>2. Report(input, ledger)' = Report(input, ledger)
      BY <1>2
    <3> QED BY <3>1, <3>2 DEF Report, Recover, WholeLedger, Ledger
  <2> QED BY <2>1, <2>2 DEF Known
<1>7. \A q \in Procs : Settled(q)'
  BY <1>3 DEF RunInv, Settled
<1>8. RivalsInv' /\ DirInv'
  BY DEF RunInv, RivalsInv, DirInv, Rest, Script
<1>9. RawInv'
  BY <1>1 DEF RunInv, RawInv, Mine, Rest, Script
<1> QED BY <1>4, <1>5, <1>6, <1>7, <1>8, <1>9 DEF RunInv

-----------------------------------------------------------------------------
(* The steps that write.                                                   *)

(* What a start writes concerns nobody else.                               *)
LEMMA WritingRun ==
  ASSUME Base, RunInv, HolderKeepsLock, NEW p \in Procs, cmd[p].pc \in Writing, Moves(p),
         NEW n \in 1 .. 7, cmd[p].todo = Rest(n), Written(p, n),
         UNCHANGED <<lpc, alive, dirKind>>,
         \A f \in RunFiles : f # Script[n] => dir'[f] = dir[f],
         cmd'[p].pc \in Writing \cup {"release", "done"},
         Progress(p)', \A q \in Procs : Settled(q)', RivalsInv',
         n = 6 => dir'["input"] \in {Torn, p},
         (n = 6 /\ dir'["input"] = p) \/ n = 7 => (cmd'[p].pc \in Writing => cmd'[p].todo = Rest(7))
  PROVE  RunInv'
<1>1. /\ p \in alive /\ dirKind # "none"
      /\ dirKind = "planned" => lpc[p] = "held"
  BY DEF RunInv, Place, Writing
<1>2. /\ \A q \in Procs : q # p => cmd'[q] = cmd[q]
      /\ n # 6 => dir'["input"] = dir["input"]
      /\ n # 2 => dir'["ledger"] = dir["ledger"]
  <2>1. "input" \in RunFiles /\ "ledger" \in RunFiles
    BY DEF RunFiles
  <2>2. (Script[n] = "input" => n = 6) /\ (Script[n] = "ledger" => n = 2)
    BY DEF Script
  <2> QED BY <2>1, <2>2 DEF Moves
<1>3. Place(p)' /\ Known(p)'
  <2>1. cmd'[p].pc \in {"truncate", "fill", "release", "done"}
    BY DEF Writing
  <2> QED BY <1>1, <2>1 DEF Place, Known, Starting, Building
<1>4. dirKind = "raw" /\ dir["input"] \in Procs => dir["input"] = p /\ n = 7 /\ Mine(p, 2)
  <2> SUFFICES ASSUME dirKind = "raw", dir["input"] \in Procs PROVE dir["input"] = p /\ n = 7 /\ Mine(p, 2)
    OBVIOUS
  <2>1. PICK s \in Procs :
          /\ \A q \in Procs : q # s => cmd[q].pc \notin Writing
          /\ dir["input"] \in {NoFile, Torn, s}
          /\ dir["input"] = s => Mine(s, 2) /\ (cmd[s].pc \in Writing => cmd[s].todo = Rest(7))
    BY DEF RunInv, RawInv
  <2>2. s = p /\ dir["input"] = p /\ Mine(p, 2) /\ Rest(n) = Rest(7)
    BY <2>1, RunAssumption
  <2>3. n \in 1 .. 8 /\ 7 \in 1 .. 8
    OBVIOUS
  <2> QED BY <2>2, <2>3, ScriptFacts
<1>5. ASSUME NEW q \in Procs, q # p PROVE Place(q)' /\ Progress(q)' /\ Known(q)'
  <2>1. /\ cmd'[q] = cmd[q] /\ cmd[q].pc \notin Writing
        /\ dirKind = "planned" => cmd[q].pc \notin Building \cup {"locked"}
        /\ dirKind \in {"planned", "raw"}
    BY <1>2, <1>5, Alone
  <2>2. Place(q)'
    BY <2>1 DEF RunInv, Place
  <2>3. Progress(q)'
    BY <2>1 DEF Progress
  <2>4. Known(q)'
    <3>1. CASE cmd[q].pc \in Building
      <4>1. dirKind = "raw"
        BY <2>1, <3>1
      <4>2. CASE dir["input"] \in Procs
        BY <1>2, <1>4, <2>1, <4>1, <4>2, ReportHolds DEF RunInv, Known
      <4>3. CASE dir["input"] \notin Procs
        BY <2>1, <4>3 DEF RunInv, Known
      <4> QED BY <4>2, <4>3
    <3>2. CASE cmd[q].pc \notin Building
      BY <2>1, <3>2 DEF Known, Building
    <3> QED BY <3>1, <3>2
  <2> QED BY <2>2, <2>3, <2>4
<1>6. DirInv'
  <2>1. cmd'[p].pc # "idle"
    BY DEF Moves
  <2>2. dir'["input"] \in {Torn, p} \/ dir'["input"] = dir["input"]
    BY <1>2
  <2>3. /\ dir["input"] \in Procs => cmd[dir["input"]].pc # "idle"
        /\ dir["input"] \in {NoFile, Torn} \cup Procs /\ dirKind \in {"none", "planned", "raw"}
    BY DEF RunInv, DirInv
  <2>4. dir'["input"] \in Procs => cmd'[dir'["input"]].pc # "idle"
    BY <1>2, <2>1, <2>2, <2>3, RunAssumption
  <2> QED BY <1>1, <2>2, <2>3, <2>4 DEF DirInv
<1>7. RawInv'
  <2> SUFFICES ASSUME dirKind = "raw" PROVE RawInv'
    BY DEF RawInv
  <2>1. \A q \in Procs : q # p => cmd'[q].pc \notin Writing
    BY <1>2, Alone
  <2>2. dir'["input"] \in {NoFile, Torn, p}
    BY <1>2, <1>4 DEF RunInv, DirInv
  <2>3. ASSUME dir'["input"] = p PROVE Mine(p, 2)' /\ (cmd'[p].pc \in Writing => cmd'[p].todo = Rest(7))
    <3>1. n \in {6, 7}
      BY <1>2, <1>4, <2>3
    <3>2. Mine(p, 2)
      <4>1. CASE n = 6
        <5>1. 2 \in 1 .. n - 1 /\ Meant(p, 2)
          BY <4>1 DEF Meant
        <5> QED BY <5>1 DEF Written
      <4>2. CASE n = 7
        BY <1>2, <1>4, <2>3, <4>2
      <4> QED BY <3>1, <4>1, <4>2
    <3>3. Events(p)' = Events(p)
      BY Settles DEF Writing
    <3>4. Contents(p, "ledger")' = Contents(p, "ledger") /\ Script[2] = "ledger"
      BY <3>3, ContentsStay DEF Script
    <3>5. Mine(p, 2)'
      BY <1>2, <3>1, <3>2, <3>4 DEF Mine, Script
    <3> QED BY <2>3, <3>1, <3>5
  <2>4. Rest(7)' = Rest(7)
    BY DEF Rest, Script
  <2> QED BY <2>1, <2>2, <2>3, <2>4 DEF RawInv
<1> QED BY <1>3, <1>5, <1>6, <1>7 DEF RunInv

(* A start at its n-th file.                                               *)
LEMMA AtFile ==
  ASSUME RunInv, NEW p \in Procs, cmd[p].pc \in Writing
  PROVE  \E n \in 1 .. 7 :
           /\ cmd[p].todo = Rest(n) /\ Written(p, n)
           /\ cmd[p].pc = "fill" /\ n = 2 => dir["ledger"] # NoFile
           /\ Head(cmd[p].todo) = Script[n] /\ Script[n] \in RunFiles
           /\ Tail(cmd[p].todo) = Rest(n + 1) /\ (Rest(n + 1) = <<>> <=> n = 7)
<1>1. PICK n \in 1 .. 7 : /\ cmd[p].todo = Rest(n) /\ Written(p, n)
                          /\ cmd[p].pc = "fill" /\ n = 2 => dir["ledger"] # NoFile
  BY DEF RunInv, Progress
<1>2. /\ Head(Rest(n)) = Script[n] /\ Script[n] \in RunFiles /\ Tail(Rest(n)) = Rest(n + 1)
      /\ Rest(n + 1) = <<>> <=> n = 7
  BY RestFacts
<1> QED BY <1>1, <1>2

LEMMA FileNames ==
  ASSUME NEW n \in 1 .. 7
  PROVE  /\ Script[n] = "ledger" <=> n = 2
         /\ Script[n] = "input" <=> n = 6
         /\ \A i \in 1 .. n - 1 : Script[i] # Script[n] /\ Script[i] \in RunFiles
<1>1. (Script[n] = "ledger" <=> n = 2) /\ (Script[n] = "input" <=> n = 6)
  BY DEF Script
<1>2. \A i \in 1 .. n - 1 : i \in 1 .. 7 /\ i # n
  OBVIOUS
<1>3. (\A i, j \in 1 .. 7 : Script[i] = Script[j] => i = j) /\ \A i \in 1 .. 7 : Script[i] \in RunFiles
  BY ScriptFacts
<1> QED BY <1>1, <1>2, <1>3

LEMMA FileAbsent == ASSUME NEW p \in Procs, NEW torn \in BOOLEAN, NEW n \in Nat PROVE Ledger(p, n, torn) # NoFile
BY RunAssumption DEF Ledger

LEMMA TruncateRun ==
  ASSUME Base, RunInv, HolderKeepsLock, NEW p \in Procs, TruncateFile(p)
  PROVE  RunInv'
<1>1. cmd[p].pc = "truncate" /\ cmd[p].pc \in Writing
  BY DEF TruncateFile, Writing
<1>2. PICK n \in 1 .. 7 :
        /\ cmd[p].todo = Rest(n) /\ Written(p, n) /\ Head(cmd[p].todo) = Script[n] /\ Script[n] \in RunFiles
  BY <1>1, AtFile
<1>3. /\ Moves(p) /\ UNCHANGED <<lpc, alive, dirKind>> /\ cmd'[p].pc = "fill" /\ writer' = p
      /\ cmd'[p].todo = cmd[p].todo /\ cmd'[p].answer = cmd[p].answer
      /\ \A f \in RunFiles : f # Script[n] => dir'[f] = dir[f]
      /\ n = 2 => dir'["ledger"] = Ledger(p, 0, FALSE) /\ rivals' = Waiting \cup {p}
      /\ n # 2 => dir'[Script[n]] = Torn /\ rivals' = rivals
  <2>1. Head(cmd[p].todo) \in RunFiles /\ (Head(cmd[p].todo) = "ledger" <=> n = 2)
    BY <1>2, FileNames
  <2>2. /\ Moves(p) /\ UNCHANGED <<lpc, alive, dirKind>> /\ cmd'[p].pc = "fill" /\ writer' = p
        /\ cmd'[p].todo = cmd[p].todo /\ cmd'[p].answer = cmd[p].answer
        /\ \A f \in RunFiles : f # Head(cmd[p].todo) => dir'[f] = dir[f]
        /\ Head(cmd[p].todo) = "ledger" => dir'["ledger"] = Ledger(p, 0, FALSE) /\ rivals' = Waiting \cup {p}
        /\ Head(cmd[p].todo) # "ledger" => dir'[Head(cmd[p].todo)] = Torn /\ rivals' = rivals
    BY <2>1, TruncateEffect DEF Base
  <2> QED BY <1>2, <2>1, <2>2
<1>4. Events(p)' = Events(p)
  BY <1>1, <1>3, Settles
<1>5. Progress(p)'
  <2>1. \A i \in 1 .. n - 1 : dir'[Script[i]] = dir[Script[i]]
    BY <1>3, FileNames
  <2>2. Written(p, n)'
    BY <1>2, <1>3, <1>4, <2>1, WrittenKeeps
  <2>3. n = 2 => dir'["ledger"] # NoFile
    BY <1>3, FileAbsent
  <2>4. Rest(n)' = Rest(n)
    BY DEF Rest, Script
  <2> QED BY <1>2, <1>3, <2>2, <2>3, <2>4 DEF Progress
<1>6. \A q \in Procs : Settled(q)'
  BY <1>3 DEF Settled, Writing
<1>7. ASSUME NEW q \in Procs, q # p PROVE cmd'[q] = cmd[q] /\ cmd[q].pc \notin Writing
  BY <1>1, <1>3, <1>7, Alone DEF Moves
<1>8. RivalsInv'
  <2> SUFFICES ASSUME dir'["ledger"] # NoFile, NEW q \in Procs,
                      \/ cmd'[q].pc \in Starting
                      \/ cmd'[q].pc \in Writing /\ cmd'[q].todo \in {Rest(1), Rest(2)}
               PROVE  q \in rivals'
    BY DEF RivalsInv, Rest, Script
  <2>1. CASE n = 2
    <3>1. CASE q # p
      <4>1. cmd[q].pc \in Starting
        BY <1>7, <3>1
      <4>2. dirKind = "planned"
        BY <4>1 DEF RunInv, Place
      <4>3. cmd[q].pc # "locked"
        BY <1>1, <3>1, <4>2, Alone
      <4> QED BY <1>3, <2>1, <4>1, <4>3 DEF Waiting, Starting
    <3>2. CASE q = p
      BY <1>3, <2>1, <3>2
    <3> QED BY <3>1, <3>2
  <2>2. CASE n # 2
    <3>1. dir["ledger"] # NoFile /\ rivals' = rivals
      BY <1>3, <2>2, FileNames DEF RunFiles
    <3>2. CASE q # p
      BY <1>7, <3>1, <3>2 DEF RunInv, RivalsInv
    <3>3. CASE q = p
      <4>1. cmd[p].todo \in {Rest(1), Rest(2)}
        BY <1>3, <3>3 DEF Starting
      <4> QED BY <1>1, <3>1, <3>3, <4>1 DEF RunInv, RivalsInv
    <3> QED BY <3>2, <3>3
  <2> QED BY <2>1, <2>2
<1>9. n = 6 => dir'["input"] = Torn
  BY <1>3, FileNames
<1>10. p # Torn
  BY RunAssumption
<1>11. n = 7 => cmd'[p].todo = Rest(7)
  BY <1>2, <1>3
<1> QED BY <1>1, <1>2, <1>3, <1>5, <1>6, <1>8, <1>9, <1>10, <1>11, WritingRun DEF Writing

LEMMA FillPartRun ==
  ASSUME Base, RunInv, HolderKeepsLock, NEW p \in Procs, FillPart(p)
  PROVE  RunInv'
<1>1. cmd[p].pc = "fill" /\ cmd[p].pc \in Writing
  BY DEF FillPart, Writing
<1>2. PICK n \in 1 .. 7 :
        cmd[p].todo = Rest(n) /\ Written(p, n) /\ Head(cmd[p].todo) = Script[n] /\ Script[n] \in RunFiles
  BY <1>1, AtFile
<1>3. /\ Moves(p) /\ UNCHANGED <<lpc, alive, dirKind, cmd, writer, rivals>> /\ n = 2
      /\ \A f \in RunFiles : f # Script[n] => dir'[f] = dir[f]
      /\ dir["ledger"] = Ledger(p, 0, FALSE)
      /\ \E m \in {0, Len(Events(p)) - 1}, torn \in BOOLEAN : dir'["ledger"] = Ledger(p, m, torn)
  BY <1>2, FillPartEffect, FileNames DEF Base
<1>4. dir'["ledger"] # NoFile /\ dir["ledger"] # NoFile
  <2>1. 0 \in Nat /\ Len(Events(p)) - 1 \in Nat
    BY EventsFacts DEF Base
  <2> QED BY <1>3, <2>1, FileAbsent
<1>5. Events(p)' = Events(p)
  BY <1>1, <1>3, Settles
<1>6. Progress(p)'
  <2>1. \A i \in 1 .. n - 1 : dir'[Script[i]] = dir[Script[i]]
    BY <1>3, FileNames
  <2>2. Written(p, n)'
    BY <1>2, <1>3, <1>5, <2>1, WrittenKeeps
  <2>3. Rest(n)' = Rest(n)
    BY DEF Rest, Script
  <2> QED BY <1>2, <1>3, <1>4, <2>2, <2>3 DEF Progress
<1>7. ASSUME NEW q \in Procs PROVE Settled(q)'
  <2> SUFFICES ASSUME cmd[q].answer = "ok", cmd[q].pc \notin Writing \cup {"dead"}, writer = q PROVE FALSE
    BY <1>3 DEF Settled
  <2>1. Written(q, 8)
    BY DEF RunInv, Settled
  <2>2. 2 \in 1 .. 8 - 1 /\ Meant(q, 2)
    BY DEF Meant
  <2>3. dir["ledger"] = WholeLedger(q)
    BY <2>1, <2>2 DEF Written, Mine, Script, Contents
  <2>4. Len(Events(q)) = 0
    BY <1>3, <2>3 DEF WholeLedger, Ledger
  <2> QED BY <2>4, EventsFacts DEF Base
<1>8. RivalsInv'
  BY <1>3, <1>4 DEF RunInv, RivalsInv, Rest, Script
<1> QED BY <1>1, <1>2, <1>3, <1>6, <1>7, <1>8, WritingRun

LEMMA FillRun ==
  ASSUME Base, RunInv, HolderKeepsLock, NEW p \in Procs, FillFile(p)
  PROVE  RunInv'
<1>1. cmd[p].pc = "fill" /\ cmd[p].pc \in Writing
  BY DEF FillFile, Writing
<1>2. PICK n \in 1 .. 7 :
        /\ cmd[p].todo = Rest(n) /\ Written(p, n) /\ (n = 2 => dir["ledger"] # NoFile)
        /\ Head(cmd[p].todo) = Script[n] /\ Script[n] \in RunFiles
        /\ Tail(cmd[p].todo) = Rest(n + 1) /\ (Rest(n + 1) = <<>> <=> n = 7)
  BY <1>1, AtFile
<1>3. /\ Moves(p) /\ UNCHANGED <<lpc, alive, dirKind, rivals>> /\ writer' = p
      /\ cmd'[p].todo = Rest(n + 1) /\ cmd'[p].answer = cmd[p].answer
      /\ cmd'[p].pc = IF n = 7 THEN Leave ELSE "truncate"
      /\ \A f \in RunFiles : f # Script[n] => dir'[f] = dir[f]
      /\ dir'[Script[n]] = Contents(p, Script[n])
  BY <1>2, FillEffect DEF Base
<1>4. Events(p)' = Events(p)
  BY <1>1, <1>3, Settles
<1>5. Written(p, n + 1)'
  <2>1. \A f \in RunFiles : dir'[f] = dir[f] \/ dir'[f] = Contents(p, f)
    BY <1>3
  <2>2. Written(p, n)'
    BY <1>2, <1>3, <1>4, <2>1, WrittenStays
  <2>3. Contents(p, Script[n])' = Contents(p, Script[n])
    BY <1>4, ContentsStay DEF Script
  <2>4. Mine(p, n)'
    BY <1>3, <2>3 DEF Mine, Script
  <2>5. \A i \in 1 .. n + 1 - 1 : i \in 1 .. n - 1 \/ i = n
    OBVIOUS
  <2> QED BY <2>2, <2>4, <2>5 DEF Written
<1>6. Leave \in {"release", "done"}
  BY DEF Leave
<1>7. Progress(p)'
  <2>1. n # 7 => n + 1 \in 1 .. 7 /\ cmd'[p].pc = "truncate"
    BY <1>3
  <2>2. n = 7 => cmd'[p].pc \notin Writing
    BY <1>3, <1>6 DEF Writing
  <2>3. Rest(n + 1)' = Rest(n + 1)
    BY DEF Rest, Script
  <2> QED BY <1>3, <1>5, <2>1, <2>2, <2>3 DEF Progress
<1>8. ASSUME NEW q \in Procs PROVE Settled(q)'
  <2>1. CASE q = p /\ n = 7
    BY <1>5, <2>1 DEF Settled
  <2>2. CASE q # p
    BY <1>3, <2>2 DEF Settled
  <2>3. CASE q = p /\ n # 7
    BY <1>3, <2>3 DEF Settled, Writing
  <2> QED BY <2>1, <2>2, <2>3
<1>9. RivalsInv'
  <2> SUFFICES ASSUME dir'["ledger"] # NoFile, NEW q \in Procs,
                      \/ cmd'[q].pc \in Starting
                      \/ cmd'[q].pc \in Writing /\ cmd'[q].todo \in {Rest(1), Rest(2)}
               PROVE  q \in rivals
    BY <1>3 DEF RivalsInv, Rest, Script
  <2>1. dir["ledger"] # NoFile
    BY <1>2, <1>3, FileNames DEF RunFiles
  <2>2. CASE q # p
    <3>1. cmd'[q] = cmd[q]
      BY <1>3, <2>2 DEF Moves
    <3> QED BY <2>1, <3>1 DEF RunInv, RivalsInv
  <2>3. CASE q = p
    <3>1. cmd'[p].pc \notin Starting
      BY <1>3, <1>6 DEF Starting
    <3>2. Rest(n + 1) = Rest(1) \/ Rest(n + 1) = Rest(2)
      BY <1>3, <2>3, <3>1
    <3>3. n + 1 \in 1 .. 8 /\ 1 \in 1 .. 8 /\ 2 \in 1 .. 8
      OBVIOUS
    <3>4. n + 1 = 1 \/ n + 1 = 2
      BY <3>2, <3>3, ScriptFacts
    <3>5. cmd[p].todo = Rest(1)
      BY <1>2, <3>4
    <3> QED BY <1>1, <2>1, <2>3, <3>5 DEF RunInv, RivalsInv
  <2> QED BY <2>2, <2>3
<1>10. n = 6 => dir'["input"] = p /\ cmd'[p].todo = Rest(7)
  <2>1. Contents(p, "input") = p
    BY Zenon DEF Contents
  <2> QED BY <1>3, <2>1, FileNames
<1>11. n = 7 => cmd'[p].pc \notin Writing
  BY <1>3, <1>6 DEF Writing
<1>12. cmd'[p].pc \in Writing \cup {"release", "done"}
  BY <1>3, <1>6 DEF Writing
<1> QED BY <1>1, <1>2, <1>3, <1>7, <1>8, <1>9, <1>10, <1>11, <1>12, WritingRun

(* A report is what the writer of the files would write.                   *)
LEMMA RenameRun ==
  ASSUME Base, RunInv, HolderKeepsLock, NEW p \in Procs, RenameReport(p)
  PROVE  RunInv'
<1>1. /\ Moves(p) /\ UNCHANGED <<lpc, alive, dirKind, writer, rivals>>
      /\ cmd[p].pc \in {"md", "html"} /\ cmd'[p].answer = cmd[p].answer
      /\ \A f \in RunFiles : f # cmd[p].pc => dir'[f] = dir[f]
      /\ dir'[cmd[p].pc] = dir[cmd[p].pc] \/ dir'[cmd[p].pc] = cmd[p].report
      /\ \/ cmd'[p].pc = "html" /\ cmd'[p].report = cmd[p].report
         \/ cmd'[p].pc = "release"
  BY RenameReportEffect DEF Base
<1>2. dir'["ledger"] = dir["ledger"] /\ dir'["input"] = dir["input"]
  BY <1>1 DEF RunFiles
<1>3. /\ dir["input"] \in Procs /\ dir["ledger"] # NoFile
      /\ cmd[p].report = Report(dir["input"], dir["ledger"])
      /\ p \in alive /\ lpc[p] = "held" /\ dirKind # "none"
  BY <1>1 DEF RunInv, Known, Place, Building
<1>4. ASSUME NEW q \in Procs, dir["input"] = q, dir["ledger"] = WholeLedger(q)
      PROVE  \A f \in RunFiles : dir'[f] = dir[f] \/ dir'[f] = Contents(q, f)
  <2>1. Contents(q, cmd[p].pc) = Report(q, WholeLedger(q))
    BY <1>1, Zenon DEF Contents
  <2> QED BY <1>1, <1>3, <1>4, <2>1
<1>5. ASSUME NEW q \in Procs, cmd[q].pc \in Writing
      PROVE  \A f \in RunFiles : dir'[f] = dir[f] \/ dir'[f] = Contents(q, f)
  <2>1. q # p
    BY <1>1, <1>5 DEF Writing
  <2>2. dirKind = "raw"
    <3>1. cmd[p].pc \in Building
      BY <1>1 DEF Building
    <3> QED BY <1>5, <2>1, <3>1, Alone
  <2>3. dir["input"] = q /\ Mine(q, 2)
    BY <1>3, <1>5, <2>2, RunAssumption DEF RunInv, RawInv
  <2>4. dir["ledger"] = WholeLedger(q)
    BY <2>3 DEF Mine, Script, Contents
  <2> QED BY <1>4, <2>3, <2>4
<1>6. ASSUME NEW q \in Procs PROVE cmd[q].pc # "idle" => Events(q)' = Events(q)
  BY <1>1, Settles
<1>7. ASSUME NEW q \in Procs, q # p PROVE cmd'[q] = cmd[q]
  BY <1>1, <1>7 DEF Moves
<1>8. cmd'[p].pc \notin Writing \cup Starting /\ cmd'[p].pc # "dead" /\ cmd'[p].pc # "idle"
  BY <1>1 DEF Writing, Starting
<1>9. ASSUME NEW q \in Procs PROVE Progress(q)'
  <2> SUFFICES ASSUME cmd'[q].pc \in Writing PROVE Progress(q)'
    BY DEF Progress
  <2>1. q # p /\ cmd'[q] = cmd[q] /\ cmd[q].pc \in Writing
    BY <1>7, <1>8
  <2>2. PICK n \in 1 .. 7 : /\ cmd[q].todo = Rest(n) /\ Written(q, n)
                            /\ cmd[q].pc = "fill" /\ n = 2 => dir["ledger"] # NoFile
    BY <2>1 DEF RunInv, Progress
  <2>3. Events(q)' = Events(q) /\ n \in 1 .. 8
    BY <1>6, <2>1 DEF Writing
  <2>4. Written(q, n)'
    BY <1>5, <2>1, <2>2, <2>3, WrittenStays
  <2>5. Rest(n)' = Rest(n)
    BY DEF Rest, Script
  <2> QED BY <1>2, <2>1, <2>2, <2>4, <2>5 DEF Progress
<1>10. ASSUME NEW q \in Procs PROVE Settled(q)'
  <2> SUFFICES ASSUME cmd'[q].answer = "ok", cmd'[q].pc \notin Writing \cup {"dead"}, writer = q PROVE Written(q, 8)'
    BY <1>1 DEF Settled
  <2>1. cmd[q].answer = "ok" /\ cmd'[q].answer = cmd[q].answer /\ cmd[q].pc \notin Writing \cup {"dead"}
    BY <1>1, <1>7 DEF Writing
  <2>2. Written(q, 8) /\ cmd[q].pc # "idle"
    BY <2>1 DEF RunInv, Settled, Place
  <2>3. 2 \in 1 .. 8 - 1 /\ 6 \in 1 .. 8 - 1 /\ Meant(q, 2) /\ Meant(q, 6)
    BY DEF Meant
  <2>4. Mine(q, 2) /\ Mine(q, 6)
    BY <2>2, <2>3 DEF Written
  <2>5. Contents(q, "input") = q /\ Contents(q, "ledger") = WholeLedger(q)
    BY Zenon DEF Contents
  <2>6. dir["input"] = q /\ dir["ledger"] = WholeLedger(q)
    BY <2>4, <2>5 DEF Mine, Script
  <2> QED BY <1>4, <1>6, <2>1, <2>2, <2>6, WrittenStays
<1>11. ASSUME NEW q \in Procs PROVE Place(q)' /\ Known(q)'
  <2>1. Report(dir["input"], dir["ledger"])' = Report(dir["input"], dir["ledger"])
    BY <1>1, <1>2, <1>3, ReportHolds
  <2>2. Place(q) /\ Known(q)
    BY DEF RunInv
  <2>3. CASE q = p
    BY <1>1, <1>2, <1>3, <1>8, <2>1, <2>3 DEF Place, Known, Building, Starting
  <2>4. CASE q # p
    <3>1. cmd'[q] = cmd[q] /\ lpc'[q] = lpc[q]
      BY <1>7, <1>1, <2>4
    <3> QED BY <1>1, <1>2, <2>1, <2>2, <3>1 DEF Place, Known
  <2> QED BY <2>3, <2>4
<1>12. DirInv'
  BY <1>1, <1>2, <1>3, <1>7, <1>8 DEF RunInv, DirInv
<1>13. RivalsInv'
  BY <1>1, <1>2, <1>7, <1>8 DEF RunInv, RivalsInv, Rest, Script
<1>14. RawInv'
  <2> SUFFICES ASSUME dirKind = "raw" PROVE RawInv'
    BY <1>1 DEF RawInv
  <2>1. PICK s \in Procs :
          /\ \A q \in Procs : q # s => cmd[q].pc \notin Writing
          /\ dir["input"] \in {NoFile, Torn, s}
          /\ dir["input"] = s => Mine(s, 2) /\ (cmd[s].pc \in Writing => cmd[s].todo = Rest(7))
    BY DEF RunInv, RawInv
  <2>2. dir["input"] = s /\ Mine(s, 2) /\ cmd[s].pc # "idle"
    BY <1>3, <2>1, RunAssumption DEF RunInv, DirInv
  <2>3. Contents(s, "ledger")' = Contents(s, "ledger")
    BY <1>6, <2>2, ContentsStay
  <2>4. Mine(s, 2)'
    BY <1>2, <2>2, <2>3 DEF Mine, Script
  <2>5. \A q \in Procs : cmd'[q].pc \in Writing => cmd'[q] = cmd[q]
    BY <1>7, <1>8
  <2>6. Rest(7)' = Rest(7)
    BY DEF Rest, Script
  <2> QED BY <1>2, <2>1, <2>2, <2>4, <2>5, <2>6 DEF RawInv
<1> QED BY <1>9, <1>10, <1>11, <1>12, <1>13, <1>14 DEF RunInv

(* Every step, as long as the lock lets nobody else in.                    *)
LEMMA RunStep == Base /\ RunInv /\ HolderKeepsLock /\ [Next]_vars => RunInv'
<1> SUFFICES ASSUME Base, RunInv, HolderKeepsLock, [Next]_vars PROVE RunInv'
  OBVIOUS
<1>1. ASSUME NEW k \in Planners, PlannerStep(k) PROVE RunInv'
  <2>1. /\ UNCHANGED <<lockVars, loop, dir, cmd, writer, rivals>>
        /\ dirKind' = dirKind \/ (dirKind' = "planned" /\ dirKind \in {"none", "planned"})
    BY <1>1, PlannerEffect DEF Base
  <2> QED BY <2>1, StillRun DEF lockVars
<1>2. ASSUME NEW p \in Procs, Preflight(p) \/ RawStart(p) \/ BuildReport(p) \/ Command(p) \/ ProcessDies(p)
      PROVE  RunInv'
  BY <1>2, QuietSteps, QuietRun, RawStartRun, TruncateRun, FillPartRun, FillRun, RenameRun DEF Command
<1>3. CASE UNCHANGED vars
  BY <1>3, StillRun DEF vars, runVars, lockVars
<1> QED BY <1>1, <1>2, <1>3 DEF Next, PlannerStep

-----------------------------------------------------------------------------
(* What the commands may rely on, as long as the lock keeps its promise.   *)

LEMMA RunHolds == Spec /\ []HolderKeepsLock => [](Base /\ RunInv)
<1>1. Init => Base /\ RunInv
  BY InitBase, InitRun
<1>2. Base /\ RunInv /\ HolderKeepsLock /\ [Next]_vars => (Base /\ RunInv)'
  BY BaseStep, RunStep
<1> QED BY <1>1, <1>2, PTL DEF Spec

(* A start that answers without an error leaves files that belong together *)
(* and a receipt that verifies, until another start writes                 *)
(* (run/run-dir.ts:40-52), whatever else reads, builds reports, or dies.   *)
THEOREM AnswersVerify == Spec /\ []HolderKeepsLock => []AnsweredRunsVerify
<1>1. Base /\ RunInv => AnsweredRunsVerify
  <2> SUFFICES ASSUME RunInv, NEW p \in Procs, cmd[p].answer = "ok", cmd[p].pc = "done", writer = p
               PROVE  /\ dir["ledger"] = WholeLedger(p)
                      /\ dir["manifest"] = p /\ dir["input"] = p /\ dir["summary"] = p
                      /\ dir["md"] = Report(p, dir["ledger"]) /\ dir["html"] = Report(p, dir["ledger"])
                      /\ p \in Sealers => Verifies(dir["receipt"], dir["ledger"])
    BY DEF AnsweredRunsVerify
  <2>1. Written(p, 8)
    BY DEF RunInv, Settled, Writing
  <2>2. \A n \in 2 .. 7 : Mine(p, n)
    BY <2>1 DEF Written, Meant
  <2>3. p \in Sealers => Mine(p, 1)
    BY <2>1 DEF Written, Meant
  <2>4. /\ Contents(p, "ledger") = WholeLedger(p)
        /\ Contents(p, "md") = Report(p, WholeLedger(p)) /\ Contents(p, "html") = Report(p, WholeLedger(p))
        /\ Contents(p, "manifest") = p /\ Contents(p, "input") = p /\ Contents(p, "summary") = p
        /\ Contents(p, "receipt") = p
    <3>1. ASSUME NEW f \in {"manifest", "input", "summary", "receipt"} PROVE Contents(p, f) = p
      BY <3>1, Zenon DEF Contents
    <3>2. ASSUME NEW f \in {"md", "html"} PROVE Contents(p, f) = Report(p, WholeLedger(p))
      BY <3>2, Zenon DEF Contents
    <3>3. Contents(p, "ledger") = WholeLedger(p)
      BY Zenon DEF Contents
    <3> QED BY <3>1, <3>2, <3>3
  <2>5. /\ dir["ledger"] = WholeLedger(p) /\ dir["manifest"] = p /\ dir["input"] = p /\ dir["summary"] = p
        /\ dir["md"] = Report(p, WholeLedger(p)) /\ dir["html"] = Report(p, WholeLedger(p))
    BY <2>2, <2>4 DEF Mine, Script
  <2>6. p \in Sealers => dir["receipt"] = p
    BY <2>3, <2>4 DEF Mine, Script
  <2> QED BY <2>5, <2>6 DEF Verifies
<1> QED BY <1>1, RunHolds, PTL

(* A report that is put in place says what the ledger beside it says at    *)
(* that moment (run/run-dir.ts:56-60).                                     *)
THEOREM ReportsFollowLedgers == Spec /\ []HolderKeepsLock => ReportsAreAnchored
<1>1. ASSUME Base, RunInv, [Next]_vars, NEW p \in Procs, NEW f \in {"md", "html"},
             cmd[p].pc = f, cmd'[p].pc # f, dir'[f] # dir[f]
      PROVE  /\ dir'[f].state = Recover(dir["ledger"]).state
             /\ dir'[f].integrity = Recover(dir["ledger"]).integrity
  <2>1. ~\E k \in Planners : PlannerStep(k)
    BY <1>1, PlannerEffect DEF Base
  <2>2. ~UNCHANGED vars
    BY <1>1 DEF vars, runVars
  <2>3. PICK q \in Procs : Calm(q) \/ TruncateFile(q) \/ FillPart(q) \/ FillFile(q) \/ RenameReport(q)
    BY <1>1, <2>1, <2>2, NextCases DEF Base
  <2>4. ~Calm(q)
    BY <1>1 DEF Calm
  <2>5. ASSUME TruncateFile(q) \/ FillPart(q) \/ FillFile(q) PROVE FALSE
    <3>1. cmd[q].pc \in Writing
      BY <2>5 DEF TruncateFile, FillPart, FillFile, Writing
    <3>2. Head(cmd[q].todo) \in RunFiles
      BY <1>1, <3>1, Todo DEF Base
    <3>3. Moves(q)
      BY <1>1, <2>5, <3>2, TruncateEffect, FillPartEffect, FillEffect DEF Base
    <3>4. q # p
      BY <1>1, <3>1 DEF Writing
    <3> QED BY <1>1, <3>3, <3>4 DEF Moves
  <2>6. RenameReport(q)
    BY <2>3, <2>4, <2>5
  <2>7. Moves(q) /\ (dir'[cmd[q].pc] = dir[cmd[q].pc] \/ dir'[cmd[q].pc] = cmd[q].report)
    BY <1>1, <2>6, RenameReportEffect DEF Base
  <2>8. q = p
    BY <1>1, <2>7 DEF Moves
  <2>9. dir'[f] = Report(dir["input"], dir["ledger"])
    BY <1>1, <2>7, <2>8 DEF RunInv, Known
  <2> QED BY <2>9 DEF Report
<1>2. Base /\ RunInv /\ [Next]_vars =>
        [\A p \in Procs, f \in {"md", "html"} :
           cmd[p].pc = f /\ cmd'[p].pc # f /\ dir'[f] # dir[f] =>
             /\ dir'[f].state = Recover(dir["ledger"]).state
             /\ dir'[f].integrity = Recover(dir["ledger"]).integrity]_vars
  BY <1>1
<1> QED BY <1>2, RunHolds, PTL DEF Spec, ReportsAreAnchored

(* A ledger that has ended is only ever replaced by a start that was past  *)
(* its preflight before that ledger was begun (run/preflight.ts:107-122).  *)
THEOREM EndsArePermanent == Spec /\ []HolderKeepsLock => OnlyRivalsOverwrite
<1>1. ASSUME Base, RunInv, [Next]_vars, Terminated(dir["ledger"]), dir'["ledger"] # dir["ledger"]
      PROVE  writer' \in rivals
  <2>1. ~\E k \in Planners : PlannerStep(k)
    BY <1>1, PlannerEffect DEF Base
  <2>2. ~UNCHANGED vars
    BY <1>1 DEF vars, runVars
  <2>3. PICK q \in Procs : Calm(q) \/ TruncateFile(q) \/ FillPart(q) \/ FillFile(q) \/ RenameReport(q)
    BY <1>1, <2>1, <2>2, NextCases DEF Base
  <2>4. ~Calm(q)
    BY <1>1 DEF Calm
  <2>5. ~RenameReport(q)
    BY <1>1, RenameReportEffect DEF Base, RunFiles
  <2>6. ~FillPart(q)
    <3> SUFFICES ASSUME dir["ledger"] = Ledger(q, 0, FALSE) PROVE FALSE
      BY DEF FillPart
    <3>1. Recover(dir["ledger"]).state = "planned"
      BY DEF Recover, Ledger
    <3> QED BY <1>1, <3>1 DEF Terminated
  <2>7. cmd[q].pc \in Writing
    BY <2>3, <2>4, <2>5, <2>6 DEF TruncateFile, FillFile, Writing
  <2>8. PICK n \in 1 .. 7 : cmd[q].todo = Rest(n) /\ Head(cmd[q].todo) = Script[n] /\ Script[n] \in RunFiles
    BY <1>1, <2>7, AtFile
  <2>9. writer' = q /\ \A f \in RunFiles : f # Script[n] => dir'[f] = dir[f]
    BY <1>1, <2>3, <2>4, <2>5, <2>6, <2>8, TruncateEffect, FillEffect DEF Base
  <2>10. n = 2
    BY <1>1, <2>9, FileNames DEF RunFiles
  <2> QED BY <1>1, <2>7, <2>8, <2>9, <2>10 DEF RunInv, RivalsInv, Terminated
<1>2. Base /\ RunInv /\ [Next]_vars =>
        [Terminated(dir["ledger"]) /\ dir'["ledger"] # dir["ledger"] => writer' \in rivals]_vars
  BY <1>1
<1> QED BY <1>2, RunHolds, PTL DEF Spec, OnlyRivalsOverwrite

-----------------------------------------------------------------------------
(* Of two processes the lock lets one in.  (Of three it can let in two:    *)
(* that is how the signing key comes to differ.)                           *)

TwoProcesses == \A p, q, r \in Procs : p = q \/ q = r \/ p = r

Own(p) == [pid |-> p, acquired_at |-> 0]
Crowding == {"contending", "deciding", "stealing", "confirming"}

Keeps(p) ==
  /\ lock = Own(p) => p \notin alive \/ lpc[p] \in {"held", "unlinking", "confirming"}
  /\ p \in alive /\ lpc[p] \in {"held", "unlinking"} => lock = Own(p)
  /\ p \in alive /\ lpc[p] = "deciding" => seen[p] = NoLock \/ \E q \in Procs : q # p /\ seen[p] = Own(q)

(* Why p that contends will not get in beside q: q is dead, or has the     *)
(* lock and p will see so, or is through with the lock for good.           *)
Clear(p, q) ==
  \/ q \notin alive
  \/ lpc[q] \in {"held", "unlinking"} /\ (lpc[p] = "contending" \/ (lpc[p] = "deciding" /\ seen[p] = Own(q)))
  \/ lpc[q] = "idle" /\ cmd[q].pc \notin {"idle", "ready"}

LockInv ==
  /\ alive \subseteq Procs
  /\ clock = 0 /\ \A p \in Procs : info[p] = Own(p)
  /\ lock = NoLock \/ \E p \in Procs : lock = Own(p)
  /\ \A p \in Procs : Keeps(p)
  /\ \A p, q \in Procs : p # q /\ p \in alive /\ lpc[p] \in Crowding => Clear(p, q)

LEMMA OwnFacts ==
  /\ \A p, q : Own(p) = Own(q) => p = q
  /\ \A p \in Procs : Own(p) # NoLock /\ Own(p).pid = p /\ Own(p).acquired_at = 0
<1>1. \A p, q : Own(p) = Own(q) => p = q
  <2> SUFFICES ASSUME NEW p, NEW q, Own(p) = Own(q) PROVE p = q
    OBVIOUS
  <2>1. Own(p).pid = p /\ Own(q).pid = q
    BY DEF Own
  <2> QED BY <2>1
<1>2. \A p \in Procs : Own(p) # NoLock /\ Own(p).pid = p /\ Own(p).acquired_at = 0
  BY LockAssumption DEF Own
<1> QED BY <1>1, <1>2

(* Who is on the way in finds nobody else contending.                      *)
LEMMA NobodyCrowds ==
  ASSUME LockInv, NEW p \in Procs, p \in alive, lpc[p] \in Crowding \cup {"linking"}, NEW q \in Procs, q # p
  PROVE  q \notin alive \/ lpc[q] \notin Crowding
BY DEF LockInv, Clear, Crowding

(* A step of acquireLock.                                                  *)
LEMMA AcquireKeeps ==
  ASSUME TwoProcesses, Shaped, LockInv, NEW p \in Procs, AcquireStep(p),
         \A q \in Procs : q # p => cmd'[q] = cmd[q]
  PROVE  LockInv'
<1>0. /\ clock = 0 /\ alive \subseteq Procs /\ \A q \in Procs : info[q] = Own(q)
      /\ lock = NoLock \/ \E q \in Procs : lock = Own(q)
      /\ \A q \in Procs : Keeps(q)
      /\ DOMAIN lpc = Procs /\ DOMAIN seen = Procs
  BY DEF LockInv, Shaped
<1>1. p \in alive /\ lpc[p] \in Crowding \cup {"linking"}
  BY DEF AcquireStep, Link, ReadHolder, Decide, Steal, ConfirmSteal, At, Crowding
<1>2. \A q \in Procs : q # p => q \notin alive \/ lpc[q] \notin Crowding
  BY <1>1, NobodyCrowds
<1>3. \A q \in Procs : q # p /\ lpc[p] \in Crowding => Clear(p, q)
  BY <1>1 DEF LockInv
<1>4. lock # Own(p) \/ lpc[p] = "confirming"
  BY <1>0, <1>1 DEF Keeps, Crowding
<1>5. ASSUME UNCHANGED <<info, alive, clock>>, \A q \in Procs : q # p => lpc'[q] = lpc[q] /\ seen'[q] = seen[q],
             lock' = NoLock \/ \E q \in Procs : lock' = Own(q),
             \A q \in Procs : Keeps(q)',
             lpc'[p] \in Crowding => \A q \in Procs : q # p => Clear(p, q)'
      PROVE  LockInv'
  <2>1. ASSUME NEW q \in Procs, NEW r \in Procs, q # r, q \in alive', lpc'[q] \in Crowding PROVE Clear(q, r)'
    BY <1>2, <1>5, <2>1
  <2>2. \A q \in Procs : info'[q] = Own(q)'
    BY <1>0, <1>5 DEF Own
  <2>3. lock' = NoLock \/ \E q \in Procs : lock' = Own(q)'
    BY <1>5 DEF Own
  <2> QED BY <1>0, <1>5, <2>1, <2>2, <2>3 DEF LockInv
<1>6. CASE Link(p) /\ lock = NoLock
  <2>1. /\ lock' = Own(p) /\ lpc'[p] = "held" /\ UNCHANGED <<info, alive, clock, seen>>
        /\ \A q \in Procs : q # p => lpc'[q] = lpc[q]
    BY <1>0, <1>6, MoveShape DEF Link
  <2>2. ASSUME NEW q \in Procs PROVE Keeps(q)'
    <3>1. CASE q = p
      BY <2>1, <3>1 DEF Keeps, Own
    <3>2. CASE q # p
      BY <1>0, <1>6, <2>1, <3>2, OwnFacts DEF Keeps, Own
    <3> QED BY <3>1, <3>2
  <2> QED BY <1>5, <2>1, <2>2 DEF Crowding
<1>7. CASE Link(p) /\ lock # NoLock
  <2>1. /\ lock' = lock /\ lpc'[p] = "contending" /\ UNCHANGED <<info, alive, clock, seen>>
        /\ \A q \in Procs : q # p => lpc'[q] = lpc[q]
    BY <1>0, <1>7, MoveShape DEF Link
  <2>2. ASSUME NEW q \in Procs PROVE Keeps(q)'
    <3>1. CASE q = p
      BY <1>4, <1>7, <2>1, <3>1 DEF Keeps, Own, Link, At
    <3>2. CASE q # p
      BY <1>0, <2>1, <3>2 DEF Keeps, Own
    <3> QED BY <3>1, <3>2
  <2>3. ASSUME NEW q \in Procs, q # p PROVE Clear(p, q)'
    <3>1. PICK r \in Procs : lock = Own(r)
      BY <1>0, <1>7
    <3>2. r # p
      BY <1>4, <1>7, <3>1 DEF Link, At
    <3>3. r = q
      BY <2>3, <3>2 DEF TwoProcesses
    <3>4. q \notin alive \/ lpc[q] \in {"held", "unlinking"}
      BY <1>0, <1>2, <2>3, <3>1, <3>3 DEF Keeps, Crowding
    <3> QED BY <2>1, <2>3, <3>4 DEF Clear
  <2> QED BY <1>0, <1>5, <2>1, <2>2, <2>3
<1>8. CASE ReadHolder(p)
  <2>1. /\ lock' = lock /\ lpc'[p] = "deciding" /\ seen'[p] = lock /\ UNCHANGED <<info, alive, clock>>
        /\ lpc[p] = "contending"
        /\ \A q \in Procs : q # p => lpc'[q] = lpc[q] /\ seen'[q] = seen[q]
    BY <1>0, <1>8, MoveShape DEF ReadHolder, At
  <2>2. ASSUME NEW q \in Procs PROVE Keeps(q)'
    <3>1. CASE q = p
      BY <1>0, <1>4, <2>1, <3>1 DEF Keeps, Own
    <3>2. CASE q # p
      BY <1>0, <2>1, <3>2 DEF Keeps, Own
    <3> QED BY <3>1, <3>2
  <2>3. ASSUME NEW q \in Procs, q # p PROVE Clear(p, q)'
    <3>1. Clear(p, q) /\ cmd'[q] = cmd[q]
      BY <1>3, <2>1, <2>3 DEF Crowding
    <3>2. q \in alive /\ lpc[q] \in {"held", "unlinking"} => lock = Own(q)
      BY <1>0 DEF Keeps
    <3> QED BY <2>1, <2>3, <3>1, <3>2 DEF Clear, Own
  <2> QED BY <1>0, <1>5, <2>1, <2>2, <2>3
<1>9. CASE Decide(p)
  <2> DEFINE next == IF IsStale(seen[p], p) THEN "stealing" ELSE "idle"
  <2>1. /\ lock' = lock /\ lpc'[p] = next /\ UNCHANGED <<info, alive, clock, seen>> /\ lpc[p] = "deciding"
        /\ \A q \in Procs : q # p => lpc'[q] = lpc[q]
    <3> HIDE DEF next
    <3>1. Move(p, next) /\ UNCHANGED <<lock, info, seen, alive, clock>> /\ lpc[p] = "deciding"
      BY <1>9 DEF Decide, At, next
    <3> QED BY <1>0, <3>1, MoveShape
  <2>2. next \in {"stealing", "idle"}
    OBVIOUS
  <2>3. ASSUME NEW q \in Procs PROVE Keeps(q)'
    <3>1. CASE q = p
      BY <1>4, <2>1, <2>2, <3>1 DEF Keeps, Own
    <3>2. CASE q # p
      BY <1>0, <2>1, <3>2 DEF Keeps, Own
    <3> QED BY <3>1, <3>2
  <2>4. ASSUME next = "stealing", NEW q \in Procs, q # p PROVE Clear(p, q)'
    <3>1. IsStale(seen[p], p)
      BY <2>4
    <3>2. Clear(p, q) /\ cmd'[q] = cmd[q]
      BY <1>3, <2>1, <2>4 DEF Crowding
    <3>3. ASSUME seen[p] = Own(q) PROVE q \notin alive
      <4>1. seen[p] # NoLock /\ seen[p].acquired_at = 0 /\ seen[p].pid = q
        BY <3>3, OwnFacts
      <4>2. ~(0 - 0 > StaleMs)
        BY LockAssumption
      <4> QED BY <1>0, <3>1, <4>1, <4>2 DEF IsStale
    <3> QED BY <2>1, <2>4, <3>2, <3>3 DEF Clear
  <2> QED BY <1>0, <1>5, <2>1, <2>2, <2>3, <2>4 DEF Crowding
<1>10. CASE Steal(p)
  <2>1. /\ lock' = Own(p) /\ lpc'[p] = "confirming" /\ UNCHANGED <<info, alive, clock, seen>> /\ lpc[p] = "stealing"
        /\ \A q \in Procs : q # p => lpc'[q] = lpc[q]
    BY <1>0, <1>10, MoveShape DEF Steal, At
  <2>2. \A q \in Procs : q # p => Clear(p, q) /\ cmd'[q] = cmd[q]
    BY <1>3, <2>1 DEF Crowding
  <2>3. \A q \in Procs : q # p => q \notin alive \/ lpc[q] = "idle"
    BY <2>1, <2>2 DEF Clear
  <2>4. ASSUME NEW q \in Procs PROVE Keeps(q)'
    <3>1. CASE q = p
      BY <2>1, <3>1 DEF Keeps, Own
    <3>2. CASE q # p
      BY <2>1, <2>3, <3>2, OwnFacts DEF Keeps, Own
    <3> QED BY <3>1, <3>2
  <2>5. \A q \in Procs : q # p => Clear(p, q)'
    BY <2>1, <2>2 DEF Clear
  <2> QED BY <1>5, <2>1, <2>4, <2>5
<1>11. CASE ConfirmSteal(p)
  <2>1. /\ lock' = lock /\ UNCHANGED <<info, alive, clock, seen>>
        /\ lpc'[p] = (IF lock = Own(p) THEN "held" ELSE "idle")
        /\ \A q \in Procs : q # p => lpc'[q] = lpc[q]
    BY <1>0, <1>11, MoveShape DEF ConfirmSteal
  <2>2. ASSUME NEW q \in Procs PROVE Keeps(q)'
    <3>1. CASE q = p
      BY <2>1, <3>1 DEF Keeps, Own
    <3>2. CASE q # p
      BY <1>0, <2>1, <3>2 DEF Keeps, Own
    <3> QED BY <3>1, <3>2
  <2>3. lpc'[p] \notin Crowding
    BY <2>1 DEF Crowding
  <2> QED BY <1>0, <1>5, <2>1, <2>2, <2>3
<1> QED BY <1>6, <1>7, <1>8, <1>9, <1>10, <1>11 DEF AcquireStep

(* A call of acquireLock starts when nobody contends, and release is a     *)
(* matter of the holder alone.                                             *)
LEMMA StartKeeps ==
  ASSUME Shaped, LockInv, NEW p \in Procs, StartAcquire(p),
         \A q \in Procs : q # p => cmd'[q] = cmd[q] /\ (q \notin alive \/ lpc[q] \notin Crowding)
  PROVE  LockInv'
<1>1. /\ lock' = lock /\ clock' = clock /\ alive' = alive /\ seen' = seen
      /\ lpc[p] = "idle" /\ lpc'[p] = "linking" /\ p \in alive
      /\ \A q \in Procs : q # p => lpc'[q] = lpc[q]
      /\ info' = [info EXCEPT ![p].acquired_at = clock]
  BY MoveShape DEF StartAcquire, At
<1>2. \A q \in Procs : info'[q] = Own(q)
  <2>1. info[p] = [pid |-> p, acquired_at |-> 0] /\ clock = 0
    BY DEF LockInv, Own
  <2>2. [info[p] EXCEPT !.acquired_at = 0] = [pid |-> p, acquired_at |-> 0]
    BY <2>1
  <2> QED BY <1>1, <2>1, <2>2 DEF LockInv, Own, Shaped
<1>3. ASSUME NEW q \in Procs PROVE Keeps(q)'
  <2>1. CASE q = p
    BY <1>1, <2>1 DEF LockInv, Keeps, Own
  <2>2. CASE q # p
    BY <1>1, <2>2 DEF LockInv, Keeps, Own
  <2> QED BY <2>1, <2>2
<1>4. ASSUME NEW q \in Procs, NEW r \in Procs, q # r, q \in alive', lpc'[q] \in Crowding PROVE Clear(q, r)'
  BY <1>1, <1>4 DEF Crowding
<1> QED BY <1>1, <1>2, <1>3, <1>4 DEF LockInv, Own

LEMMA ReleaseKeeps ==
  ASSUME Shaped, LockInv, NEW p \in Procs, StartRelease(p) \/ Unlink(p),
         \A q \in Procs : q # p => cmd'[q] = cmd[q], cmd'[p].pc \notin {"idle", "ready"}
  PROVE  LockInv'
<1>0. /\ clock = 0 /\ alive \subseteq Procs /\ \A q \in Procs : info[q] = Own(q)
      /\ lock = NoLock \/ \E q \in Procs : lock = Own(q)
      /\ \A q \in Procs : Keeps(q)
      /\ \A q, r \in Procs : q # r /\ q \in alive /\ lpc[q] \in Crowding => Clear(q, r)
  BY DEF LockInv
<1>1. p \in alive /\ lpc[p] \in {"held", "unlinking"} /\ lock = Own(p)
  BY <1>0 DEF StartRelease, Unlink, At, Keeps
<1>2. /\ UNCHANGED <<info, seen, alive, clock>>
      /\ \A q \in Procs : q # p => lpc'[q] = lpc[q]
      /\ \/ lpc'[p] = "unlinking" /\ lock' = lock
         \/ lpc'[p] = "idle" /\ lock' = NoLock
  <2>1. CASE StartRelease(p)
    BY <1>0, <1>1, <2>1, MoveShape DEF StartRelease
  <2>2. CASE Unlink(p)
    BY <2>2, MoveShape DEF Unlink
  <2> QED BY <2>1, <2>2
<1>3. ASSUME NEW q \in Procs PROVE Keeps(q)'
  <2>1. CASE q = p
    BY <1>1, <1>2, <2>1, OwnFacts DEF Keeps, Own
  <2>2. CASE q # p
    <3>1. Keeps(q) /\ lock # Own(q) /\ Own(q) # NoLock
      BY <1>0, <1>1, <2>2, OwnFacts
    <3>2. lock' # Own(q) /\ UNCHANGED <<info, seen, alive, clock>> /\ lpc'[q] = lpc[q]
      BY <1>2, <2>2, <3>1
    <3> QED BY <3>1, <3>2 DEF Keeps, Own
  <2> QED BY <2>1, <2>2
<1>4. ASSUME NEW q \in Procs, NEW r \in Procs, q # r, q \in alive', lpc'[q] \in Crowding PROVE Clear(q, r)'
  <2>1. q # p /\ q \in alive /\ lpc[q] \in Crowding /\ Clear(q, r)
    BY <1>0, <1>2, <1>4 DEF Crowding
  <2>2. CASE r = p
    BY <1>1, <1>2, <2>1, <2>2 DEF Clear, Own
  <2>3. CASE r # p
    BY <1>2, <2>1, <2>3 DEF Clear, Own
  <2> QED BY <2>2, <2>3
<1>5. lock' = NoLock \/ \E q \in Procs : lock' = Own(q)'
  BY <1>0, <1>2 DEF Own
<1> QED BY <1>0, <1>2, <1>3, <1>4, <1>5 DEF LockInv, Own

(* The lock does not notice anything else, nor the death of a process.     *)
LEMMA ElseKeeps ==
  ASSUME LockInv, UNCHANGED <<lock, lpc, info, seen, clock>>, alive' \subseteq alive,
         \A q \in Procs : cmd'[q].pc \in {"idle", "ready"} => cmd[q].pc \in {"idle", "ready"}
  PROVE  LockInv'
BY DEF LockInv, Keeps, Clear, Own

LEMMA LockStep == TwoProcesses /\ Base /\ LockInv /\ [Next /\ JoinsUncrowded]_vars => LockInv'
<1> SUFFICES ASSUME TwoProcesses, Base, LockInv, [Next /\ JoinsUncrowded]_vars PROVE LockInv'
  OBVIOUS
<1>1. ASSUME NEW k \in Planners, PlannerStep(k) PROVE LockInv'
  <2>1. UNCHANGED <<lockVars, cmd>>
    BY <1>1, PlannerEffect DEF Base
  <2> QED BY <2>1, ElseKeeps DEF lockVars
<1>2. ASSUME NEW p \in Procs, TakeLock(p) PROVE LockInv'
  <2>1. \A q \in Procs : q # p => cmd'[q] = cmd[q]
    BY <1>2, TakeLockEffect DEF Base, Moves
  <2>2. cmd[p].pc = "ready" /\ lpc[p] = "idle" /\ p \in alive /\ StartAcquire(p)
    BY <1>2 DEF TakeLock, StartAcquire, At
  <2>3. \A q \in Procs : q # p => q \notin alive \/ lpc[q] \notin Crowding
    BY <2>2 DEF LockInv, Clear
  <2> QED BY <2>1, <2>2, <2>3, StartKeeps DEF Base
<1>3. ASSUME NEW p \in Procs, BuildReport(p), JoinsUncrowded PROVE LockInv'
  <2>1. StartAcquire(p) /\ \A q \in Procs : q # p => cmd'[q] = cmd[q]
    BY <1>3, BuildReportEffect DEF Base, Moves, BuildReport
  <2>2. \A q \in Procs : q \notin alive \/ lpc[q] \notin Crowding
    <3>1. Uncrowded
      BY <1>3, BuildReportEffect DEF Base, JoinsUncrowded
    <3> QED BY <3>1 DEF Uncrowded, Crowding
  <2> QED BY <2>1, <2>2, StartKeeps DEF Base
<1>4. ASSUME NEW p \in Procs, Acquire(p) PROVE LockInv'
  <2>1. AcquireStep(p) /\ \A q \in Procs : q # p => cmd'[q] = cmd[q]
    BY <1>4, AcquireEffect DEF Base, Moves, Acquire
  <2> QED BY <2>1, AcquireKeeps DEF Base
<1>5. ASSUME NEW p \in Procs, Release(p) PROVE LockInv'
  <2>1. /\ StartRelease(p) \/ Unlink(p)
        /\ cmd'[p].pc \in {"done", "release"} /\ \A q \in Procs : q # p => cmd'[q] = cmd[q]
    BY <1>5, ReleaseEffect DEF Base, Moves, Release
  <2> QED BY <2>1, ReleaseKeeps DEF Base
<1>6. ASSUME NEW p \in Procs, Preflight(p) PROVE LockInv'
  <2>1. cmd[p].pc = "idle" /\ UNCHANGED lockVars /\ \A q \in Procs : q # p => cmd'[q] = cmd[q]
    BY <1>6, PreflightEffect DEF Base, Moves, Preflight
  <2> QED BY <2>1, ElseKeeps DEF lockVars
<1>7. ASSUME NEW p \in Procs,
             \/ RawStart(p) \/ ProcessDies(p) \/ Hold(p) \/ Assemble(p) \/ TruncateFile(p) \/ FillPart(p)
             \/ FillFile(p) \/ WriteFails(p) \/ ReadInput(p) \/ Anchor(p) \/ RenameReport(p)
      PROVE  LockInv'
  <2>1. Moves(p) /\ cmd'[p].pc # "ready"
    <3>1. CASE RawStart(p) \/ Hold(p) \/ Assemble(p)
      BY <3>1, RawStartEffect, HoldEffect, AssembleEffect DEF Base, Begins
    <3>2. CASE ProcessDies(p) \/ ReadInput(p) \/ Anchor(p) \/ RenameReport(p)
      BY <3>2, DiesEffect, ReadInputEffect, AnchorEffect, RenameReportEffect DEF Base
    <3>3. CASE FillPart(p) \/ WriteFails(p)
      <4>1. Leave # "ready"
        BY DEF Leave
      <4> QED BY <3>3, <4>1, FillPartEffect, WriteFailsEffect DEF Base
    <3>4. CASE TruncateFile(p) \/ FillFile(p)
      <4>1. cmd[p].pc \in Writing
        BY <3>4 DEF TruncateFile, FillFile, Writing
      <4>2. Head(cmd[p].todo) \in RunFiles
        BY <4>1, Todo DEF Base
      <4>3. Leave # "ready"
        BY DEF Leave
      <4> QED BY <3>4, <4>2, <4>3, TruncateEffect, FillEffect DEF Base
    <3> QED BY <1>7, <3>1, <3>2, <3>3, <3>4
  <2>2. UNCHANGED <<lock, lpc, info, seen, clock>> /\ alive' \subseteq alive
    <3>1. CASE ProcessDies(p)
      BY <3>1 DEF ProcessDies, Die
    <3>2. CASE ~ProcessDies(p)
      <4>1. UNCHANGED lockVars
        BY <1>7, <3>2 DEF RawStart, Hold, Assemble, TruncateFile, FillPart, FillFile, WriteFails, ReadInput, Anchor,
                          RenameReport
      <4> QED BY <4>1 DEF lockVars
    <3> QED BY <3>1, <3>2
  <2>3. \A q \in Procs : cmd'[q].pc \in {"idle", "ready"} => cmd[q].pc \in {"idle", "ready"}
    BY <2>1 DEF Moves
  <2> QED BY <2>2, <2>3, ElseKeeps
<1>8. CASE UNCHANGED vars
  BY <1>8, ElseKeeps DEF vars, runVars, lockVars
<1> QED BY <1>1, <1>2, <1>3, <1>4, <1>5, <1>6, <1>7, <1>8 DEF Next, PlannerStep, Command

LEMMA OrderlyIsSpec == OrderlySpec => Spec
<1>1. [Next /\ JoinsUncrowded]_vars => [Next]_vars
  OBVIOUS
<1> QED BY <1>1, PTL DEF OrderlySpec, Spec

(* The protected part of a command never runs in two processes at once:    *)
(* while it runs, the lock file names its process, as long as no report    *)
(* build joins two that contend already (lock.ts:127).                     *)
THEOREM TwoKeepTheLock == TwoProcesses => (OrderlySpec => []HolderKeepsLock)
<1> SUFFICES ASSUME TwoProcesses PROVE OrderlySpec => []HolderKeepsLock
  OBVIOUS
<1>1. Init => LockInv
  <2> SUFFICES ASSUME Init PROVE LockInv
    OBVIOUS
  <2>1. /\ lock = NoLock /\ clock = 0 /\ alive = Procs
        /\ \A p \in Procs : lpc[p] = "idle" /\ info[p] = Own(p)
    BY DEF Init, LockInit, Own
  <2>2. \A p \in Procs : Keeps(p)
    BY <2>1, OwnFacts DEF Keeps
  <2> QED BY <2>1, <2>2 DEF LockInv, Crowding
<1>2. LockInv => HolderKeepsLock
  BY DEF LockInv, Keeps, HolderKeepsLock, Holders
<1>3. Base /\ LockInv /\ [Next /\ JoinsUncrowded]_vars => LockInv'
  BY LockStep
<1> QED BY <1>1, <1>2, <1>3, BaseHolds, OrderlyIsSpec, PTL DEF OrderlySpec

(* So of two processes the run needs no hypothesis on the lock; and what   *)
(* replaces an ended ledger is a start that was past its preflight.        *)
THEOREM TwoKeepTheRun ==
  TwoProcesses => (OrderlySpec => []AnsweredRunsVerify /\ ReportsAreAnchored /\ OnlyRivalsOverwrite)
BY OrderlyIsSpec, TwoKeepTheLock, AnswersVerify, ReportsFollowLedgers, EndsArePermanent, PTL

-----------------------------------------------------------------------------
(* The signing key                                                         *)

Making == {"checking", "generating", "writing"}

KeyShaped ==
  /\ DOMAIN lpc = Procs /\ DOMAIN kpc = Procs /\ DOMAIN result = Procs
  /\ keyFile \in Procs \cup {NoKey, Partial}

(* Whoever lives and makes the key has the lock.                           *)
MakersHold == \A p \in alive \cap Procs : kpc[p] \in Making => lpc[p] = "held"

(* Nobody is handed a key before one is whole on the disk; from then on it *)
(* is the only one handed out, and nobody is about to write another.       *)
KeyKept ==
  IF keyFile \in Procs
  THEN \A p \in Procs : /\ result[p] \in {NoKey, keyFile}
                        /\ p \in alive => kpc[p] \notin {"generating", "writing"}
  ELSE \A p \in Procs : result[p] = NoKey

KeyInv == KeyShaped /\ MakersHold /\ KeyKept

-----------------------------------------------------------------------------
LEMMA KeyShapedStep == KeyShaped /\ KeyNext => KeyShaped'
BY DEF KeyNext, KeyStep, KeyExists, LoadKey, KeyMissing, TakeKeyLock, Recheck, CreateKeyFile, WriteKeyFile,
       ReleaseKeyLock, CallAgain, Die, Tick, StartAcquire, AcquireStep, Link, ReadHolder, Decide, Steal, ConfirmSteal,
       StartRelease, Unlink, Move, Enter, Read, KeyShaped, keyVars, lockVars

(* The lock of a process that makes the key is in nobody else's hands to   *)
(* give back.                                                              *)
LEMMA MakersHoldStep ==
  ASSUME KeyShaped, MakersHold, KeyNext
  PROVE  MakersHold'
<1>1. ASSUME NEW p \in Procs, TakeKeyLock(p) PROVE MakersHold'
  <2>1. /\ \A q \in Procs : q # p => kpc'[q] = kpc[q] /\ lpc'[q] = lpc[q]
        /\ kpc'[p] \in Making => lpc'[p] = "held"
        /\ alive' = alive
    BY <1>1 DEF TakeKeyLock, Enter, AcquireStep, Link, ReadHolder, Decide, Steal, ConfirmSteal, Move, KeyShaped, Making
  <2> QED BY <2>1 DEF MakersHold
<1>2. ASSUME NEW p \in Procs, KeyMissing(p) \/ ReleaseKeyLock(p) PROVE MakersHold'
  <2>1. /\ \A q \in Procs : q # p => kpc'[q] = kpc[q] /\ lpc'[q] = lpc[q]
        /\ kpc'[p] \notin Making
        /\ alive' = alive
    BY <1>2 DEF KeyMissing, ReleaseKeyLock, StartAcquire, StartRelease, Unlink, Enter, Move, KeyShaped, Making
  <2> QED BY <2>1 DEF MakersHold
<1>3. ASSUME NEW p \in Procs, KeyExists(p) \/ LoadKey(p) \/ Recheck(p) \/ CreateKeyFile(p) \/ WriteKeyFile(p) \/ CallAgain(p)
      PROVE  MakersHold'
  <2>1. /\ \A q \in Procs : q # p => kpc'[q] = kpc[q]
        /\ kpc'[p] \in Making => kpc[p] \in Making
        /\ lpc' = lpc /\ alive' = alive
    BY <1>3 DEF KeyExists, LoadKey, Recheck, CreateKeyFile, WriteKeyFile, CallAgain, In, Enter, KeyShaped, Making, lockVars
  <2> QED BY <2>1 DEF MakersHold
<1>4. ASSUME NEW p \in Procs, Die(p), UNCHANGED keyVars PROVE MakersHold'
  BY <1>4 DEF Die, keyVars, MakersHold
<1>5. ASSUME Tick, UNCHANGED keyVars PROVE MakersHold'
  BY <1>5 DEF Tick, keyVars, MakersHold
<1> QED BY <1>1, <1>2, <1>3, <1>4, <1>5 DEF KeyNext, KeyStep

(* Where the lock lets only one in, the one that writes a key is alone     *)
(* with it.                                                                *)
LEMMA KeyKeptStep ==
  ASSUME KeyAssumption, KeyInv, NoDoubleHold, KeyNext
  PROVE  KeyKept'
<1>1. NoKey \notin Procs /\ Partial \notin Procs /\ NoKey # Partial
  BY DEF KeyAssumption
<1>2. ASSUME NEW p \in Procs, WriteKeyFile(p) PROVE KeyKept'
  <2>1. /\ p \in alive /\ kpc[p] = "writing" /\ keyFile' = p /\ result'[p] = p /\ kpc'[p] = "releasing"
        /\ alive' = alive /\ \A q \in Procs : q # p => result'[q] = result[q] /\ kpc'[q] = kpc[q]
    BY <1>2 DEF WriteKeyFile, In, Enter, KeyInv, KeyShaped, lockVars
  <2>2. keyFile \notin Procs
    BY <2>1 DEF KeyInv, KeyKept
  <2>3. \A q \in Procs : q # p /\ q \in alive => kpc[q] \notin Making
    BY <2>1 DEF KeyInv, MakersHold, NoDoubleHold, Holders, Making
  <2> QED BY <2>1, <2>2, <2>3 DEF KeyInv, KeyKept, Making
<1>3. ASSUME NEW p \in Procs, CreateKeyFile(p) PROVE KeyKept'
  BY <1>1, <1>3 DEF CreateKeyFile, In, KeyInv, KeyShaped, KeyKept
<1>4. ASSUME NEW p \in Procs, LoadKey(p) \/ Recheck(p) PROVE KeyKept'
  <2>1. /\ keyFile' = keyFile /\ alive' = alive
        /\ \A q \in Procs : q # p => result'[q] = result[q] /\ kpc'[q] = kpc[q]
        /\ result'[p] \in {result[p], NoKey, keyFile} \ {Partial}
        /\ keyFile \in Procs => kpc'[p] \notin {"generating", "writing"}
    BY <1>1, <1>4 DEF LoadKey, Recheck, Read, In, Enter, KeyInv, KeyShaped, KeyKept, lockVars
  <2> QED BY <2>1 DEF KeyInv, KeyShaped, KeyKept
<1>5. ASSUME NEW p \in Procs, KeyExists(p) \/ KeyMissing(p) \/ TakeKeyLock(p) \/ ReleaseKeyLock(p) \/ CallAgain(p)
      PROVE  KeyKept'
  <2>1. /\ keyFile' = keyFile /\ alive' = alive /\ result' = result
        /\ \A q \in Procs : q # p => kpc'[q] = kpc[q]
        /\ kpc'[p] \notin {"generating", "writing"}
    BY <1>5 DEF KeyExists, KeyMissing, TakeKeyLock, ReleaseKeyLock, CallAgain, Enter, KeyInv, KeyShaped, StartAcquire,
           AcquireStep, Link, ReadHolder, Decide, Steal, ConfirmSteal, StartRelease, Unlink, lockVars
  <2> QED BY <2>1 DEF KeyInv, KeyKept
<1>6. ASSUME NEW p \in Procs, Die(p), UNCHANGED keyVars PROVE KeyKept'
  BY <1>6 DEF Die, keyVars, KeyInv, KeyKept
<1>7. ASSUME Tick, UNCHANGED keyVars PROVE KeyKept'
  BY <1>7 DEF Tick, keyVars, KeyInv, KeyKept
<1> QED BY <1>2, <1>3, <1>4, <1>5, <1>6, <1>7 DEF KeyNext, KeyStep

(* If the lock kept its promise, all processes would get the same key,     *)
(* whoever exits while it makes one, for any number of them: the second    *)
(* look under the lock is enough (keys.ts:67-84), and what breaks          *)
(* KeyAgreement is the double hold of lock.ts alone.                       *)
THEOREM OneKeyForAll == KeyAssumption => (KeySpec /\ []NoDoubleHold => []KeyAgreement)
<1> SUFFICES ASSUME KeyAssumption PROVE KeySpec /\ []NoDoubleHold => []KeyAgreement
  OBVIOUS
<1>1. KeyInit => KeyInv
  BY DEF KeyAssumption, KeyInit, LockInit, KeyInv, KeyShaped, MakersHold, KeyKept, Making
<1>2. KeyInv => KeyAgreement
  BY DEF KeyInv, KeyKept, KeyAgreement
<1>3. KeyInv /\ NoDoubleHold /\ [KeyNext]_<<lockVars, keyVars>> => KeyInv'
  <2> SUFFICES ASSUME KeyInv, NoDoubleHold, [KeyNext]_<<lockVars, keyVars>> PROVE KeyInv'
    OBVIOUS
  <2>1. CASE KeyNext
    BY <2>1, KeyShapedStep, MakersHoldStep, KeyKeptStep DEF KeyInv
  <2>2. CASE UNCHANGED <<lockVars, keyVars>>
    BY <2>2 DEF lockVars, keyVars, KeyInv, KeyShaped, MakersHold, KeyKept
  <2> QED BY <2>1, <2>2
<1> QED BY <1>1, <1>2, <1>3, PTL DEF KeySpec
=============================================================================

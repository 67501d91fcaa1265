---------------------- MODULE CompilerOutputV02Proofs ----------------------
(***************************************************************************)
(* Proofs about CompilerOutputV02, for any number of compiles, ids and     *)
(* faults.                                                                 *)
(***************************************************************************)
EXTENDS CompilerOutputV02, TLAPS

Fields == {"pc", "wants", "id", "tries", "n", "reserved", "clean", "reply", "answer"}

(* The variables are records and functions of what the actions select.     *)
Shaped ==
  /\ DOMAIN disk = {"store", "pack", "loop"} /\ DOMAIN disk.pack = Compilers
  /\ DOMAIN durable = {"store", "pack", "loop"} /\ DOMAIN durable.pack = Compilers
  /\ DOMAIN whole = Compilers
  /\ DOMAIN at = Compilers /\ \A c \in Compilers : DOMAIN at[c] = Fields

Taken == "DESTINATION_EXISTS compile-pack"
Early == {"idle", "again", "mkdir", "enter", "reserve"}
Writing == {"create", "write", "fill", "sync-loop", "sync-pack", "sync-store"}
Undoing == {"undo", "undo-pack", "sync-undone", "sync-undone-loop"}

(* The manifest has been started.                                          *)
Ending(c) == at[c].pc \in {"sync-pack", "sync-store"} \/ (at[c].pc \in {"create", "write"} /\ at[c].n = 3)

HasLoop(c) == disk.loop = c /\ durable.loop = c /\ "standalone" \in whole[c]

(* Whose the standalone file is while a compile works, and what a whole    *)
(* manifest goes with.                                                     *)
Custody(c) ==
  /\ at[c].pc \in Early => ~at[c].reserved /\ "manifest" \notin whole[c]
  /\ at[c].pc = "reply" /\ at[c].reply = Taken => ~at[c].reserved /\ "manifest" \notin whole[c]
  /\ at[c].pc \in Undoing => at[c].reply # Taken /\ "manifest" \notin whole[c]
  /\ at[c].pc \in {"create", "write", "fill", "sync-loop"} => at[c].n \in 1 .. 3 /\ "manifest" \notin whole[c]
  /\ at[c].pc \in Writing /\ at[c].wants => at[c].reserved
  /\ at[c].pc \in Writing \cup {"undo"} /\ at[c].reserved => disk.loop = c
  /\ at[c].pc = "reserve" => at[c].n = 1
  /\ at[c].pc \in {"fill", "sync-loop"} => at[c].n = 2
  /\ at[c].pc = "sync-loop" => "standalone" \in whole[c]
  /\ Ending(c) /\ at[c].wants => HasLoop(c)
  /\ "manifest" \in whole[c] /\ at[c].wants => HasLoop(c)

CustodyInv == \A c \in Compilers : Custody(c)

(* The members of a pack by name, the manifest the last.                   *)
LEMMA MembersAre ==
  /\ Last = 3 /\ Member = {"records", "loop", "manifest"}
  /\ Members[1] = "records" /\ Members[2] = "loop" /\ Members[3] = "manifest"
PROOF BY DEF Last, Member, Members

Step(c) == Prepare(c) \/ WriterChild(c) \/ Receive(c) \/ TimesOut(c)

-----------------------------------------------------------------------------
(* What going to another step does to the compiles.                        *)
LEMMA GotoShape ==
  ASSUME Shaped, NEW c \in Compilers, NEW pc, Goto(c, pc)
  PROVE  /\ DOMAIN at' = Compilers /\ \A d \in Compilers : DOMAIN at'[d] = Fields
         /\ at'[c].pc = pc
         /\ at'[c].wants = at[c].wants /\ at'[c].id = at[c].id /\ at'[c].tries = at[c].tries /\ at'[c].n = at[c].n
         /\ at'[c].reserved = at[c].reserved /\ at'[c].clean = at[c].clean /\ at'[c].reply = at[c].reply /\ at'[c].answer = at[c].answer
         /\ \A d \in Compilers : d # c => at'[d] = at[d]
BY DEF Goto, Shaped, Fields

(* What the child's reply changes: where it is, and what it says.          *)
LEMMA ReplyShape ==
  ASSUME Shaped, NEW c \in Compilers, NEW reply, Reply(c, reply)
  PROVE  /\ DOMAIN at' = Compilers /\ \A d \in Compilers : DOMAIN at'[d] = Fields
         /\ at'[c].pc = "reply" /\ at'[c].reply = reply
         /\ at'[c].wants = at[c].wants /\ at'[c].id = at[c].id /\ at'[c].tries = at[c].tries /\ at'[c].n = at[c].n
         /\ at'[c].reserved = at[c].reserved /\ at'[c].clean = at[c].clean /\ at'[c].answer = at[c].answer
         /\ \A d \in Compilers : d # c => at'[d] = at[d]
BY DEF Reply, Shaped, Fields

(* What going to the cleanup changes.                                      *)
LEMMA UndoShape ==
  ASSUME Shaped, NEW c \in Compilers, NEW n, NEW reply, Undo(c, n, reply)
  PROVE  /\ DOMAIN at' = Compilers /\ \A d \in Compilers : DOMAIN at'[d] = Fields
         /\ at'[c].pc = "undo" /\ at'[c].n = n /\ at'[c].reply = reply
         /\ at'[c].wants = at[c].wants /\ at'[c].id = at[c].id /\ at'[c].tries = at[c].tries
         /\ at'[c].reserved = at[c].reserved /\ at'[c].clean = at[c].clean /\ at'[c].answer = at[c].answer
         /\ \A d \in Compilers : d # c => at'[d] = at[d]
BY DEF Undo, Shaped, Fields

(* What an answer leaves of a compile: its id, and what it wanted.         *)
LEMMA AnswerShape ==
  ASSUME Shaped, NEW c \in Compilers, NEW answer, Answer(c, answer)
  PROVE  /\ DOMAIN at' = Compilers /\ \A d \in Compilers : DOMAIN at'[d] = Fields
         /\ at'[c].pc = "done" /\ at'[c].answer = answer /\ at'[c].id = at[c].id /\ at'[c].wants = at[c].wants
         /\ \A d \in Compilers : d # c => at'[d] = at[d]
BY DEF Answer, Idle, Shaped, Fields

(* Every step leaves the variables the functions and records they are.     *)
LEMMA ShapedStep ==
  ASSUME Shaped, [Next]_vars
  PROVE  Shaped'
<1>1. CASE UNCHANGED vars
  BY <1>1 DEF vars, Shaped
<1>2. CASE PowerLoss
  BY <1>2 DEF PowerLoss, Idle, Shaped, Fields
<1>3. ASSUME NEW c \in Compilers, Prepare(c) \/ Receive(c) \/ TimesOut(c) PROVE Shaped'
  <2>1. UNCHANGED <<disk, durable, whole>>
    BY <1>3 DEF Prepare, Receive, TimesOut, DiskStays
  <2>2. DOMAIN at' = Compilers /\ \A d \in Compilers : DOMAIN at'[d] = Fields
    BY <1>3, GotoShape, AnswerShape DEF Prepare, Receive, TimesOut, Shaped, Fields
  <2> QED BY <2>1, <2>2 DEF Shaped
<1>4. ASSUME NEW c \in Compilers, WriterChild(c) PROVE Shaped'
  <2>1. CASE MakePack(c)
    <3>1. Goto(c, "enter") \/ Reply(c, "DESTINATION_EXISTS compile-pack")
      BY <2>1 DEF MakePack
    <3>2. DOMAIN at' = Compilers /\ \A d \in Compilers : DOMAIN at'[d] = Fields
      BY <3>1, GotoShape, ReplyShape
    <3>3. disk' = disk \/ disk' = [disk EXCEPT !.store[at[c].id] = c]
      BY <2>1 DEF MakePack
    <3> QED BY <2>1, <3>2, <3>3 DEF MakePack, NamesOnly, Shaped
  <2>2. CASE EnterPack(c) BY <2>2 DEF EnterPack, DiskStays, Shaped, Fields
  <2>3. CASE Reserve(c)
    <3>1. at' = [at EXCEPT ![c].pc = "create", ![c].reserved = TRUE] \/ Undo(c, 0, "DESTINATION_EXISTS standalone-loop")
      BY <2>3 DEF Reserve
    <3>2. DOMAIN at' = Compilers /\ \A d \in Compilers : DOMAIN at'[d] = Fields
      BY <3>1, UndoShape DEF Shaped
    <3>3. disk' = disk \/ disk' = [disk EXCEPT !.loop = c]
      BY <2>3 DEF Reserve
    <3> QED BY <2>3, <3>2, <3>3 DEF Reserve, NamesOnly, Shaped
  <2>4. CASE CreateMember(c) BY <2>4, GotoShape DEF CreateMember, NamesOnly, Shaped
  <2>5. CASE WriteMember(c) BY <2>5, GotoShape DEF WriteMember, Shaped, Fields
  <2>6. CASE FillLoop(c) BY <2>6, GotoShape DEF FillLoop, Shaped
  <2>7. CASE SyncLoop(c) BY <2>7 DEF SyncLoop, Shaped, Fields
  <2>8. CASE SyncPack(c) BY <2>8, GotoShape DEF SyncPack, Shaped
  <2>9. CASE SyncStore(c) BY <2>9, ReplyShape DEF SyncStore, Shaped
  <2>10. CASE CallFails(c) BY <2>10, ReplyShape, UndoShape DEF CallFails, Shaped
  <2>11. CASE LateCallFails(c) BY <2>11, ReplyShape DEF LateCallFails, Shaped
  <2>12. CASE UndoMember(c) BY <2>12 DEF UndoMember, NamesOnly, Shaped, Fields
  <2>13. CASE UndoLoop(c) BY <2>13, GotoShape DEF UndoLoop, NamesOnly, Shaped
  <2>14. CASE UndoPack(c) BY <2>14, GotoShape DEF UndoPack, NamesOnly, Shaped, Fields
  <2>15. CASE SyncUndone(c) BY <2>15, GotoShape DEF SyncUndone, Shaped
  <2>16. CASE SyncUndoneLoop(c) BY <2>16, ReplyShape DEF SyncUndoneLoop, CleanReply, Shaped
  <2>17. CASE UndoFails(c) BY <2>17, GotoShape, ReplyShape DEF UndoFails, CleanReply, Shaped, Fields
  <2> QED
    BY <1>4, <2>1, <2>2, <2>3, <2>4, <2>5, <2>6, <2>7, <2>8, <2>9, <2>10, <2>11, <2>12, <2>13, <2>14, <2>15, <2>16, <2>17
       DEF WriterChild
<1> QED BY <1>1, <1>2, <1>3, <1>4 DEF Next

(* The custody of a compile that does nothing stays, if what it has of the *)
(* standalone file does.                                                   *)
LEMMA OthersKeepCustody ==
  ASSUME NEW d \in Compilers, Custody(d), at'[d] = at[d], whole'[d] = whole[d],
         disk.loop = d => disk'.loop = d,
         disk.loop = d /\ durable.loop = d => durable'.loop = d
  PROVE  Custody(d)'
BY DEF Custody, Ending, HasLoop

(* Every step of a compile, and a power loss, keeps the custody.           *)
LEMMA CustodyStep ==
  ASSUME Shaped, CustodyInv, [Next]_vars
  PROVE  CustodyInv'
<1> USE DEF Early, Writing, Undoing, Taken
<1>1. CASE UNCHANGED vars
  <2>1. disk' = disk /\ durable' = durable /\ whole' = whole /\ at' = at
    BY <1>1 DEF vars
  <2>2. ASSUME NEW d \in Compilers
        PROVE  Custody(d)'
    <3>1. HasLoop(d)' = HasLoop(d) /\ Ending(d)' = Ending(d)
      BY <2>1 DEF HasLoop, Ending
    <3> QED BY <2>1, <3>1 DEF CustodyInv, Custody
  <2> QED BY <2>2 DEF CustodyInv
<1>2. CASE PowerLoss
  <2> SUFFICES ASSUME NEW d \in Compilers PROVE Custody(d)'
    BY DEF CustodyInv
  <2>1. /\ disk'.loop \in {disk.loop, durable.loop} /\ durable' = disk' /\ whole' = whole
        /\ (at'[d] = at[d] /\ at[d].pc \in {"idle", "done"}) \/ (at'[d].pc = "gone" /\ at'[d].wants = at[d].wants)
    BY <1>2 DEF PowerLoss, Idle, Shaped, Fields
  <2> QED BY <2>1 DEF CustodyInv, Custody, Ending, HasLoop
<1>3. ASSUME NEW c \in Compilers, Prepare(c) PROVE CustodyInv'
  <2>0. Prepare(c) /\ Custody(c)
    BY <1>3 DEF CustodyInv
  <2>1. ASSUME NEW d \in Compilers, d # c PROVE Custody(d)'
    <3>1. at'[d] = at[d] /\ whole'[d] = whole[d]
      BY <2>0, <2>1, AnswerShape DEF Prepare, DiskStays, Shaped
    <3>2. (disk.loop = d => disk'.loop = d) /\ (disk.loop = d /\ durable.loop = d => durable'.loop = d)
      BY <2>0, <2>1, CompilerAssumption DEF Prepare, DiskStays, Shaped
    <3> QED BY <3>1, <3>2, OthersKeepCustody DEF CustodyInv
  <2>2. Custody(c)'
    <3>1. CASE Answer(c, "rejected")
      <4>1. /\ at'[c].pc = "done" /\ at'[c].wants = at[c].wants /\ disk' = disk /\ durable' = durable
            /\ whole' = whole
        BY <2>0, <3>1, AnswerShape DEF Prepare, DiskStays, Shaped, Fields
      <4> QED BY <2>0, <3>1, <4>1 DEF Custody, Ending, HasLoop, WantLoop
    <3>2. ASSUME NEW i \in Ids, at' = [at EXCEPT ![c].pc = "mkdir", ![c].id = i, ![c].tries = @ + 1] PROVE Custody(c)'
      <4>1. at'[c].pc = "mkdir" /\ at'[c].wants = at[c].wants /\ at'[c].reserved = at[c].reserved
        BY <3>2 DEF Shaped, Fields
      <4>2. at[c].pc \in {"idle", "again"} /\ disk' = disk /\ durable' = durable /\ whole' = whole
        BY <2>0 DEF Prepare, DiskStays
      <4> QED BY <2>0, <4>1, <4>2 DEF Custody, Ending, HasLoop, WantLoop
    <3> QED BY <2>0, <3>1, <3>2 DEF Prepare, Custody, Undoing
  <2> QED BY <2>1, <2>2 DEF CustodyInv
<1>4. ASSUME NEW c \in Compilers, Receive(c) PROVE CustodyInv'
  <2>0. Receive(c) /\ Custody(c)
    BY <1>4 DEF CustodyInv
  <2>1. ASSUME NEW d \in Compilers, d # c PROVE Custody(d)'
    <3>1. at'[d] = at[d] /\ whole'[d] = whole[d]
      BY <2>0, <2>1, AnswerShape DEF Receive, DiskStays, Shaped
    <3>2. (disk.loop = d => disk'.loop = d) /\ (disk.loop = d /\ durable.loop = d => durable'.loop = d)
      BY <2>0, <2>1, CompilerAssumption DEF Receive, DiskStays, Shaped
    <3> QED BY <3>1, <3>2, OthersKeepCustody DEF CustodyInv
  <2>2. Custody(c)'
    <3>1. CASE at[c].reply = Taken /\ at[c].tries < MaxAttempts
      <4>1. at' = [at EXCEPT ![c].pc = "again", ![c].reply = "none"]
        BY <2>0, <3>1 DEF Receive
      <4>2. at'[c].pc = "again" /\ at'[c].wants = at[c].wants /\ at'[c].reserved = at[c].reserved
        BY <4>1 DEF Shaped, Fields
      <4>3. at[c].pc = "reply" /\ disk' = disk /\ durable' = durable /\ whole' = whole
        BY <2>0 DEF Receive, DiskStays
      <4> QED BY <2>0, <3>1, <4>2, <4>3 DEF Custody, Ending, HasLoop, WantLoop
    <3>2. CASE ~(at[c].reply = Taken /\ at[c].tries < MaxAttempts)
      <4>1. /\ at'[c].pc = "done" /\ at'[c].wants = at[c].wants /\ disk' = disk /\ durable' = durable
            /\ whole' = whole
        BY <2>0, <3>2, AnswerShape DEF Receive, DiskStays, Shaped, Fields, Taken
      <4> QED BY <2>0, <3>2, <4>1 DEF Custody, Ending, HasLoop, WantLoop
    <3> QED BY <2>0, <3>1, <3>2 DEF Receive, Custody, Undoing
  <2> QED BY <2>1, <2>2 DEF CustodyInv
<1>5. ASSUME NEW c \in Compilers, TimesOut(c) PROVE CustodyInv'
  <2>0. TimesOut(c) /\ Custody(c)
    BY <1>5 DEF CustodyInv
  <2>1. ASSUME NEW d \in Compilers, d # c PROVE Custody(d)'
    <3>1. at'[d] = at[d] /\ whole'[d] = whole[d]
      BY <2>0, <2>1, AnswerShape DEF TimesOut, DiskStays
    <3>2. (disk.loop = d => disk'.loop = d) /\ (disk.loop = d /\ durable.loop = d => durable'.loop = d)
      BY <2>0, <2>1, CompilerAssumption DEF TimesOut, DiskStays
    <3> QED BY <3>1, <3>2, OthersKeepCustody DEF CustodyInv
  <2>2. /\ at'[c].pc = "done" /\ at'[c].wants = at[c].wants /\ disk' = disk /\ durable' = durable
        /\ whole' = whole
    BY <2>0, AnswerShape DEF TimesOut, DiskStays
  <2>3. Custody(c)'
    BY <2>0, <2>2 DEF Custody, Ending, HasLoop
  <2> QED BY <2>1, <2>3 DEF CustodyInv
<1>6. ASSUME NEW c \in Compilers, MakePack(c) PROVE CustodyInv'
  <2>0. MakePack(c) /\ Custody(c)
    BY <1>6 DEF CustodyInv
  <2>1. ASSUME NEW d \in Compilers, d # c PROVE Custody(d)'
    <3>1. at'[d] = at[d] /\ whole'[d] = whole[d]
      <4>1. Goto(c, "enter") \/ Reply(c, Taken)
        BY <2>0 DEF MakePack
      <4>2. at'[d] = at[d]
        BY <2>1, <4>1, GotoShape, ReplyShape
      <4> QED BY <2>0, <4>2 DEF MakePack, NamesOnly
    <3>2. (disk.loop = d => disk'.loop = d) /\ (disk.loop = d /\ durable.loop = d => durable'.loop = d)
      BY <2>0, <2>1, CompilerAssumption DEF MakePack, NamesOnly, Shaped
    <3> QED BY <3>1, <3>2, OthersKeepCustody DEF CustodyInv
  <2>2. Custody(c)'
    <3>1. CASE disk.store[at[c].id] = None
      <4>1. /\ at[c].pc = "mkdir" /\ at'[c].pc = "enter" /\ at'[c].wants = at[c].wants
            /\ at'[c].reserved = at[c].reserved /\ disk'.loop = disk.loop /\ durable' = durable
            /\ whole' = whole
        BY <2>0, <3>1, GotoShape, ReplyShape DEF MakePack, NamesOnly, Taken, Shaped
      <4> QED BY <2>0, <3>1, <4>1 DEF Custody, Ending, HasLoop, WantLoop
    <3>2. CASE disk.store[at[c].id] # None
      <4>1. /\ at[c].pc = "mkdir" /\ at'[c].pc = "reply" /\ at'[c].wants = at[c].wants
            /\ at'[c].reserved = at[c].reserved /\ disk'.loop = disk.loop /\ durable' = durable
            /\ whole' = whole
        BY <2>0, <3>2, GotoShape, ReplyShape DEF MakePack, NamesOnly, Taken, Shaped
      <4> QED BY <2>0, <3>2, <4>1 DEF Custody, Ending, HasLoop, WantLoop
    <3> QED BY <2>0, <3>1, <3>2 DEF MakePack, Custody, Undoing
  <2> QED BY <2>1, <2>2 DEF CustodyInv
<1>7. ASSUME NEW c \in Compilers, EnterPack(c) PROVE CustodyInv'
  <2>0. EnterPack(c) /\ Custody(c)
    BY <1>7 DEF CustodyInv
  <2>1. ASSUME NEW d \in Compilers, d # c PROVE Custody(d)'
    <3>1. at'[d] = at[d] /\ whole'[d] = whole[d]
      BY <2>0, <2>1 DEF EnterPack, DiskStays, WantLoop, Shaped
    <3>2. (disk.loop = d => disk'.loop = d) /\ (disk.loop = d /\ durable.loop = d => durable'.loop = d)
      BY <2>0, <2>1, CompilerAssumption DEF EnterPack, DiskStays, WantLoop, Shaped
    <3> QED BY <3>1, <3>2, OthersKeepCustody DEF CustodyInv
  <2>2. Custody(c)'
    <3>1. CASE c \in WantLoop
      <4>1. /\ at[c].pc = "enter" /\ at'[c].pc = "reserve" /\ at'[c].wants = at[c].wants
            /\ at'[c].reserved = at[c].reserved /\ at'[c].n = 1 /\ disk' = disk /\ durable' = durable
            /\ whole' = whole
        BY <2>0, <3>1 DEF EnterPack, DiskStays, WantLoop, Shaped, Fields
      <4> QED BY <2>0, <3>1, <4>1 DEF Custody, Ending, HasLoop, WantLoop
    <3>2. CASE c \notin WantLoop
      <4>1. /\ at[c].pc = "enter" /\ ~at[c].wants /\ at'[c].pc = "create" /\ at'[c].wants = at[c].wants
            /\ at'[c].reserved = at[c].reserved /\ at'[c].n = 1 /\ disk' = disk /\ durable' = durable
            /\ whole' = whole
        BY <2>0, <3>2 DEF EnterPack, DiskStays, WantLoop, Shaped, Fields
      <4> QED BY <2>0, <3>2, <4>1 DEF Custody, Ending, HasLoop, WantLoop
    <3> QED BY <2>0, <3>1, <3>2 DEF EnterPack, Custody, Undoing
  <2> QED BY <2>1, <2>2 DEF CustodyInv
<1>8. ASSUME NEW c \in Compilers, Reserve(c) PROVE CustodyInv'
  <2>0. Reserve(c) /\ Custody(c)
    BY <1>8 DEF CustodyInv
  <2>1. ASSUME NEW d \in Compilers, d # c PROVE Custody(d)'
    <3>1. at'[d] = at[d] /\ whole'[d] = whole[d]
      <4>1. at' = [at EXCEPT ![c].pc = "create", ![c].reserved = TRUE] \/ Undo(c, 0, "DESTINATION_EXISTS standalone-loop")
        BY <2>0 DEF Reserve
      <4>2. at'[d] = at[d]
        BY <2>1, <4>1, UndoShape DEF Shaped
      <4> QED BY <2>0, <4>2 DEF Reserve, NamesOnly
    <3>2. (disk.loop = d => disk'.loop = d) /\ (disk.loop = d /\ durable.loop = d => durable'.loop = d)
      BY <2>0, <2>1, CompilerAssumption DEF Reserve, NamesOnly, Shaped
    <3> QED BY <3>1, <3>2, OthersKeepCustody DEF CustodyInv
  <2>2. Custody(c)'
    <3>1. CASE disk.loop = None
      <4>1. /\ at[c].pc = "reserve" /\ disk' = [disk EXCEPT !.loop = c] /\ durable' = durable /\ whole' = whole
            /\ at' = [at EXCEPT ![c].pc = "create", ![c].reserved = TRUE]
        BY <2>0, <3>1 DEF Reserve, NamesOnly
      <4>2. at'[c].pc = "create" /\ at'[c].wants = at[c].wants /\ at'[c].n = at[c].n /\ disk'.loop = c
        BY <4>1 DEF Shaped, Fields
      <4>3. at'[c].reserved
        BY <4>1 DEF Shaped, Fields
      <4>4. at[c].pc = "reserve" /\ durable' = durable /\ whole' = whole
        BY <4>1
      <4> QED BY <2>0, <4>2, <4>3, <4>4 DEF Custody, Ending, HasLoop
    <3>2. CASE disk.loop # None
      <4>1. /\ at[c].pc = "reserve"
            /\ at'[c].pc = "undo" /\ at'[c].reply = "DESTINATION_EXISTS standalone-loop"
            /\ at'[c].wants = at[c].wants /\ at'[c].reserved = at[c].reserved /\ disk' = disk
            /\ durable' = durable /\ whole' = whole
        <5>1. /\ Undo(c, 0, "DESTINATION_EXISTS standalone-loop") /\ at[c].pc = "reserve"
              /\ disk' = disk /\ durable' = durable /\ whole' = whole
          BY <2>0, <3>2 DEF Reserve, NamesOnly
        <5>2. ASSUME NEW reply, Undo(c, 0, reply)
              PROVE  /\ at'[c].pc = "undo" /\ at'[c].reply = reply
                     /\ at'[c].wants = at[c].wants /\ at'[c].reserved = at[c].reserved
          BY <5>2, UndoShape
        <5> QED BY <5>1, <5>2
      <4> QED BY <2>0, <3>2, <4>1 DEF Custody, Ending, HasLoop, WantLoop
    <3> QED BY <2>0, <3>1, <3>2 DEF Reserve, Custody, Undoing
  <2> QED BY <2>1, <2>2 DEF CustodyInv
<1>9. ASSUME NEW c \in Compilers, CreateMember(c) PROVE CustodyInv'
  <2>0. CreateMember(c) /\ Custody(c)
    BY <1>9 DEF CustodyInv
  <2>1. ASSUME NEW d \in Compilers, d # c PROVE Custody(d)'
    <3>1. at'[d] = at[d] /\ whole'[d] = whole[d]
      BY <2>0, <2>1, GotoShape DEF CreateMember, NamesOnly, Shaped
    <3>2. (disk.loop = d => disk'.loop = d) /\ (disk.loop = d /\ durable.loop = d => durable'.loop = d)
      BY <2>0, <2>1, CompilerAssumption DEF CreateMember, NamesOnly, Shaped
    <3> QED BY <3>1, <3>2, OthersKeepCustody DEF CustodyInv
  <2>2. /\ at[c].pc = "create" /\ at'[c].pc = "write" /\ at'[c].wants = at[c].wants
        /\ at'[c].reserved = at[c].reserved /\ at'[c].n = at[c].n /\ disk'.loop = disk.loop
        /\ durable' = durable /\ whole' = whole
    BY <2>0, GotoShape DEF CreateMember, NamesOnly, Shaped
  <2>3. Custody(c)'
    BY <2>0, <2>2 DEF Custody, Ending, HasLoop
  <2> QED BY <2>1, <2>3 DEF CustodyInv
<1>10. ASSUME NEW c \in Compilers, WriteMember(c) PROVE CustodyInv'
  <2>0. WriteMember(c) /\ Custody(c)
    BY <1>10 DEF CustodyInv
  <2>1. ASSUME NEW d \in Compilers, d # c PROVE Custody(d)'
    <3>1. at'[d] = at[d] /\ whole'[d] = whole[d]
      BY <2>0, <2>1, GotoShape DEF WriteMember, WantLoop, Shaped
    <3>2. (disk.loop = d => disk'.loop = d) /\ (disk.loop = d /\ durable.loop = d => durable'.loop = d)
      BY <2>0, <2>1, CompilerAssumption DEF WriteMember, WantLoop, Shaped
    <3> QED BY <3>1, <3>2, OthersKeepCustody DEF CustodyInv
  <2>2. Custody(c)'
    <3>1. CASE at[c].n = 3
      <4>1. /\ at[c].pc = "write" /\ at'[c].pc = "sync-pack" /\ at'[c].wants = at[c].wants
            /\ at'[c].reserved = at[c].reserved /\ at'[c].n = at[c].n /\ disk' = disk
            /\ durable' = durable /\ whole'[c] = whole[c] \cup {"manifest"}
        BY <2>0, <3>1, GotoShape, MembersAre DEF WriteMember, WantLoop, Shaped, Fields, Custody
      <4> QED BY <2>0, <3>1, <4>1, MembersAre DEF Custody, Ending, HasLoop, WantLoop
    <3>2. CASE at[c].n = 2 /\ c \in WantLoop
      <4>1. /\ at[c].pc = "write" /\ at'[c].pc = "fill" /\ at'[c].wants = at[c].wants
            /\ at'[c].reserved = at[c].reserved /\ at'[c].n = at[c].n /\ disk' = disk
            /\ durable' = durable /\ whole'[c] = whole[c] \cup {"loop"}
        BY <2>0, <3>2, GotoShape, MembersAre DEF WriteMember, WantLoop, Shaped, Fields, Custody
      <4> QED BY <2>0, <3>2, <4>1, MembersAre DEF Custody, Ending, HasLoop, WantLoop
    <3>3. CASE at[c].n = 2 /\ c \notin WantLoop
      <4>1. /\ at[c].pc = "write" /\ ~at[c].wants /\ at'[c].pc = "create" /\ at'[c].wants = at[c].wants
            /\ at'[c].reserved = at[c].reserved /\ at'[c].n = 3 /\ disk' = disk /\ durable' = durable
            /\ whole'[c] = whole[c] \cup {"loop"}
        BY <2>0, <3>3, GotoShape, MembersAre DEF WriteMember, WantLoop, Shaped, Fields, Custody
      <4> QED BY <2>0, <3>3, <4>1, MembersAre DEF Custody, Ending, HasLoop, WantLoop
    <3>4. CASE at[c].n = 1
      <4>1. /\ at[c].pc = "write" /\ at'[c].pc = "create" /\ at'[c].wants = at[c].wants
            /\ at'[c].reserved = at[c].reserved /\ at'[c].n = 2 /\ disk' = disk /\ durable' = durable
            /\ whole'[c] = whole[c] \cup {"records"}
        BY <2>0, <3>4, GotoShape, MembersAre DEF WriteMember, WantLoop, Shaped, Fields, Custody
      <4> QED BY <2>0, <3>4, <4>1, MembersAre DEF Custody, Ending, HasLoop, WantLoop
    <3>5. at[c].n \in 1 .. 3
      BY <2>0 DEF WriteMember, Custody
    <3> QED BY <3>1, <3>2, <3>3, <3>4, <3>5
  <2> QED BY <2>1, <2>2 DEF CustodyInv
<1>11. ASSUME NEW c \in Compilers, FillLoop(c) PROVE CustodyInv'
  <2>0. FillLoop(c) /\ Custody(c)
    BY <1>11 DEF CustodyInv
  <2>1. ASSUME NEW d \in Compilers, d # c PROVE Custody(d)'
    <3>1. at'[d] = at[d] /\ whole'[d] = whole[d]
      BY <2>0, <2>1, GotoShape DEF FillLoop, Shaped
    <3>2. (disk.loop = d => disk'.loop = d) /\ (disk.loop = d /\ durable.loop = d => durable'.loop = d)
      BY <2>0, <2>1, CompilerAssumption DEF FillLoop, Shaped
    <3> QED BY <3>1, <3>2, OthersKeepCustody DEF CustodyInv
  <2>2. /\ at[c].pc = "fill" /\ at'[c].pc = "sync-loop" /\ at'[c].wants = at[c].wants
        /\ at'[c].reserved = at[c].reserved /\ at'[c].n = at[c].n /\ disk' = disk
        /\ durable' = durable /\ whole'[c] = whole[c] \cup {"standalone"}
    BY <2>0, GotoShape DEF FillLoop, Shaped
  <2>3. Custody(c)'
    BY <2>0, <2>2 DEF Custody, Ending, HasLoop
  <2> QED BY <2>1, <2>3 DEF CustodyInv
<1>12. ASSUME NEW c \in Compilers, SyncLoop(c) PROVE CustodyInv'
  <2>0. SyncLoop(c) /\ Custody(c)
    BY <1>12 DEF CustodyInv
  <2>1. ASSUME NEW d \in Compilers, d # c PROVE Custody(d)'
    <3>1. at'[d] = at[d] /\ whole'[d] = whole[d]
      BY <2>0, <2>1 DEF SyncLoop, Shaped
    <3>2. (disk.loop = d => disk'.loop = d) /\ (disk.loop = d /\ durable.loop = d => durable'.loop = d)
      BY <2>0, <2>1, CompilerAssumption DEF SyncLoop, Shaped
    <3> QED BY <3>1, <3>2, OthersKeepCustody DEF CustodyInv
  <2>2. /\ at[c].pc = "sync-loop" /\ at'[c].pc = "create" /\ at'[c].wants = at[c].wants
        /\ at'[c].reserved = at[c].reserved /\ at'[c].n = 3 /\ disk' = disk
        /\ durable'.loop = disk.loop /\ whole' = whole
    BY <2>0, MembersAre DEF SyncLoop, Shaped, Fields
  <2>3. Custody(c)'
    BY <2>0, <2>2 DEF Custody, Ending, HasLoop
  <2> QED BY <2>1, <2>3 DEF CustodyInv
<1>13. ASSUME NEW c \in Compilers, SyncPack(c) PROVE CustodyInv'
  <2>0. SyncPack(c) /\ Custody(c)
    BY <1>13 DEF CustodyInv
  <2>1. ASSUME NEW d \in Compilers, d # c PROVE Custody(d)'
    <3>1. at'[d] = at[d] /\ whole'[d] = whole[d]
      BY <2>0, <2>1, GotoShape DEF SyncPack, Shaped
    <3>2. (disk.loop = d => disk'.loop = d) /\ (disk.loop = d /\ durable.loop = d => durable'.loop = d)
      BY <2>0, <2>1, CompilerAssumption DEF SyncPack, Shaped
    <3> QED BY <3>1, <3>2, OthersKeepCustody DEF CustodyInv
  <2>2. /\ at[c].pc = "sync-pack" /\ at'[c].pc = "sync-store" /\ at'[c].wants = at[c].wants
        /\ at'[c].reserved = at[c].reserved /\ at'[c].n = at[c].n /\ disk' = disk
        /\ durable'.loop = durable.loop /\ whole' = whole
    BY <2>0, GotoShape DEF SyncPack, Shaped
  <2>3. Custody(c)'
    BY <2>0, <2>2 DEF Custody, Ending, HasLoop
  <2> QED BY <2>1, <2>3 DEF CustodyInv
<1>14. ASSUME NEW c \in Compilers, SyncStore(c) PROVE CustodyInv'
  <2>0. SyncStore(c) /\ Custody(c)
    BY <1>14 DEF CustodyInv
  <2>1. ASSUME NEW d \in Compilers, d # c PROVE Custody(d)'
    <3>1. at'[d] = at[d] /\ whole'[d] = whole[d]
      BY <2>0, <2>1, ReplyShape DEF SyncStore, Shaped
    <3>2. (disk.loop = d => disk'.loop = d) /\ (disk.loop = d /\ durable.loop = d => durable'.loop = d)
      BY <2>0, <2>1, CompilerAssumption DEF SyncStore, Shaped
    <3> QED BY <3>1, <3>2, OthersKeepCustody DEF CustodyInv
  <2>2. /\ at[c].pc = "sync-store" /\ at'[c].pc = "reply" /\ at'[c].reply = "ok"
        /\ at'[c].wants = at[c].wants /\ at'[c].reserved = at[c].reserved /\ at'[c].n = at[c].n
        /\ disk' = disk /\ durable'.loop = durable.loop /\ whole' = whole
    BY <2>0, ReplyShape DEF SyncStore, Shaped
  <2>3. Custody(c)'
    BY <2>0, <2>2 DEF Custody, Ending, HasLoop
  <2> QED BY <2>1, <2>3 DEF CustodyInv
<1>15. ASSUME NEW c \in Compilers, CallFails(c) PROVE CustodyInv'
  <2>0. CallFails(c) /\ Custody(c)
    BY <1>15 DEF CustodyInv
  <2>1. ASSUME NEW d \in Compilers, d # c PROVE Custody(d)'
    <3>1. at'[d] = at[d] /\ whole'[d] = whole[d]
      BY <2>0, <2>1, ReplyShape, UndoShape DEF CallFails, Shaped
    <3>2. (disk.loop = d => disk'.loop = d) /\ (disk.loop = d /\ durable.loop = d => durable'.loop = d)
      BY <2>0, <2>1, CompilerAssumption DEF CallFails, Shaped
    <3> QED BY <3>1, <3>2, OthersKeepCustody DEF CustodyInv
  <2>2. \E reply \in {"IO_DURABILITY_UNCONFIRMED", "IO_IDENTITY_MISMATCH"} :
          Reply(c, reply) \/ \E n : Undo(c, n, reply)
    BY <2>0 DEF CallFails
  <2>3. /\ at'[c].pc \in {"undo", "reply"} /\ at'[c].reply # Taken /\ at'[c].wants = at[c].wants
        /\ at'[c].reserved = at[c].reserved
    <3>1. PICK reply \in {"IO_DURABILITY_UNCONFIRMED", "IO_IDENTITY_MISMATCH"} :
            Reply(c, reply) \/ \E n : Undo(c, n, reply)
      BY <2>2
    <3>2. CASE Reply(c, reply)
      BY <3>2, ReplyShape
    <3>3. ASSUME NEW n, Undo(c, n, reply) PROVE /\ at'[c].pc \in {"undo", "reply"} /\ at'[c].reply # Taken
                                                     /\ at'[c].wants = at[c].wants /\ at'[c].reserved = at[c].reserved
      <4>1. at'[c].pc = "undo" /\ at'[c].reply = reply /\ at'[c].wants = at[c].wants /\ at'[c].reserved = at[c].reserved
        BY <3>3, UndoShape
      <4> QED BY <4>1
    <3> QED BY <3>1, <3>2, <3>3
  <2>4. /\ at[c].pc \in {"mkdir", "enter", "reserve", "create", "write", "fill", "sync-loop"}
        /\ durable' = durable /\ whole' = whole
        /\ (disk'.loop = disk.loop \/ (disk.loop = None /\ at[c].pc = "reserve"))
    <3>1. \/ disk' = disk
          \/ disk' = [disk EXCEPT !.pack[c] = @ \cup {Members[at[c].n]}]
          \/ disk.loop = None /\ at[c].pc = "reserve"
      BY <2>0 DEF CallFails
    <3>2. disk'.loop = disk.loop \/ (disk.loop = None /\ at[c].pc = "reserve")
      BY <3>1 DEF Shaped
    <3> QED BY <2>0, <3>2 DEF CallFails
  <2>5. ~Ending(c)
    BY <2>0, MembersAre DEF CallFails, Ending
  <2>6. Custody(c)'
    BY <2>0, <2>3, <2>4, <2>5 DEF Custody, Ending, HasLoop
  <2> QED BY <2>1, <2>6 DEF CustodyInv
<1>16. ASSUME NEW c \in Compilers, LateCallFails(c) PROVE CustodyInv'
  <2>0. LateCallFails(c) /\ Custody(c)
    BY <1>16 DEF CustodyInv
  <2>1. ASSUME NEW d \in Compilers, d # c PROVE Custody(d)'
    <3>1. at'[d] = at[d] /\ whole'[d] = whole[d]
      BY <2>0, <2>1, ReplyShape DEF LateCallFails, Shaped
    <3>2. (disk.loop = d => disk'.loop = d) /\ (disk.loop = d /\ durable.loop = d => durable'.loop = d)
      BY <2>0, <2>1, CompilerAssumption DEF LateCallFails, Shaped
    <3> QED BY <3>1, <3>2, OthersKeepCustody DEF CustodyInv
  <2>2. /\ ((at[c].pc \in {"create", "write"} /\ at[c].n = 3) \/ at[c].pc \in {"sync-pack", "sync-store"})
        /\ at'[c].pc = "reply" /\ at'[c].reply = "IO_DURABILITY_UNCONFIRMED"
        /\ at'[c].wants = at[c].wants /\ at'[c].reserved = at[c].reserved /\ disk'.loop = disk.loop
        /\ durable' = durable /\ whole' = whole
    BY <2>0, ReplyShape, MembersAre DEF LateCallFails, Shaped
  <2>3. Custody(c)'
    BY <2>0, <2>2 DEF Custody, Ending, HasLoop
  <2> QED BY <2>1, <2>3 DEF CustodyInv
<1>17. ASSUME NEW c \in Compilers, UndoMember(c) PROVE CustodyInv'
  <2>0. UndoMember(c) /\ Custody(c)
    BY <1>17 DEF CustodyInv
  <2>1. ASSUME NEW d \in Compilers, d # c PROVE Custody(d)'
    <3>1. at'[d] = at[d] /\ whole'[d] = whole[d]
      BY <2>0, <2>1 DEF UndoMember, NamesOnly, Shaped
    <3>2. (disk.loop = d => disk'.loop = d) /\ (disk.loop = d /\ durable.loop = d => durable'.loop = d)
      BY <2>0, <2>1, CompilerAssumption DEF UndoMember, NamesOnly, Shaped
    <3> QED BY <3>1, <3>2, OthersKeepCustody DEF CustodyInv
  <2>2. /\ at[c].pc = "undo" /\ at'[c].pc = "undo" /\ at'[c].reply = at[c].reply
        /\ at'[c].wants = at[c].wants /\ at'[c].reserved = at[c].reserved /\ disk'.loop = disk.loop
        /\ durable' = durable /\ whole' = whole
    BY <2>0 DEF UndoMember, NamesOnly, Shaped, Fields
  <2>3. Custody(c)'
    BY <2>0, <2>2 DEF Custody, Ending, HasLoop
  <2> QED BY <2>1, <2>3 DEF CustodyInv
<1>18. ASSUME NEW c \in Compilers, UndoLoop(c) PROVE CustodyInv'
  <2>0. UndoLoop(c) /\ Custody(c)
    BY <1>18 DEF CustodyInv
  <2>1. ASSUME NEW d \in Compilers, d # c PROVE Custody(d)'
    <3>1. at'[d] = at[d] /\ whole'[d] = whole[d]
      BY <2>0, <2>1, GotoShape DEF UndoLoop, NamesOnly, Shaped
    <3>2. (disk.loop = d => disk'.loop = d) /\ (disk.loop = d /\ durable.loop = d => durable'.loop = d)
      BY <2>0, <2>1, CompilerAssumption DEF UndoLoop, NamesOnly, Shaped, Custody
    <3> QED BY <3>1, <3>2, OthersKeepCustody DEF CustodyInv
  <2>2. /\ at[c].pc = "undo" /\ at'[c].pc = "undo-pack" /\ at'[c].reply = at[c].reply
        /\ at'[c].wants = at[c].wants /\ at'[c].reserved = at[c].reserved /\ durable' = durable
        /\ whole' = whole
    BY <2>0, GotoShape DEF UndoLoop, NamesOnly, Shaped
  <2>3. Custody(c)'
    BY <2>0, <2>2 DEF Custody, Ending, HasLoop
  <2> QED BY <2>1, <2>3 DEF CustodyInv
<1>19. ASSUME NEW c \in Compilers, UndoPack(c) PROVE CustodyInv'
  <2>0. UndoPack(c) /\ Custody(c)
    BY <1>19 DEF CustodyInv
  <2>1. ASSUME NEW d \in Compilers, d # c PROVE Custody(d)'
    <3>1. at'[d] = at[d] /\ whole'[d] = whole[d]
      BY <2>0, <2>1, GotoShape DEF UndoPack, NamesOnly, Shaped
    <3>2. (disk.loop = d => disk'.loop = d) /\ (disk.loop = d /\ durable.loop = d => durable'.loop = d)
      BY <2>0, <2>1, CompilerAssumption DEF UndoPack, NamesOnly, Shaped
    <3> QED BY <3>1, <3>2, OthersKeepCustody DEF CustodyInv
  <2>2. /\ at[c].pc = "undo-pack" /\ at'[c].pc \in {"sync-undone", "sync-undone-loop"}
        /\ at'[c].reply = at[c].reply /\ at'[c].wants = at[c].wants
        /\ at'[c].reserved = at[c].reserved /\ durable' = durable /\ whole' = whole
    BY <2>0, GotoShape DEF UndoPack, NamesOnly, Shaped, Fields
  <2>3. Custody(c)'
    BY <2>0, <2>2 DEF Custody, Ending, HasLoop
  <2> QED BY <2>1, <2>3 DEF CustodyInv
<1>20. ASSUME NEW c \in Compilers, SyncUndone(c) PROVE CustodyInv'
  <2>0. SyncUndone(c) /\ Custody(c)
    BY <1>20 DEF CustodyInv
  <2>1. ASSUME NEW d \in Compilers, d # c PROVE Custody(d)'
    <3>1. at'[d] = at[d] /\ whole'[d] = whole[d]
      BY <2>0, <2>1, GotoShape DEF SyncUndone, Shaped
    <3>2. (disk.loop = d => disk'.loop = d) /\ (disk.loop = d /\ durable.loop = d => durable'.loop = d)
      BY <2>0, <2>1, CompilerAssumption DEF SyncUndone, Shaped
    <3> QED BY <3>1, <3>2, OthersKeepCustody DEF CustodyInv
  <2>2. /\ at[c].pc = "sync-undone" /\ at'[c].pc = "sync-undone-loop" /\ at'[c].reply = at[c].reply
        /\ at'[c].wants = at[c].wants /\ at'[c].reserved = at[c].reserved /\ disk' = disk
        /\ whole' = whole
    BY <2>0, GotoShape DEF SyncUndone, Shaped
  <2>3. Custody(c)'
    BY <2>0, <2>2 DEF Custody, Ending, HasLoop
  <2> QED BY <2>1, <2>3 DEF CustodyInv
<1>21. ASSUME NEW c \in Compilers, SyncUndoneLoop(c) PROVE CustodyInv'
  <2>0. SyncUndoneLoop(c) /\ Custody(c)
    BY <1>21 DEF CustodyInv
  <2>1. ASSUME NEW d \in Compilers, d # c PROVE Custody(d)'
    <3>1. at'[d] = at[d] /\ whole'[d] = whole[d]
      BY <2>0, <2>1, ReplyShape DEF SyncUndoneLoop, CleanReply, Shaped
    <3>2. (disk.loop = d => disk'.loop = d) /\ (disk.loop = d /\ durable.loop = d => durable'.loop = d)
      BY <2>0, <2>1, CompilerAssumption DEF SyncUndoneLoop, CleanReply, Shaped
    <3> QED BY <3>1, <3>2, OthersKeepCustody DEF CustodyInv
  <2>2. Custody(c)'
    <3>1. CASE at[c].clean
      <4>1. /\ at[c].pc = "sync-undone-loop" /\ at'[c].pc = "reply" /\ at'[c].reply = at[c].reply
            /\ at'[c].wants = at[c].wants /\ at'[c].reserved = at[c].reserved /\ disk' = disk
            /\ whole' = whole
        BY <2>0, <3>1, ReplyShape DEF SyncUndoneLoop, CleanReply, Shaped
      <4> QED BY <2>0, <3>1, <4>1 DEF Custody, Ending, HasLoop, WantLoop
    <3>2. CASE ~at[c].clean
      <4>1. /\ at[c].pc = "sync-undone-loop" /\ at'[c].pc = "reply"
            /\ at'[c].reply = "IO_DURABILITY_UNCONFIRMED" /\ at'[c].wants = at[c].wants
            /\ at'[c].reserved = at[c].reserved /\ disk' = disk /\ whole' = whole
        BY <2>0, <3>2, ReplyShape DEF SyncUndoneLoop, CleanReply, Shaped
      <4> QED BY <2>0, <3>2, <4>1 DEF Custody, Ending, HasLoop, WantLoop
    <3> QED BY <2>0, <3>1, <3>2 DEF SyncUndoneLoop, Custody, Undoing
  <2> QED BY <2>1, <2>2 DEF CustodyInv
<1>22. ASSUME NEW c \in Compilers, UndoFails(c) PROVE CustodyInv'
  <2>0. UndoFails(c) /\ Custody(c)
    BY <1>22 DEF CustodyInv
  <2>1. ASSUME NEW d \in Compilers, d # c PROVE Custody(d)'
    <3>1. at'[d] = at[d] /\ whole'[d] = whole[d]
      BY <2>0, <2>1, ReplyShape, GotoShape DEF UndoFails, CleanReply, Shaped
    <3>2. (disk.loop = d => disk'.loop = d) /\ (disk.loop = d /\ durable.loop = d => durable'.loop = d)
      BY <2>0, <2>1, CompilerAssumption DEF UndoFails, CleanReply, Shaped
    <3> QED BY <3>1, <3>2, OthersKeepCustody DEF CustodyInv
  <2>2. Custody(c)'
    <3>1. CASE at[c].pc = "sync-undone-loop"
      <4>1. /\ at'[c].pc = "reply" /\ at'[c].reply = "IO_DURABILITY_UNCONFIRMED"
            /\ at'[c].wants = at[c].wants /\ at'[c].reserved = at[c].reserved /\ disk' = disk
            /\ durable' = durable /\ whole' = whole
        BY <2>0, <3>1, ReplyShape, GotoShape DEF UndoFails, CleanReply, Shaped, Fields
      <4> QED BY <2>0, <3>1, <4>1 DEF Custody, Ending, HasLoop, WantLoop
    <3>2. CASE at[c].pc \in {"undo-pack", "sync-undone"}
      <4>1. /\ at'[c].pc = "sync-undone-loop" /\ at'[c].reply = at[c].reply
            /\ at'[c].wants = at[c].wants /\ at'[c].reserved = at[c].reserved /\ disk' = disk
            /\ durable' = durable /\ whole' = whole
        BY <2>0, <3>2, ReplyShape, GotoShape DEF UndoFails, CleanReply, Shaped, Fields
      <4> QED BY <2>0, <3>2, <4>1 DEF Custody, Ending, HasLoop, WantLoop
    <3>3. CASE at[c].pc = "undo" /\ at[c].n > 0
      <4>1. /\ at'[c].pc = "undo" /\ at'[c].reply = at[c].reply /\ at'[c].wants = at[c].wants
            /\ at'[c].reserved = at[c].reserved /\ disk' = disk /\ durable' = durable /\ whole' = whole
        BY <2>0, <3>3, ReplyShape, GotoShape DEF UndoFails, CleanReply, Shaped, Fields
      <4> QED BY <2>0, <3>3, <4>1 DEF Custody, Ending, HasLoop, WantLoop
    <3>4. CASE at[c].pc = "undo" /\ ~(at[c].n > 0)
      <4>1. /\ at'[c].pc = "undo-pack" /\ at'[c].reply = at[c].reply /\ at'[c].wants = at[c].wants
            /\ at'[c].reserved = at[c].reserved /\ disk' = disk /\ durable' = durable /\ whole' = whole
        BY <2>0, <3>4, ReplyShape, GotoShape DEF UndoFails, CleanReply, Shaped, Fields
      <4> QED BY <2>0, <3>4, <4>1 DEF Custody, Ending, HasLoop, WantLoop
    <3> QED BY <2>0, <3>1, <3>2, <3>3, <3>4 DEF UndoFails, Custody, Undoing
  <2> QED BY <2>1, <2>2 DEF CustodyInv
<1> QED BY <1>1, <1>2, <1>3, <1>4, <1>5, <1>6, <1>7, <1>8, <1>9, <1>10, <1>11, <1>12,
          <1>13, <1>14, <1>15, <1>16, <1>17, <1>18, <1>19, <1>20, <1>21, <1>22 DEF Next, WriterChild

(* Nothing is written at first.                                            *)
LEMMA InitInv == Init => Shaped /\ CustodyInv
<1> SUFFICES ASSUME Init PROVE Shaped /\ CustodyInv
  OBVIOUS
<1>1. \A c \in Compilers : at[c].pc = "idle" /\ ~at[c].reserved /\ DOMAIN at[c] = Fields
  BY DEF Init, Idle, Fields
<1>2. Shaped
  BY <1>1 DEF Init, NoNames, Shaped, Idle
<1> QED BY <1>1, <1>2 DEF Init, CustodyInv, Custody, Ending, HasLoop, Early, Writing, Undoing, Taken

(* A pack that can be read, whatever a failure, a time-out or a power loss *)
(* has left of it, has the standalone loop that was asked for with it      *)
(* (compiler-writer-child.ts:241-283).                                     *)
THEOREM PacksAreComplete == Spec => []ReadablePacksAreComplete
<1>1. Shaped /\ CustodyInv /\ [Next]_vars => (Shaped /\ CustodyInv)'
  BY ShapedStep, CustodyStep
<1>2. CustodyInv => ReadablePacksAreComplete
  BY MembersAre DEF CustodyInv, Custody, HasLoop, ReadablePacksAreComplete, Readable, WantLoop
<1> QED BY InitInv, <1>1, <1>2, PTL DEF Spec

-----------------------------------------------------------------------------
(* The answers of a compile are true of the disk: the proof follows whose  *)
(* the name in the store is, and what is in the pack, from the mkdir to    *)
(* the answer.                                                             *)

Standalone == "DESTINATION_EXISTS standalone-loop"
Mismatch == "IO_IDENTITY_MISMATCH"
Unconfirmed == "IO_DURABILITY_UNCONFIRMED"

Records == "records"
Loop == "loop"
Manifest == "manifest"

(* A compile has nothing in the store, and no standalone file, that the    *)
(* processes see or a power loss could bring back.                         *)
Gone(c) == \A i \in Ids : disk.store[i] # c
NoPack(c) == \A i \in Ids : disk.store[i] # c /\ durable.store[i] # c
NoLoop(c) == disk.loop # c /\ durable.loop # c

(* It has one pack, under its id.                                          *)
OnePack(c) ==
  /\ disk.store[at[c].id] = c
  /\ \A i \in Ids : i # at[c].id => disk.store[i] # c /\ durable.store[i] # c

Stored(c) ==
  /\ disk.store[at[c].id] = c /\ durable.store[at[c].id] = c
  /\ {Records, Loop, Manifest} \subseteq disk.pack[c] \cap durable.pack[c] \cap whole[c]

Filled(c, members) == members \subseteq disk.pack[c] \cap whole[c]

(* Whose the names are.                                                    *)
Names(c) ==
  /\ at[c].pc \in {"idle", "again", "mkdir"} => NoPack(c) /\ NoLoop(c)
  /\ at[c].pc \in {"enter", "reserve"} => NoLoop(c)
  /\ at[c].pc \in {"mkdir", "enter", "reserve", "undo", "undo-pack"} \cup Writing => at[c].id \in Ids
  /\ at[c].pc \in {"enter", "reserve", "undo", "undo-pack"} \cup Writing => OnePack(c)
  /\ at[c].pc = "sync-undone" => Gone(c)
  /\ at[c].pc = "sync-undone-loop" /\ at[c].clean => NoPack(c)

(* What is in the pack.                                                    *)
Contents(c) ==
  /\ at[c].pc \in {"create", "write"} /\ at[c].n = 2 => Filled(c, {Records})
  /\ at[c].pc \in {"create", "write"} /\ at[c].n = 3 => Filled(c, {Records, Loop})
  /\ at[c].pc = "write" => Members[at[c].n] \in disk.pack[c]
  /\ at[c].pc \in {"fill", "sync-loop"} => Filled(c, {Records, Loop})
  /\ at[c].pc \in {"sync-pack", "sync-store"} => Filled(c, {Records, Loop, Manifest})
  /\ at[c].pc = "sync-store" => {Records, Loop, Manifest} \subseteq durable.pack[c]

(* What the child is about to say.                                         *)
Replies(c) ==
  /\ at[c].pc \in Undoing => at[c].reply \in {Standalone, Mismatch, Unconfirmed}
  /\ at[c].pc \in Undoing /\ at[c].reply # Unconfirmed => ~at[c].reserved /\ NoLoop(c)
  /\ at[c].pc = "reply" => at[c].reply \in {Taken, Standalone, Mismatch, Unconfirmed, "ok"}
  /\ at[c].pc = "reply" /\ at[c].reply \in {Taken, Standalone, Mismatch} => NoPack(c) /\ NoLoop(c)
  /\ at[c].pc = "reply" /\ at[c].reply = "ok" => Stored(c) /\ at[c].id \in Ids

Refusals == {"rejected", "DESTINATION_EXISTS", "COMPILE_ID_COLLISION_LIMIT", Mismatch}

(* What was answered.                                                      *)
Answers(c) ==
  /\ at[c].pc # "done" => at[c].answer = "none"
  /\ at[c].answer = "ok" => Stored(c) /\ at[c].id \in Ids
  /\ at[c].answer \in Refusals => NoPack(c) /\ NoLoop(c)

Made(c) == Names(c) /\ Contents(c) /\ Replies(c) /\ Answers(c)

StoresAre == DOMAIN disk.store = Ids /\ DOMAIN durable.store = Ids

MadeInv == StoresAre /\ \A c \in Compilers : Made(c)

(* A step that keeps this of a compile does nothing to its names: what is  *)
(* synced is what the processes see.                                       *)
Untouched(d) ==
  /\ at'[d] = at[d] /\ whole'[d] = whole[d]
  /\ disk'.pack[d] = disk.pack[d] /\ durable'.pack[d] = durable.pack[d]
  /\ \A i \in Ids : disk'.store[i] = d <=> disk.store[i] = d
  /\ \A i \in Ids : durable'.store[i] \in {durable.store[i], disk.store[i]}
  /\ disk'.loop = d => disk.loop = d
  /\ durable'.loop \in {durable.loop, disk.loop}

-----------------------------------------------------------------------------
(* What holds of a compile stays where its names are untouched.            *)
LEMMA UntouchedStaysMade ==
  ASSUME NEW d \in Compilers, Made(d), Untouched(d)
  PROVE  Made(d)'
<1> USE DEF Writing, Undoing, Untouched
<1>1. Names(d)'
  BY DEF Made, Names, NoPack, NoLoop, OnePack, Gone
<1>2. Contents(d)'
  BY DEF Made, Contents, Filled
<1>3. Replies(d)'
  BY DEF Made, Replies, NoPack, NoLoop, Stored
<1>4. Answers(d)'
  BY DEF Made, Answers, NoPack, NoLoop, Stored
<1> QED BY <1>1, <1>2, <1>3, <1>4 DEF Made

(* The steps of a compile leave the names of the others alone.             *)
LEMMA OthersUntouched ==
  ASSUME Shaped, CustodyInv, MadeInv, NEW c \in Compilers, Step(c), NEW d \in Compilers, d # c
  PROVE  Untouched(d)
<1>1. CASE Prepare(c)
  <2>1. at'[d] = at[d]
    BY <1>1, AnswerShape DEF Prepare, DiskStays, Shaped
  <2>2. /\ whole'[d] = whole[d] /\ disk'.pack[d] = disk.pack[d] /\ durable'.pack[d] = durable.pack[d]
        /\ (disk'.loop = d => disk.loop = d) /\ durable'.loop \in {durable.loop, disk.loop}
    BY <1>1, CompilerAssumption DEF Prepare, DiskStays, Shaped
  <2>3. \A i \in Ids : (disk'.store[i] = d <=> disk.store[i] = d) /\ durable'.store[i] \in {durable.store[i], disk.store[i]}
    BY <1>1, CompilerAssumption DEF Prepare, DiskStays, Shaped, MadeInv, StoresAre
  <2> QED BY <2>1, <2>2, <2>3 DEF Untouched
<1>2. CASE Receive(c)
  <2>1. at'[d] = at[d]
    BY <1>2, AnswerShape DEF Receive, DiskStays, Shaped
  <2>2. /\ whole'[d] = whole[d] /\ disk'.pack[d] = disk.pack[d] /\ durable'.pack[d] = durable.pack[d]
        /\ (disk'.loop = d => disk.loop = d) /\ durable'.loop \in {durable.loop, disk.loop}
    BY <1>2, CompilerAssumption DEF Receive, DiskStays, Shaped
  <2>3. \A i \in Ids : (disk'.store[i] = d <=> disk.store[i] = d) /\ durable'.store[i] \in {durable.store[i], disk.store[i]}
    BY <1>2, CompilerAssumption DEF Receive, DiskStays, Shaped, MadeInv, StoresAre
  <2> QED BY <2>1, <2>2, <2>3 DEF Untouched
<1>3. CASE TimesOut(c)
  <2>1. at'[d] = at[d]
    BY <1>3, AnswerShape DEF TimesOut, DiskStays, Shaped
  <2>2. /\ whole'[d] = whole[d] /\ disk'.pack[d] = disk.pack[d] /\ durable'.pack[d] = durable.pack[d]
        /\ (disk'.loop = d => disk.loop = d) /\ durable'.loop \in {durable.loop, disk.loop}
    BY <1>3, CompilerAssumption DEF TimesOut, DiskStays, Shaped
  <2>3. \A i \in Ids : (disk'.store[i] = d <=> disk.store[i] = d) /\ durable'.store[i] \in {durable.store[i], disk.store[i]}
    BY <1>3, CompilerAssumption DEF TimesOut, DiskStays, Shaped, MadeInv, StoresAre
  <2> QED BY <2>1, <2>2, <2>3 DEF Untouched
<1>4. CASE MakePack(c)
  <2>1. at'[d] = at[d]
    <3>1. Goto(c, "enter") \/ Reply(c, "DESTINATION_EXISTS compile-pack")
      BY <1>4 DEF MakePack
    <3> QED BY <3>1, GotoShape, ReplyShape
  <2>2. /\ whole'[d] = whole[d] /\ disk'.pack[d] = disk.pack[d] /\ durable'.pack[d] = durable.pack[d]
        /\ (disk'.loop = d => disk.loop = d) /\ durable'.loop \in {durable.loop, disk.loop}
    BY <1>4, CompilerAssumption DEF MakePack, NamesOnly, Shaped
  <2>3. \A i \in Ids : (disk'.store[i] = d <=> disk.store[i] = d) /\ durable'.store[i] \in {durable.store[i], disk.store[i]}
    <3>1. at[c].id \in Ids /\ durable' = durable /\ DOMAIN disk.store = Ids
      BY <1>4 DEF MakePack, NamesOnly, MadeInv, StoresAre, Made, Names
    <3>2. CASE disk.store[at[c].id] = None
      <4>1. disk' = [disk EXCEPT !.store[at[c].id] = c]
        BY <1>4, <3>2 DEF MakePack
      <4>2. disk'.store = [disk.store EXCEPT ![at[c].id] = c]
        BY <4>1 DEF Shaped
      <4> QED BY <3>1, <3>2, <4>2, CompilerAssumption
    <3>3. CASE disk.store[at[c].id] # None
      BY <1>4, <3>1, <3>3 DEF MakePack
    <3> QED BY <3>2, <3>3
  <2> QED BY <2>1, <2>2, <2>3 DEF Untouched
<1>5. CASE EnterPack(c)
  <2>1. at'[d] = at[d]
    BY <1>5 DEF EnterPack, DiskStays, WantLoop, Shaped
  <2>2. /\ whole'[d] = whole[d] /\ disk'.pack[d] = disk.pack[d] /\ durable'.pack[d] = durable.pack[d]
        /\ (disk'.loop = d => disk.loop = d) /\ durable'.loop \in {durable.loop, disk.loop}
    BY <1>5, CompilerAssumption DEF EnterPack, DiskStays, WantLoop, Shaped
  <2>3. \A i \in Ids : (disk'.store[i] = d <=> disk.store[i] = d) /\ durable'.store[i] \in {durable.store[i], disk.store[i]}
    BY <1>5, CompilerAssumption DEF EnterPack, DiskStays, WantLoop, Shaped, MadeInv, StoresAre
  <2> QED BY <2>1, <2>2, <2>3 DEF Untouched
<1>6. CASE Reserve(c)
  <2>1. at'[d] = at[d]
    <3>1. at' = [at EXCEPT ![c].pc = "create", ![c].reserved = TRUE] \/ Undo(c, 0, "DESTINATION_EXISTS standalone-loop")
      BY <1>6 DEF Reserve
    <3> QED BY <3>1, UndoShape DEF Shaped
  <2>2. /\ whole'[d] = whole[d] /\ disk'.pack[d] = disk.pack[d] /\ durable'.pack[d] = durable.pack[d]
        /\ (disk'.loop = d => disk.loop = d) /\ durable'.loop \in {durable.loop, disk.loop}
    BY <1>6, CompilerAssumption DEF Reserve, NamesOnly, Shaped
  <2>3. \A i \in Ids : (disk'.store[i] = d <=> disk.store[i] = d) /\ durable'.store[i] \in {durable.store[i], disk.store[i]}
    BY <1>6, CompilerAssumption DEF Reserve, NamesOnly, Shaped, MadeInv, StoresAre
  <2> QED BY <2>1, <2>2, <2>3 DEF Untouched
<1>7. CASE CreateMember(c)
  <2>1. at'[d] = at[d]
    BY <1>7, GotoShape DEF CreateMember, NamesOnly, Shaped
  <2>2. /\ whole'[d] = whole[d] /\ disk'.pack[d] = disk.pack[d] /\ durable'.pack[d] = durable.pack[d]
        /\ (disk'.loop = d => disk.loop = d) /\ durable'.loop \in {durable.loop, disk.loop}
    BY <1>7, CompilerAssumption DEF CreateMember, NamesOnly, Shaped
  <2>3. \A i \in Ids : (disk'.store[i] = d <=> disk.store[i] = d) /\ durable'.store[i] \in {durable.store[i], disk.store[i]}
    BY <1>7, CompilerAssumption DEF CreateMember, NamesOnly, Shaped, MadeInv, StoresAre
  <2> QED BY <2>1, <2>2, <2>3 DEF Untouched
<1>8. CASE WriteMember(c)
  <2>1. at'[d] = at[d]
    BY <1>8, GotoShape DEF WriteMember, Shaped
  <2>2. /\ whole'[d] = whole[d] /\ disk'.pack[d] = disk.pack[d] /\ durable'.pack[d] = durable.pack[d]
        /\ (disk'.loop = d => disk.loop = d) /\ durable'.loop \in {durable.loop, disk.loop}
    BY <1>8, CompilerAssumption DEF WriteMember, Shaped
  <2>3. \A i \in Ids : (disk'.store[i] = d <=> disk.store[i] = d) /\ durable'.store[i] \in {durable.store[i], disk.store[i]}
    BY <1>8, CompilerAssumption DEF WriteMember, Shaped, MadeInv, StoresAre
  <2> QED BY <2>1, <2>2, <2>3 DEF Untouched
<1>9. CASE FillLoop(c)
  <2>1. at'[d] = at[d]
    BY <1>9, GotoShape DEF FillLoop, Shaped
  <2>2. /\ whole'[d] = whole[d] /\ disk'.pack[d] = disk.pack[d] /\ durable'.pack[d] = durable.pack[d]
        /\ (disk'.loop = d => disk.loop = d) /\ durable'.loop \in {durable.loop, disk.loop}
    BY <1>9, CompilerAssumption DEF FillLoop, Shaped
  <2>3. \A i \in Ids : (disk'.store[i] = d <=> disk.store[i] = d) /\ durable'.store[i] \in {durable.store[i], disk.store[i]}
    BY <1>9, CompilerAssumption DEF FillLoop, Shaped, MadeInv, StoresAre
  <2> QED BY <2>1, <2>2, <2>3 DEF Untouched
<1>10. CASE SyncLoop(c)
  <2>1. at'[d] = at[d]
    BY <1>10 DEF SyncLoop, Shaped
  <2>2. /\ whole'[d] = whole[d] /\ disk'.pack[d] = disk.pack[d] /\ durable'.pack[d] = durable.pack[d]
        /\ (disk'.loop = d => disk.loop = d) /\ durable'.loop \in {durable.loop, disk.loop}
    BY <1>10, CompilerAssumption DEF SyncLoop, Shaped
  <2>3. \A i \in Ids : (disk'.store[i] = d <=> disk.store[i] = d) /\ durable'.store[i] \in {durable.store[i], disk.store[i]}
    BY <1>10, CompilerAssumption DEF SyncLoop, Shaped, MadeInv, StoresAre
  <2> QED BY <2>1, <2>2, <2>3 DEF Untouched
<1>11. CASE SyncPack(c)
  <2>1. at'[d] = at[d]
    BY <1>11, GotoShape DEF SyncPack, Shaped
  <2>2. /\ whole'[d] = whole[d] /\ disk'.pack[d] = disk.pack[d] /\ durable'.pack[d] = durable.pack[d]
        /\ (disk'.loop = d => disk.loop = d) /\ durable'.loop \in {durable.loop, disk.loop}
    BY <1>11, CompilerAssumption DEF SyncPack, Shaped
  <2>3. \A i \in Ids : (disk'.store[i] = d <=> disk.store[i] = d) /\ durable'.store[i] \in {durable.store[i], disk.store[i]}
    BY <1>11, CompilerAssumption DEF SyncPack, Shaped, MadeInv, StoresAre
  <2> QED BY <2>1, <2>2, <2>3 DEF Untouched
<1>12. CASE SyncStore(c)
  <2>1. at'[d] = at[d]
    BY <1>12, ReplyShape DEF SyncStore, Shaped
  <2>2. /\ whole'[d] = whole[d] /\ disk'.pack[d] = disk.pack[d] /\ durable'.pack[d] = durable.pack[d]
        /\ (disk'.loop = d => disk.loop = d) /\ durable'.loop \in {durable.loop, disk.loop}
    BY <1>12, CompilerAssumption DEF SyncStore, Shaped
  <2>3. \A i \in Ids : (disk'.store[i] = d <=> disk.store[i] = d) /\ durable'.store[i] \in {durable.store[i], disk.store[i]}
    BY <1>12, CompilerAssumption DEF SyncStore, Shaped, MadeInv, StoresAre
  <2> QED BY <2>1, <2>2, <2>3 DEF Untouched
<1>13. CASE CallFails(c)
  <2>1. at'[d] = at[d]
    BY <1>13, ReplyShape, UndoShape DEF CallFails, Shaped
  <2>2. /\ whole'[d] = whole[d] /\ disk'.pack[d] = disk.pack[d] /\ durable'.pack[d] = durable.pack[d]
        /\ (disk'.loop = d => disk.loop = d) /\ durable'.loop \in {durable.loop, disk.loop}
    BY <1>13, CompilerAssumption DEF CallFails, Shaped
  <2>3. \A i \in Ids : (disk'.store[i] = d <=> disk.store[i] = d) /\ durable'.store[i] \in {durable.store[i], disk.store[i]}
    BY <1>13, CompilerAssumption DEF CallFails, Shaped, MadeInv, StoresAre
  <2> QED BY <2>1, <2>2, <2>3 DEF Untouched
<1>14. CASE LateCallFails(c)
  <2>1. at'[d] = at[d]
    BY <1>14, ReplyShape DEF LateCallFails, Shaped
  <2>2. /\ whole'[d] = whole[d] /\ disk'.pack[d] = disk.pack[d] /\ durable'.pack[d] = durable.pack[d]
        /\ (disk'.loop = d => disk.loop = d) /\ durable'.loop \in {durable.loop, disk.loop}
    BY <1>14, CompilerAssumption DEF LateCallFails, Shaped
  <2>3. \A i \in Ids : (disk'.store[i] = d <=> disk.store[i] = d) /\ durable'.store[i] \in {durable.store[i], disk.store[i]}
    BY <1>14, CompilerAssumption DEF LateCallFails, Shaped, MadeInv, StoresAre
  <2> QED BY <2>1, <2>2, <2>3 DEF Untouched
<1>15. CASE UndoMember(c)
  <2>1. at'[d] = at[d]
    BY <1>15 DEF UndoMember, NamesOnly, Shaped
  <2>2. /\ whole'[d] = whole[d] /\ disk'.pack[d] = disk.pack[d] /\ durable'.pack[d] = durable.pack[d]
        /\ (disk'.loop = d => disk.loop = d) /\ durable'.loop \in {durable.loop, disk.loop}
    BY <1>15, CompilerAssumption DEF UndoMember, NamesOnly, Shaped
  <2>3. \A i \in Ids : (disk'.store[i] = d <=> disk.store[i] = d) /\ durable'.store[i] \in {durable.store[i], disk.store[i]}
    BY <1>15, CompilerAssumption DEF UndoMember, NamesOnly, Shaped, MadeInv, StoresAre
  <2> QED BY <2>1, <2>2, <2>3 DEF Untouched
<1>16. CASE UndoLoop(c)
  <2>1. at'[d] = at[d]
    BY <1>16, GotoShape DEF UndoLoop, NamesOnly, Shaped
  <2>2. /\ whole'[d] = whole[d] /\ disk'.pack[d] = disk.pack[d] /\ durable'.pack[d] = durable.pack[d]
        /\ (disk'.loop = d => disk.loop = d) /\ durable'.loop \in {durable.loop, disk.loop}
    BY <1>16, CompilerAssumption DEF UndoLoop, NamesOnly, Shaped
  <2>3. \A i \in Ids : (disk'.store[i] = d <=> disk.store[i] = d) /\ durable'.store[i] \in {durable.store[i], disk.store[i]}
    BY <1>16, CompilerAssumption DEF UndoLoop, NamesOnly, Shaped, MadeInv, StoresAre, CustodyInv, Custody
  <2> QED BY <2>1, <2>2, <2>3 DEF Untouched
<1>17. CASE UndoPack(c)
  <2>1. at'[d] = at[d]
    BY <1>17, GotoShape DEF UndoPack, NamesOnly, Shaped
  <2>2. /\ whole'[d] = whole[d] /\ disk'.pack[d] = disk.pack[d] /\ durable'.pack[d] = durable.pack[d]
        /\ (disk'.loop = d => disk.loop = d) /\ durable'.loop \in {durable.loop, disk.loop}
    BY <1>17, CompilerAssumption DEF UndoPack, NamesOnly, Shaped
  <2>3. \A i \in Ids : (disk'.store[i] = d <=> disk.store[i] = d) /\ durable'.store[i] \in {durable.store[i], disk.store[i]}
    BY <1>17, CompilerAssumption DEF UndoPack, NamesOnly, Shaped, MadeInv, StoresAre, CustodyInv, Custody, Made, Names, OnePack
  <2> QED BY <2>1, <2>2, <2>3 DEF Untouched
<1>18. CASE SyncUndone(c)
  <2>1. at'[d] = at[d]
    BY <1>18, GotoShape DEF SyncUndone, Shaped
  <2>2. /\ whole'[d] = whole[d] /\ disk'.pack[d] = disk.pack[d] /\ durable'.pack[d] = durable.pack[d]
        /\ (disk'.loop = d => disk.loop = d) /\ durable'.loop \in {durable.loop, disk.loop}
    BY <1>18, CompilerAssumption DEF SyncUndone, Shaped
  <2>3. \A i \in Ids : (disk'.store[i] = d <=> disk.store[i] = d) /\ durable'.store[i] \in {durable.store[i], disk.store[i]}
    BY <1>18, CompilerAssumption DEF SyncUndone, Shaped, MadeInv, StoresAre
  <2> QED BY <2>1, <2>2, <2>3 DEF Untouched
<1>19. CASE SyncUndoneLoop(c)
  <2>1. at'[d] = at[d]
    BY <1>19, ReplyShape DEF SyncUndoneLoop, CleanReply, Shaped
  <2>2. /\ whole'[d] = whole[d] /\ disk'.pack[d] = disk.pack[d] /\ durable'.pack[d] = durable.pack[d]
        /\ (disk'.loop = d => disk.loop = d) /\ durable'.loop \in {durable.loop, disk.loop}
    BY <1>19, CompilerAssumption DEF SyncUndoneLoop, CleanReply, Shaped
  <2>3. \A i \in Ids : (disk'.store[i] = d <=> disk.store[i] = d) /\ durable'.store[i] \in {durable.store[i], disk.store[i]}
    BY <1>19, CompilerAssumption DEF SyncUndoneLoop, CleanReply, Shaped, MadeInv, StoresAre
  <2> QED BY <2>1, <2>2, <2>3 DEF Untouched
<1>20. CASE UndoFails(c)
  <2>1. at'[d] = at[d]
    BY <1>20, GotoShape, ReplyShape DEF UndoFails, CleanReply, Shaped
  <2>2. /\ whole'[d] = whole[d] /\ disk'.pack[d] = disk.pack[d] /\ durable'.pack[d] = durable.pack[d]
        /\ (disk'.loop = d => disk.loop = d) /\ durable'.loop \in {durable.loop, disk.loop}
    BY <1>20, CompilerAssumption DEF UndoFails, CleanReply, Shaped
  <2>3. \A i \in Ids : (disk'.store[i] = d <=> disk.store[i] = d) /\ durable'.store[i] \in {durable.store[i], disk.store[i]}
    BY <1>20, CompilerAssumption DEF UndoFails, CleanReply, Shaped, MadeInv, StoresAre
  <2> QED BY <2>1, <2>2, <2>3 DEF Untouched
<1> QED BY <1>1, <1>2, <1>3, <1>4, <1>5, <1>6, <1>7, <1>8, <1>9, <1>10, <1>11, <1>12, <1>13, <1>14, <1>15, <1>16, <1>17, <1>18, <1>19, <1>20
       DEF Step, WriterChild

(* A compile that goes on has no answer to be wrong.                       *)
LEMMA NotYetAnswered ==
  ASSUME NEW c \in Compilers, Answers(c), at[c].pc # "done", at'[c].answer = at[c].answer
  PROVE  Answers(c)'
BY DEF Answers, Refusals, Mismatch

(* What a step of its own does to a compile.                               *)
LEMMA OwnMade ==
  ASSUME Shaped, CustodyInv, MadeInv, NEW c \in Compilers, Step(c)
  PROVE  Made(c)'
<1>0. Custody(c) /\ Names(c) /\ Contents(c) /\ Replies(c) /\ Answers(c) /\ StoresAre
  BY DEF CustodyInv, MadeInv, Made
<1>1. CASE Prepare(c)
  <2>1. /\ at[c].pc \in {"idle", "again"}
        /\ ((at'[c].pc = "mkdir" /\ at'[c].id \in Ids /\ at'[c].answer = at[c].answer) \/ (at'[c].pc = "done" /\ at'[c].answer = "rejected"))
    <3>1. CASE Answer(c, "rejected")
      BY <1>1, <3>1, AnswerShape DEF Prepare
    <3>2. ASSUME NEW i \in Ids, at' = [at EXCEPT ![c].pc = "mkdir", ![c].id = i, ![c].tries = @ + 1]
          PROVE  at'[c].pc = "mkdir" /\ at'[c].id \in Ids /\ at'[c].answer = at[c].answer
      BY <3>2 DEF Shaped, Fields
    <3> QED BY <1>1, <3>1, <3>2 DEF Prepare
  <2>2. /\ disk'.store = disk.store
        /\ durable'.store = durable.store
        /\ disk'.loop = disk.loop
        /\ durable'.loop = durable.loop
        /\ disk'.pack[c] = disk.pack[c]
        /\ durable'.pack[c] = durable.pack[c]
        /\ whole'[c] = whole[c]
    BY <1>1, <1>0, AnswerShape DEF Prepare, DiskStays, Shaped, Fields, StoresAre
  <2>3. Names(c)'
    BY <1>0, <2>1, <2>2, CompilerAssumption DEF Names, NoPack, NoLoop, OnePack, Gone, Writing, Undoing, Custody, Early, StoresAre, Replies
  <2>4. Contents(c)'
    BY <1>0, <2>1, <2>2, MembersAre DEF Contents, Filled, Custody, Records, Loop, Manifest
  <2>5. Replies(c)'
    BY <1>0, <2>1, <2>2, CompilerAssumption DEF Names, Contents, Replies, NoPack, NoLoop, OnePack, Gone, Stored, Filled, Writing, Undoing, Custody, Early, Taken, Standalone, Mismatch, Unconfirmed
  <2>6. Answers(c)'
    BY <1>0, <2>1, <2>2 DEF Names, Replies, Answers, NoPack, NoLoop, Stored, Refusals, Writing, Undoing, Taken, Standalone, Mismatch
  <2> QED BY <2>3, <2>4, <2>5, <2>6 DEF Made
<1>2. CASE Receive(c)
  <2>1. /\ at[c].pc = "reply"
        /\ ((at'[c].pc = "again" /\ at[c].reply = Taken /\ at'[c].answer = at[c].answer) \/ at'[c].pc = "done")
        /\ (at'[c].pc = "done" => (at'[c].answer = "ok" => at[c].reply = "ok") /\ (at'[c].answer \in Refusals => at[c].reply \in {Taken, Standalone, Mismatch}))
        /\ at'[c].id = at[c].id
    <3>1. CASE at[c].reply = Taken /\ at[c].tries < MaxAttempts
      <4>1. at[c].pc = "reply" /\ at' = [at EXCEPT ![c].pc = "again", ![c].reply = "none"]
        BY <1>2, <3>1 DEF Receive, Taken
      <4> QED BY <3>1, <4>1 DEF Shaped, Fields
    <3>2. CASE at[c].reply = Taken /\ ~(at[c].tries < MaxAttempts)
      <4>1. at[c].pc = "reply" /\ Answer(c, "COMPILE_ID_COLLISION_LIMIT")
        BY <1>2, <3>2 DEF Receive, Taken
      <4> QED BY <3>2, <4>1, AnswerShape
    <3>3. CASE at[c].reply = Standalone
      <4>1. at[c].pc = "reply" /\ Answer(c, "DESTINATION_EXISTS")
        BY <1>2, <3>3 DEF Receive, Taken, Standalone
      <4> QED BY <3>3, <4>1, AnswerShape
    <3>4. CASE at[c].reply \notin {Taken, Standalone}
      <4>1. at[c].pc = "reply" /\ Answer(c, at[c].reply)
        BY <1>2, <3>4 DEF Receive, Taken, Standalone
      <4>2. at[c].reply \in {Mismatch, Unconfirmed, "ok"}
        BY <1>0, <3>4, <4>1 DEF Replies
      <4> QED BY <4>1, <4>2, AnswerShape DEF Refusals, Mismatch, Unconfirmed
    <3> QED BY <3>1, <3>2, <3>3, <3>4
  <2>2. /\ disk'.store = disk.store
        /\ durable'.store = durable.store
        /\ disk'.loop = disk.loop
        /\ durable'.loop = durable.loop
        /\ disk'.pack[c] = disk.pack[c]
        /\ durable'.pack[c] = durable.pack[c]
        /\ whole'[c] = whole[c]
    BY <1>2, <1>0, AnswerShape DEF Receive, DiskStays, Shaped, Fields, StoresAre, Refusals, Taken, Standalone, Mismatch
  <2>3. Names(c)'
    BY <1>0, <2>1, <2>2, CompilerAssumption DEF Names, NoPack, NoLoop, OnePack, Gone, Writing, Undoing, Custody, Early, StoresAre, Replies
  <2>4. Contents(c)'
    BY <1>0, <2>1, <2>2, MembersAre DEF Contents, Filled, Custody, Records, Loop, Manifest
  <2>5. Replies(c)'
    BY <1>0, <2>1, <2>2, CompilerAssumption DEF Names, Contents, Replies, NoPack, NoLoop, OnePack, Gone, Stored, Filled, Writing, Undoing, Custody, Early, Taken, Standalone, Mismatch, Unconfirmed
  <2>6. Answers(c)'
    BY <1>0, <2>1, <2>2 DEF Names, Replies, Answers, NoPack, NoLoop, Stored, Refusals, Writing, Undoing, Taken, Standalone, Mismatch
  <2> QED BY <2>3, <2>4, <2>5, <2>6 DEF Made
<1>3. CASE TimesOut(c)
  <2>1. /\ at'[c].pc = "done"
        /\ at'[c].answer = "IO_HELPER_UNAVAILABLE"
    BY <1>3, <1>0, AnswerShape DEF TimesOut, DiskStays, Shaped, Fields, Custody
  <2>3. Names(c)'
    BY <1>0, <2>1, CompilerAssumption DEF Names, NoPack, NoLoop, OnePack, Gone, Writing, Undoing, Custody, Early, StoresAre, Replies
  <2>4. Contents(c)'
    BY <1>0, <2>1, MembersAre DEF Contents, Filled, Custody, Records, Loop, Manifest
  <2>5. Replies(c)'
    BY <1>0, <2>1, CompilerAssumption DEF Names, Contents, Replies, NoPack, NoLoop, OnePack, Gone, Stored, Filled, Writing, Undoing, Custody, Early, Taken, Standalone, Mismatch, Unconfirmed
  <2>6. Answers(c)'
    BY <1>0, <2>1 DEF Names, Replies, Answers, NoPack, NoLoop, Stored, Refusals, Writing, Undoing, Taken, Standalone, Mismatch
  <2> QED BY <2>3, <2>4, <2>5, <2>6 DEF Made
<1>4. CASE MakePack(c)
  <2>1. /\ at[c].pc = "mkdir"
        /\ at'[c].id = at[c].id
        /\ at'[c].answer = at[c].answer
    BY <1>4, <1>0, GotoShape, ReplyShape DEF MakePack, NamesOnly, Shaped, Fields, Custody, Taken
  <2>2. /\ ((disk.store[at[c].id] = None /\ at'[c].pc = "enter" /\ disk'.store = [disk.store EXCEPT ![at[c].id] = c]) \/ (disk.store[at[c].id] # None /\ at'[c].pc = "reply" /\ at'[c].reply = Taken /\ disk'.store = disk.store))
        /\ durable'.store = durable.store
        /\ disk'.loop = disk.loop
        /\ durable'.loop = durable.loop
        /\ disk'.pack[c] = disk.pack[c]
        /\ durable'.pack[c] = durable.pack[c]
        /\ whole'[c] = whole[c]
    <3>1. CASE disk.store[at[c].id] = None
      <4>1. disk' = [disk EXCEPT !.store[at[c].id] = c] /\ Goto(c, "enter") /\ durable' = durable /\ whole' = whole
        BY <1>4, <3>1 DEF MakePack, NamesOnly
      <4> QED BY <3>1, <4>1, GotoShape DEF Shaped
    <3>2. CASE disk.store[at[c].id] # None
      <4>1. disk' = disk /\ Reply(c, Taken) /\ durable' = durable /\ whole' = whole
        BY <1>4, <3>2 DEF MakePack, NamesOnly, Taken
      <4> QED BY <3>2, <4>1, ReplyShape
    <3> QED BY <3>1, <3>2
  <2>3. Names(c)'
    BY <1>0, <2>1, <2>2, CompilerAssumption DEF Names, NoPack, NoLoop, OnePack, Gone, Writing, Undoing, Custody, Early, StoresAre, Replies
  <2>4. Contents(c)'
    BY <1>0, <2>1, <2>2, MembersAre DEF Contents, Filled, Custody, Records, Loop, Manifest
  <2>5. Replies(c)'
    BY <1>0, <2>1, <2>2, CompilerAssumption DEF Names, Contents, Replies, NoPack, NoLoop, OnePack, Gone, Stored, Filled, Writing, Undoing, Custody, Early, Taken, Standalone, Mismatch, Unconfirmed
  <2>6. Answers(c)'
    BY <1>0, <2>1, <2>2, NotYetAnswered DEF Writing, Undoing
  <2> QED BY <2>3, <2>4, <2>5, <2>6 DEF Made
<1>5. CASE EnterPack(c)
  <2>1. /\ at[c].pc = "enter"
        /\ at'[c].pc \in {"reserve", "create"}
        /\ at'[c].n = 1
        /\ at'[c].id = at[c].id
        /\ at'[c].answer = at[c].answer
    BY <1>5, <1>0 DEF EnterPack, DiskStays, WantLoop, Shaped, Fields, Custody
  <2>2. /\ disk'.store = disk.store
        /\ durable'.store = durable.store
        /\ disk'.loop = disk.loop
        /\ durable'.loop = durable.loop
        /\ disk'.pack[c] = disk.pack[c]
        /\ durable'.pack[c] = durable.pack[c]
        /\ whole'[c] = whole[c]
    BY <1>5, <1>0 DEF EnterPack, DiskStays, WantLoop, Shaped, Fields, StoresAre
  <2>3. Names(c)'
    BY <1>0, <2>1, <2>2, CompilerAssumption DEF Names, NoPack, NoLoop, OnePack, Gone, Writing, Undoing, Custody, Early, StoresAre, Replies
  <2>4. Contents(c)'
    BY <1>0, <2>1, <2>2, MembersAre DEF Contents, Filled, Custody, Records, Loop, Manifest
  <2>5. Replies(c)'
    BY <1>0, <2>1, <2>2, CompilerAssumption DEF Names, Contents, Replies, NoPack, NoLoop, OnePack, Gone, Stored, Filled, Writing, Undoing, Custody, Early, Taken, Standalone, Mismatch, Unconfirmed
  <2>6. Answers(c)'
    BY <1>0, <2>1, <2>2, NotYetAnswered DEF Writing, Undoing
  <2> QED BY <2>3, <2>4, <2>5, <2>6 DEF Made
<1>6. CASE Reserve(c)
  <2>1. at[c].pc = "reserve" /\ durable' = durable /\ whole' = whole
    BY <1>6 DEF Reserve, NamesOnly
  <2>2. /\ (at'[c].pc = "create" /\ at'[c].n = at[c].n)
           \/ (at'[c].pc = "undo" /\ at'[c].reply = Standalone /\ at'[c].reserved = at[c].reserved /\ disk'.loop = disk.loop)
        /\ at'[c].id = at[c].id /\ at'[c].answer = at[c].answer
        /\ disk'.store = disk.store /\ disk'.pack[c] = disk.pack[c]
    <3>1. CASE disk.loop = None
      <4>1. disk' = [disk EXCEPT !.loop = c] /\ at' = [at EXCEPT ![c].pc = "create", ![c].reserved = TRUE]
        BY <1>6, <3>1 DEF Reserve
      <4> QED BY <4>1 DEF Shaped, Fields
    <3>2. CASE disk.loop # None
      <4>1. disk' = disk /\ Undo(c, 0, Standalone)
        BY <1>6, <3>2 DEF Reserve, Standalone
      <4> QED BY <4>1, UndoShape
    <3> QED BY <3>1, <3>2
  <2>3. Names(c)'
    BY <1>0, <2>1, <2>2, CompilerAssumption DEF Names, NoPack, NoLoop, OnePack, Gone, Writing, Undoing, Custody, Early, StoresAre, Replies
  <2>4. Contents(c)'
    BY <1>0, <2>1, <2>2, MembersAre DEF Contents, Filled, Custody, Records, Loop, Manifest
  <2>5. Replies(c)'
    BY <1>0, <2>1, <2>2, CompilerAssumption DEF Names, Contents, Replies, NoPack, NoLoop, OnePack, Gone, Stored, Filled, Writing, Undoing, Custody, Early, Taken, Standalone, Mismatch, Unconfirmed
  <2>6. Answers(c)'
    BY <1>0, <2>1, <2>2, NotYetAnswered DEF Writing, Undoing
  <2> QED BY <2>3, <2>4, <2>5, <2>6 DEF Made
<1>7. CASE CreateMember(c)
  <2>1. /\ at[c].pc = "create"
        /\ at'[c].pc = "write"
        /\ at'[c].n = at[c].n
        /\ at'[c].id = at[c].id
        /\ at'[c].answer = at[c].answer
    BY <1>7, <1>0, GotoShape DEF CreateMember, NamesOnly, Shaped, Fields, Custody
  <2>2. /\ disk'.pack[c] = disk.pack[c] \cup {Members[at[c].n]}
        /\ disk'.store = disk.store
        /\ durable'.store = durable.store
        /\ disk'.loop = disk.loop
        /\ durable'.loop = durable.loop
        /\ durable'.pack[c] = durable.pack[c]
        /\ whole'[c] = whole[c]
    BY <1>7, <1>0, GotoShape DEF CreateMember, NamesOnly, Shaped, Fields, StoresAre
  <2>3. Names(c)'
    BY <1>0, <2>1, <2>2, CompilerAssumption DEF Names, NoPack, NoLoop, OnePack, Gone, Writing, Undoing, Custody, Early, StoresAre, Replies
  <2>4. Contents(c)'
    BY <1>0, <2>1, <2>2, MembersAre DEF Contents, Filled, Custody, Records, Loop, Manifest
  <2>5. Replies(c)'
    BY <1>0, <2>1, <2>2, CompilerAssumption DEF Names, Contents, Replies, NoPack, NoLoop, OnePack, Gone, Stored, Filled, Writing, Undoing, Custody, Early, Taken, Standalone, Mismatch, Unconfirmed
  <2>6. Answers(c)'
    BY <1>0, <2>1, <2>2, NotYetAnswered DEF Writing, Undoing
  <2> QED BY <2>3, <2>4, <2>5, <2>6 DEF Made
<1>8. CASE WriteMember(c)
  <2>1. /\ at[c].pc = "write"
        /\ ((at[c].n = 3 /\ at'[c].pc = "sync-pack") \/ (at[c].n = 2 /\ at'[c].pc = "fill") \/ (at[c].n # 3 /\ at'[c].pc = "create" /\ at'[c].n = at[c].n + 1))
        /\ at'[c].id = at[c].id
        /\ at'[c].answer = at[c].answer
    BY <1>8, <1>0, GotoShape, MembersAre DEF WriteMember, Shaped, Fields, Custody
  <2>2. /\ whole'[c] = whole[c] \cup {Members[at[c].n]}
        /\ disk'.store = disk.store
        /\ durable'.store = durable.store
        /\ disk'.loop = disk.loop
        /\ durable'.loop = durable.loop
        /\ disk'.pack[c] = disk.pack[c]
        /\ durable'.pack[c] = durable.pack[c]
    BY <1>8, <1>0, GotoShape, MembersAre DEF WriteMember, Shaped, Fields, StoresAre
  <2>3. Names(c)'
    BY <1>0, <2>1, <2>2, CompilerAssumption DEF Names, NoPack, NoLoop, OnePack, Gone, Writing, Undoing, Custody, Early, StoresAre, Replies
  <2>4. Contents(c)'
    BY <1>0, <2>1, <2>2, MembersAre DEF Contents, Filled, Custody, Records, Loop, Manifest
  <2>5. Replies(c)'
    BY <1>0, <2>1, <2>2, CompilerAssumption DEF Names, Contents, Replies, NoPack, NoLoop, OnePack, Gone, Stored, Filled, Writing, Undoing, Custody, Early, Taken, Standalone, Mismatch, Unconfirmed
  <2>6. Answers(c)'
    BY <1>0, <2>1, <2>2, NotYetAnswered DEF Writing, Undoing
  <2> QED BY <2>3, <2>4, <2>5, <2>6 DEF Made
<1>9. CASE FillLoop(c)
  <2>1. /\ at[c].pc = "fill"
        /\ at'[c].pc = "sync-loop"
        /\ at'[c].id = at[c].id
        /\ at'[c].answer = at[c].answer
    BY <1>9, <1>0, GotoShape DEF FillLoop, Shaped, Fields, Custody
  <2>2. /\ whole'[c] = whole[c] \cup {"standalone"}
        /\ disk'.store = disk.store
        /\ durable'.store = durable.store
        /\ disk'.loop = disk.loop
        /\ durable'.loop = durable.loop
        /\ disk'.pack[c] = disk.pack[c]
        /\ durable'.pack[c] = durable.pack[c]
    BY <1>9, <1>0, GotoShape DEF FillLoop, Shaped, Fields, StoresAre
  <2>3. Names(c)'
    BY <1>0, <2>1, <2>2, CompilerAssumption DEF Names, NoPack, NoLoop, OnePack, Gone, Writing, Undoing, Custody, Early, StoresAre, Replies
  <2>4. Contents(c)'
    BY <1>0, <2>1, <2>2, MembersAre DEF Contents, Filled, Custody, Records, Loop, Manifest
  <2>5. Replies(c)'
    BY <1>0, <2>1, <2>2, CompilerAssumption DEF Names, Contents, Replies, NoPack, NoLoop, OnePack, Gone, Stored, Filled, Writing, Undoing, Custody, Early, Taken, Standalone, Mismatch, Unconfirmed
  <2>6. Answers(c)'
    BY <1>0, <2>1, <2>2, NotYetAnswered DEF Writing, Undoing
  <2> QED BY <2>3, <2>4, <2>5, <2>6 DEF Made
<1>10. CASE SyncLoop(c)
  <2>1. /\ at[c].pc = "sync-loop"
        /\ at'[c].pc = "create"
        /\ at'[c].n = 3
        /\ at'[c].id = at[c].id
        /\ at'[c].answer = at[c].answer
    BY <1>10, <1>0, MembersAre DEF SyncLoop, Shaped, Fields, Custody
  <2>2. /\ disk'.store = disk.store
        /\ durable'.store = durable.store
        /\ disk'.loop = disk.loop
        /\ disk'.pack[c] = disk.pack[c]
        /\ durable'.pack[c] = durable.pack[c]
        /\ whole'[c] = whole[c]
    BY <1>10, <1>0, MembersAre DEF SyncLoop, Shaped, Fields, StoresAre
  <2>3. Names(c)'
    BY <1>0, <2>1, <2>2, CompilerAssumption DEF Names, NoPack, NoLoop, OnePack, Gone, Writing, Undoing, Custody, Early, StoresAre, Replies
  <2>4. Contents(c)'
    BY <1>0, <2>1, <2>2, MembersAre DEF Contents, Filled, Custody, Records, Loop, Manifest
  <2>5. Replies(c)'
    BY <1>0, <2>1, <2>2, CompilerAssumption DEF Names, Contents, Replies, NoPack, NoLoop, OnePack, Gone, Stored, Filled, Writing, Undoing, Custody, Early, Taken, Standalone, Mismatch, Unconfirmed
  <2>6. Answers(c)'
    BY <1>0, <2>1, <2>2, NotYetAnswered DEF Writing, Undoing
  <2> QED BY <2>3, <2>4, <2>5, <2>6 DEF Made
<1>11. CASE SyncPack(c)
  <2>1. /\ at[c].pc = "sync-pack"
        /\ at'[c].pc = "sync-store"
        /\ at'[c].id = at[c].id
        /\ at'[c].answer = at[c].answer
    BY <1>11, <1>0, GotoShape DEF SyncPack, Shaped, Fields, Custody
  <2>2. /\ durable'.pack[c] = disk.pack[c]
        /\ disk'.store = disk.store
        /\ durable'.store = durable.store
        /\ disk'.loop = disk.loop
        /\ durable'.loop = durable.loop
        /\ disk'.pack[c] = disk.pack[c]
        /\ whole'[c] = whole[c]
    BY <1>11, <1>0, GotoShape DEF SyncPack, Shaped, Fields, StoresAre
  <2>3. Names(c)'
    BY <1>0, <2>1, <2>2, CompilerAssumption DEF Names, NoPack, NoLoop, OnePack, Gone, Writing, Undoing, Custody, Early, StoresAre, Replies
  <2>4. Contents(c)'
    BY <1>0, <2>1, <2>2, MembersAre DEF Contents, Filled, Custody, Records, Loop, Manifest
  <2>5. Replies(c)'
    BY <1>0, <2>1, <2>2, CompilerAssumption DEF Names, Contents, Replies, NoPack, NoLoop, OnePack, Gone, Stored, Filled, Writing, Undoing, Custody, Early, Taken, Standalone, Mismatch, Unconfirmed
  <2>6. Answers(c)'
    BY <1>0, <2>1, <2>2, NotYetAnswered DEF Writing, Undoing
  <2> QED BY <2>3, <2>4, <2>5, <2>6 DEF Made
<1>12. CASE SyncStore(c)
  <2>1. /\ at[c].pc = "sync-store"
        /\ at'[c].pc = "reply"
        /\ at'[c].reply = "ok"
        /\ at'[c].id = at[c].id
        /\ at'[c].answer = at[c].answer
    BY <1>12, <1>0, ReplyShape DEF SyncStore, Shaped, Fields, Custody
  <2>2. /\ durable'.store = disk.store
        /\ disk'.store = disk.store
        /\ disk'.loop = disk.loop
        /\ durable'.loop = durable.loop
        /\ disk'.pack[c] = disk.pack[c]
        /\ durable'.pack[c] = durable.pack[c]
        /\ whole'[c] = whole[c]
    BY <1>12, <1>0, ReplyShape DEF SyncStore, Shaped, Fields, StoresAre
  <2>3. Names(c)'
    BY <1>0, <2>1, <2>2, CompilerAssumption DEF Names, NoPack, NoLoop, OnePack, Gone, Writing, Undoing, Custody, Early, StoresAre, Replies
  <2>4. Contents(c)'
    BY <1>0, <2>1, <2>2, MembersAre DEF Contents, Filled, Custody, Records, Loop, Manifest
  <2>5. Replies(c)'
    BY <1>0, <2>1, <2>2, CompilerAssumption DEF Names, Contents, Replies, NoPack, NoLoop, OnePack, Gone, Stored, Filled, Writing, Undoing, Custody, Early, Taken, Standalone, Mismatch, Unconfirmed
  <2>6. Answers(c)'
    BY <1>0, <2>1, <2>2, NotYetAnswered DEF Writing, Undoing
  <2> QED BY <2>3, <2>4, <2>5, <2>6 DEF Made
<1>13. CASE CallFails(c)
  <2>1. /\ at[c].pc # "done"
        /\ ((at'[c].pc = "reply" /\ at'[c].reply = Unconfirmed) \/ (at'[c].pc = "undo" /\ at[c].pc \in {"enter", "reserve"} \cup Writing))
        /\ at'[c].id = at[c].id
        /\ at'[c].answer = at[c].answer
        /\ at'[c].reserved = at[c].reserved
    BY <1>13, <1>0, ReplyShape, UndoShape DEF CallFails, Shaped, Fields, Custody, Unconfirmed, Mismatch, Writing
  <2>2. /\ (at'[c].pc = "undo" => at'[c].reply = Unconfirmed \/ (at'[c].reply = Mismatch /\ at[c].pc \in {"enter", "reserve"} /\ disk' = disk))
        /\ disk'.store = disk.store
        /\ durable'.store = durable.store
        /\ durable'.loop = durable.loop
    BY <1>13, <1>0, ReplyShape, UndoShape DEF CallFails, Shaped, Fields, StoresAre, Unconfirmed, Mismatch, Writing
  <2>3. Names(c)'
    BY <1>0, <2>1, <2>2, CompilerAssumption DEF Names, NoPack, NoLoop, OnePack, Gone, Writing, Undoing, Custody, Early, StoresAre, Replies
  <2>4. Contents(c)'
    BY <1>0, <2>1, <2>2, MembersAre DEF Contents, Filled, Custody, Records, Loop, Manifest
  <2>5. Replies(c)'
    BY <1>0, <2>1, <2>2, CompilerAssumption DEF Names, Contents, Replies, NoPack, NoLoop, OnePack, Gone, Stored, Filled, Writing, Undoing, Custody, Early, Taken, Standalone, Mismatch, Unconfirmed
  <2>6. Answers(c)'
    BY <1>0, <2>1, <2>2, NotYetAnswered DEF Writing, Undoing
  <2> QED BY <2>3, <2>4, <2>5, <2>6 DEF Made
<1>14. CASE LateCallFails(c)
  <2>1. /\ at'[c].pc = "reply"
        /\ at'[c].reply = Unconfirmed
        /\ at'[c].answer = at[c].answer
        /\ at[c].pc \in Writing
    BY <1>14, <1>0, ReplyShape, MembersAre DEF LateCallFails, Shaped, Fields, Custody, Unconfirmed, Writing
  <2>3. Names(c)'
    BY <1>0, <2>1, CompilerAssumption DEF Names, NoPack, NoLoop, OnePack, Gone, Writing, Undoing, Custody, Early, StoresAre, Replies
  <2>4. Contents(c)'
    BY <1>0, <2>1, MembersAre DEF Contents, Filled, Custody, Records, Loop, Manifest
  <2>5. Replies(c)'
    BY <1>0, <2>1, CompilerAssumption DEF Names, Contents, Replies, NoPack, NoLoop, OnePack, Gone, Stored, Filled, Writing, Undoing, Custody, Early, Taken, Standalone, Mismatch, Unconfirmed
  <2>6. Answers(c)'
    BY <1>0, <2>1, NotYetAnswered DEF Writing, Undoing
  <2> QED BY <2>3, <2>4, <2>5, <2>6 DEF Made
<1>15. CASE UndoMember(c)
  <2>1. /\ at[c].pc = "undo"
        /\ at'[c].pc = "undo"
        /\ at'[c].reply = at[c].reply
        /\ at'[c].reserved = at[c].reserved
        /\ at'[c].id = at[c].id
        /\ at'[c].answer = at[c].answer
    BY <1>15, <1>0 DEF UndoMember, NamesOnly, Shaped, Fields, Custody
  <2>2. /\ disk'.store = disk.store
        /\ durable'.store = durable.store
        /\ disk'.loop = disk.loop
        /\ durable'.loop = durable.loop
        /\ durable'.pack[c] = durable.pack[c]
        /\ whole'[c] = whole[c]
    BY <1>15, <1>0 DEF UndoMember, NamesOnly, Shaped, Fields, StoresAre
  <2>3. Names(c)'
    BY <1>0, <2>1, <2>2, CompilerAssumption DEF Names, NoPack, NoLoop, OnePack, Gone, Writing, Undoing, Custody, Early, StoresAre, Replies
  <2>4. Contents(c)'
    BY <1>0, <2>1, <2>2, MembersAre DEF Contents, Filled, Custody, Records, Loop, Manifest
  <2>5. Replies(c)'
    BY <1>0, <2>1, <2>2, CompilerAssumption DEF Names, Contents, Replies, NoPack, NoLoop, OnePack, Gone, Stored, Filled, Writing, Undoing, Custody, Early, Taken, Standalone, Mismatch, Unconfirmed
  <2>6. Answers(c)'
    BY <1>0, <2>1, <2>2, NotYetAnswered DEF Writing, Undoing
  <2> QED BY <2>3, <2>4, <2>5, <2>6 DEF Made
<1>16. CASE UndoLoop(c)
  <2>1. /\ at[c].pc = "undo"
        /\ at'[c].pc = "undo-pack"
        /\ at'[c].reply = at[c].reply
        /\ at'[c].reserved = at[c].reserved
        /\ at'[c].id = at[c].id
        /\ at'[c].answer = at[c].answer
    BY <1>16, <1>0, GotoShape DEF UndoLoop, NamesOnly, Shaped, Fields, Custody
  <2>2. /\ disk'.loop \in {disk.loop, None}
        /\ disk'.store = disk.store
        /\ durable'.store = durable.store
        /\ durable'.loop = durable.loop
        /\ disk'.pack[c] = disk.pack[c]
        /\ durable'.pack[c] = durable.pack[c]
        /\ whole'[c] = whole[c]
    BY <1>16, <1>0, GotoShape DEF UndoLoop, NamesOnly, Shaped, Fields, StoresAre
  <2>3. Names(c)'
    BY <1>0, <2>1, <2>2, CompilerAssumption DEF Names, NoPack, NoLoop, OnePack, Gone, Writing, Undoing, Custody, Early, StoresAre, Replies
  <2>4. Contents(c)'
    BY <1>0, <2>1, <2>2, MembersAre DEF Contents, Filled, Custody, Records, Loop, Manifest
  <2>5. Replies(c)'
    BY <1>0, <2>1, <2>2, CompilerAssumption DEF Names, Contents, Replies, NoPack, NoLoop, OnePack, Gone, Stored, Filled, Writing, Undoing, Custody, Early, Taken, Standalone, Mismatch, Unconfirmed
  <2>6. Answers(c)'
    BY <1>0, <2>1, <2>2, NotYetAnswered DEF Writing, Undoing
  <2> QED BY <2>3, <2>4, <2>5, <2>6 DEF Made
<1>17. CASE UndoPack(c)
  <2>1. /\ at[c].pc = "undo-pack"
        /\ at'[c].reply = at[c].reply
        /\ at'[c].reserved = at[c].reserved
        /\ at'[c].answer = at[c].answer
    BY <1>17, <1>0, GotoShape DEF UndoPack, NamesOnly, Shaped, Fields, Custody
  <2>2. /\ ((at'[c].pc = "sync-undone" /\ disk'.store = [disk.store EXCEPT ![at[c].id] = None]) \/ (at'[c].pc = "sync-undone-loop" /\ ~at'[c].clean /\ disk'.store = disk.store))
        /\ durable'.store = durable.store
        /\ disk'.loop = disk.loop
        /\ durable'.loop = durable.loop
        /\ disk'.pack[c] = disk.pack[c]
        /\ durable'.pack[c] = durable.pack[c]
        /\ whole'[c] = whole[c]
    BY <1>17, <1>0, GotoShape DEF UndoPack, NamesOnly, Shaped, Fields, StoresAre
  <2>3. Names(c)'
    BY <1>0, <2>1, <2>2, CompilerAssumption DEF Names, NoPack, NoLoop, OnePack, Gone, Writing, Undoing, Custody, Early, StoresAre, Replies
  <2>4. Contents(c)'
    BY <1>0, <2>1, <2>2, MembersAre DEF Contents, Filled, Custody, Records, Loop, Manifest
  <2>5. Replies(c)'
    BY <1>0, <2>1, <2>2, CompilerAssumption DEF Names, Contents, Replies, NoPack, NoLoop, OnePack, Gone, Stored, Filled, Writing, Undoing, Custody, Early, Taken, Standalone, Mismatch, Unconfirmed
  <2>6. Answers(c)'
    BY <1>0, <2>1, <2>2, NotYetAnswered DEF Writing, Undoing
  <2> QED BY <2>3, <2>4, <2>5, <2>6 DEF Made
<1>18. CASE SyncUndone(c)
  <2>1. /\ at[c].pc = "sync-undone"
        /\ at'[c].pc = "sync-undone-loop"
        /\ at'[c].reply = at[c].reply
        /\ at'[c].reserved = at[c].reserved
        /\ at'[c].answer = at[c].answer
    BY <1>18, <1>0, GotoShape DEF SyncUndone, Shaped, Fields, Custody
  <2>2. /\ durable'.store = disk.store
        /\ disk'.store = disk.store
        /\ disk'.loop = disk.loop
        /\ durable'.loop = durable.loop
        /\ disk'.pack[c] = disk.pack[c]
        /\ durable'.pack[c] = durable.pack[c]
        /\ whole'[c] = whole[c]
    BY <1>18, <1>0, GotoShape DEF SyncUndone, Shaped, Fields, StoresAre
  <2>3. Names(c)'
    BY <1>0, <2>1, <2>2, CompilerAssumption DEF Names, NoPack, NoLoop, OnePack, Gone, Writing, Undoing, Custody, Early, StoresAre, Replies
  <2>4. Contents(c)'
    BY <1>0, <2>1, <2>2, MembersAre DEF Contents, Filled, Custody, Records, Loop, Manifest
  <2>5. Replies(c)'
    BY <1>0, <2>1, <2>2, CompilerAssumption DEF Names, Contents, Replies, NoPack, NoLoop, OnePack, Gone, Stored, Filled, Writing, Undoing, Custody, Early, Taken, Standalone, Mismatch, Unconfirmed
  <2>6. Answers(c)'
    BY <1>0, <2>1, <2>2, NotYetAnswered DEF Writing, Undoing
  <2> QED BY <2>3, <2>4, <2>5, <2>6 DEF Made
<1>19. CASE SyncUndoneLoop(c)
  <2>1. /\ at[c].pc = "sync-undone-loop"
        /\ at'[c].pc = "reply"
        /\ ((at[c].clean /\ at'[c].reply = at[c].reply) \/ at'[c].reply = Unconfirmed)
        /\ at'[c].answer = at[c].answer
    BY <1>19, <1>0, ReplyShape DEF SyncUndoneLoop, CleanReply, Shaped, Fields, Custody, Unconfirmed
  <2>2. /\ (~at[c].reserved => durable'.loop = durable.loop)
        /\ disk'.store = disk.store
        /\ durable'.store = durable.store
        /\ disk'.loop = disk.loop
        /\ disk'.pack[c] = disk.pack[c]
        /\ durable'.pack[c] = durable.pack[c]
        /\ whole'[c] = whole[c]
    BY <1>19, <1>0, ReplyShape DEF SyncUndoneLoop, CleanReply, Shaped, Fields, StoresAre, Unconfirmed
  <2>3. Names(c)'
    BY <1>0, <2>1, <2>2, CompilerAssumption DEF Names, NoPack, NoLoop, OnePack, Gone, Writing, Undoing, Custody, Early, StoresAre, Replies
  <2>4. Contents(c)'
    BY <1>0, <2>1, <2>2, MembersAre DEF Contents, Filled, Custody, Records, Loop, Manifest
  <2>5. Replies(c)'
    BY <1>0, <2>1, <2>2, CompilerAssumption DEF Names, Contents, Replies, NoPack, NoLoop, OnePack, Gone, Stored, Filled, Writing, Undoing, Custody, Early, Taken, Standalone, Mismatch, Unconfirmed
  <2>6. Answers(c)'
    BY <1>0, <2>1, <2>2, NotYetAnswered DEF Writing, Undoing
  <2> QED BY <2>3, <2>4, <2>5, <2>6 DEF Made
<1>20. CASE UndoFails(c)
  <2>1. /\ at[c].pc \in Undoing
        /\ ((at'[c].pc = "reply" /\ at'[c].reply = Unconfirmed) \/ (at[c].pc = "undo" /\ at'[c].pc \in {"undo", "undo-pack"} /\ at'[c].reply = at[c].reply) \/ (at'[c].pc = "sync-undone-loop" /\ ~at'[c].clean /\ at'[c].reply = at[c].reply))
        /\ at'[c].reserved = at[c].reserved
        /\ at'[c].id = at[c].id
        /\ at'[c].answer = at[c].answer
    BY <1>20, <1>0, GotoShape, ReplyShape DEF UndoFails, CleanReply, Shaped, Fields, Custody, Unconfirmed, Undoing
  <2>2. /\ disk'.store = disk.store
        /\ durable'.store = durable.store
        /\ disk'.loop = disk.loop
        /\ durable'.loop = durable.loop
        /\ disk'.pack[c] = disk.pack[c]
        /\ durable'.pack[c] = durable.pack[c]
        /\ whole'[c] = whole[c]
    BY <1>20, <1>0, GotoShape, ReplyShape DEF UndoFails, CleanReply, Shaped, Fields, StoresAre, Unconfirmed, Undoing
  <2>3. Names(c)'
    BY <1>0, <2>1, <2>2, CompilerAssumption DEF Names, NoPack, NoLoop, OnePack, Gone, Writing, Undoing, Custody, Early, StoresAre, Replies
  <2>4. Contents(c)'
    BY <1>0, <2>1, <2>2, MembersAre DEF Contents, Filled, Custody, Records, Loop, Manifest
  <2>5. Replies(c)'
    BY <1>0, <2>1, <2>2, CompilerAssumption DEF Names, Contents, Replies, NoPack, NoLoop, OnePack, Gone, Stored, Filled, Writing, Undoing, Custody, Early, Taken, Standalone, Mismatch, Unconfirmed
  <2>6. Answers(c)'
    BY <1>0, <2>1, <2>2, NotYetAnswered DEF Writing, Undoing
  <2> QED BY <2>3, <2>4, <2>5, <2>6 DEF Made
<1> QED BY <1>1, <1>2, <1>3, <1>4, <1>5, <1>6, <1>7, <1>8, <1>9, <1>10, <1>11, <1>12, <1>13, <1>14, <1>15, <1>16, <1>17, <1>18, <1>19, <1>20
       DEF Step, WriterChild

(* No step adds an id to a store.                                          *)
LEMMA StoresStay ==
  ASSUME Shaped, StoresAre, NEW c \in Compilers, Step(c)
  PROVE  StoresAre'
<1>1. CASE Prepare(c) \/ Receive(c) \/ TimesOut(c) \/ EnterPack(c) \/ WriteMember(c) \/ FillLoop(c) \/ UndoFails(c)
  BY <1>1 DEF Prepare, Receive, TimesOut, EnterPack, WriteMember, FillLoop, UndoFails, DiskStays, Shaped, StoresAre
<1>2. CASE MakePack(c)
  BY <1>2 DEF MakePack, NamesOnly, Shaped, StoresAre
<1>3. CASE Reserve(c)
  BY <1>3 DEF Reserve, NamesOnly, Shaped, StoresAre
<1>4. CASE UndoPack(c)
  BY <1>4 DEF UndoPack, NamesOnly, Shaped, StoresAre
<1>5. CASE CreateMember(c) \/ UndoMember(c) \/ UndoLoop(c)
  BY <1>5 DEF CreateMember, UndoMember, UndoLoop, NamesOnly, Shaped, StoresAre
<1>6. CASE CallFails(c)
  BY <1>6 DEF CallFails, Shaped, StoresAre
<1>7. CASE LateCallFails(c)
  BY <1>7 DEF LateCallFails, Shaped, StoresAre
<1>8. CASE SyncLoop(c) \/ SyncPack(c) \/ SyncStore(c) \/ SyncUndone(c) \/ SyncUndoneLoop(c)
  BY <1>8 DEF SyncLoop, SyncPack, SyncStore, SyncUndone, SyncUndoneLoop, Shaped, StoresAre
<1> QED BY <1>1, <1>2, <1>3, <1>4, <1>5, <1>6, <1>7, <1>8 DEF Step, WriterChild

(* Every step keeps what was made, and the stores keep their ids.          *)
LEMMA MadeStep ==
  ASSUME Shaped, CustodyInv, MadeInv, [Next]_vars
  PROVE  MadeInv'
<1>1. CASE UNCHANGED vars
  <2>1. ASSUME NEW d \in Compilers PROVE Untouched(d)
    BY <1>1 DEF vars, Untouched
  <2> QED BY <1>1, <2>1, UntouchedStaysMade DEF vars, MadeInv, StoresAre
<1>2. CASE PowerLoss
  <2>1. StoresAre'
    BY <1>2 DEF PowerLoss, StoresAre
  <2>2. ASSUME NEW d \in Compilers PROVE Made(d)'
    <3>1. /\ disk'.loop \in {disk.loop, durable.loop} /\ durable' = disk' /\ whole' = whole
          /\ \A i \in Ids : disk'.store[i] \in {disk.store[i], durable.store[i]}
          /\ disk.pack[d] \cap durable.pack[d] \subseteq disk'.pack[d]
      BY <1>2 DEF PowerLoss, Between, Shaped
    <3>2. /\ Made(d)
          /\ (at'[d] = at[d] /\ at[d].pc \in {"idle", "done"}) \/ (at'[d].pc = "gone" /\ at'[d].answer = "none")
      BY <1>2 DEF PowerLoss, Idle, Shaped, Fields, MadeInv
    <3>3. Names(d)'
      BY <3>1, <3>2 DEF Made, Names, NoPack, NoLoop, Writing, Undoing
    <3>4. Contents(d)' /\ Replies(d)'
      BY <3>2 DEF Contents, Replies, Undoing
    <3>5. Answers(d)'
      BY <3>1, <3>2 DEF Made, Answers, NoPack, NoLoop, Stored, Refusals, Mismatch
    <3> QED BY <3>3, <3>4, <3>5 DEF Made
  <2> QED BY <2>1, <2>2 DEF MadeInv
<1>3. ASSUME NEW c \in Compilers, Step(c) PROVE MadeInv'
  <2>1. ASSUME NEW d \in Compilers PROVE Made(d)'
    <3>1. CASE d = c
      BY <1>3, <3>1, OwnMade
    <3>2. CASE d # c
      BY <1>3, <3>2, OthersUntouched, UntouchedStaysMade DEF MadeInv
    <3> QED BY <3>1, <3>2
  <2>2. StoresAre'
    BY <1>3, StoresStay DEF MadeInv
  <2> QED BY <2>1, <2>2 DEF MadeInv
<1> QED BY <1>1, <1>2, <1>3 DEF Next, Step

(* Nothing is made at first.                                               *)
LEMMA InitMade == Init => MadeInv
<1> SUFFICES ASSUME Init PROVE MadeInv
  OBVIOUS
<1>1. \A c \in Compilers : at[c].pc = "idle" /\ at[c].answer = "none"
  BY DEF Init, Idle
<1>2. StoresAre /\ \A c \in Compilers : NoPack(c) /\ NoLoop(c)
  BY CompilerAssumption DEF Init, NoNames, StoresAre, NoPack, NoLoop
<1> QED BY <1>1, <1>2 DEF MadeInv, Made, Names, Contents, Replies, Answers, Refusals, Writing, Undoing, Mismatch

(* "ok" outlives every failure and power loss, with the loop that was      *)
(* asked for, and what a refusal says is not there never comes back        *)
(* (compiler-writer-child.ts:290-322).                                     *)
THEOREM AnswersAreTruthful == Spec => []CompileAnswersTruthful
<1>1. Shaped /\ CustodyInv /\ MadeInv /\ [Next]_vars => (Shaped /\ CustodyInv /\ MadeInv)'
  BY ShapedStep, CustodyStep, MadeStep
<1>2. CustodyInv /\ MadeInv => CompileAnswersTruthful
  <2> SUFFICES ASSUME CustodyInv, MadeInv, NEW c \in Compilers
               PROVE  /\ at[c].answer = "ok" =>
                           /\ disk.store[at[c].id] = c /\ durable.store[at[c].id] = c
                           /\ Member \subseteq disk.pack[c] \cap durable.pack[c] \cap whole[c]
                           /\ c \in WantLoop => HasLoop(c)
                      /\ at[c].answer \in Refusals => NoPack(c) /\ NoLoop(c)
    BY DEF CompileAnswersTruthful, HasLoop, NoPack, NoLoop, Refusals, Mismatch
  <2>1. Custody(c) /\ Answers(c)
    BY DEF CustodyInv, MadeInv, Made
  <2>2. ASSUME at[c].answer = "ok"
        PROVE  Stored(c) /\ (c \in WantLoop => HasLoop(c))
    BY <2>1, <2>2 DEF Answers, Stored, Custody, WantLoop, Manifest
  <2> QED BY <2>1, <2>2, MembersAre DEF Answers, Stored, Records, Loop, Manifest
<1> QED BY InitInv, InitMade, <1>1, <1>2, PTL DEF Spec
=============================================================================

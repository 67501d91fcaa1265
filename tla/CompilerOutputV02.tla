------------------------- MODULE CompilerOutputV02 -------------------------
(***************************************************************************)
(* How a V02 compile puts its pack in the compile store, and the generated *)
(* loop at the path the user asked for (compileV02, writeV02Compiler-      *)
(* Outputs and the writer child).  The parent chooses a random compile id  *)
(* and starts a child with a timer of 30 s; the child makes the pack's     *)
(* directory, reserves the standalone file, writes the members, the        *)
(* standalone file and, the last, the manifest.  What fails before the     *)
(* manifest is taken back.                                                 *)
(*                                                                         *)
(* Names live in three directories, the store, the pack and the parent of  *)
(* the standalone file, each synced on its own: a power loss keeps or      *)
(* loses every change that was not synced, independently of the others.    *)
(* What was written to a file and synced is in it wherever its name is.    *)
(* A compile makes at most one pack and one standalone file, so a compile  *)
(* stands for the files it made.                                           *)
(***************************************************************************)
EXTENDS Naturals, Sequences, FiniteSets

CONSTANTS
  Compilers,    \* compiles that run at the same time in one workspace
  Ids,          \* compile ids: random, so that two may be the same
  None,
  MaxAttempts,  \* COMPILE_ID_ATTEMPTS, 16 in the code
  MaxFaults     \* bound: how many calls fail, and power losses there are

ASSUME CompilerAssumption ==
  /\ None \notin Compilers \cup Ids
  /\ MaxAttempts \in Nat \ {0} /\ MaxFaults \in Nat

VARIABLES
  disk,     \* the names every process sees: store, pack, loop
  durable,  \* the names that were synced
  whole,    \* the files of each compile that were written and synced
  at,       \* where each compile is
  faults

vars == <<disk, durable, whole, at, faults>>

(* COMPILED_PACK_MEMBERS: the records, which are alike, and the generated  *)
(* loop; the manifest is the last.                                         *)
Members == <<"records", "loop", "manifest">>

Member == {Members[n] : n \in DOMAIN Members}

Last == Len(Members)

NoNames == [store |-> [i \in Ids |-> None], pack |-> [c \in Compilers |-> {}], loop |-> None]

(* One in wants has come to a loop, and was asked for a copy of it, always *)
(* at the same path; the others have neither.                              *)
Idle(wants) == [pc |-> "idle", wants |-> wants, id |-> None, tries |-> 0, n |-> 0, reserved |-> FALSE, clean |-> TRUE, reply |-> "none",
                answer |-> "none"]

Init ==
  /\ disk = NoNames /\ durable = NoNames
  /\ whole = [c \in Compilers |-> {}]
  /\ \E wants \in SUBSET Compilers : at = [c \in Compilers |-> Idle(c \in wants)]
  /\ faults = 0

WantLoop == {c \in Compilers : at[c].wants}

-----------------------------------------------------------------------------
Goto(c, pc) == at' = [at EXCEPT ![c].pc = pc]

(* The child's answer, on its standard output.                             *)
Reply(c, reply) == at' = [at EXCEPT ![c].pc = "reply", ![c].reply = reply]

Answer(c, answer) == at' = [at EXCEPT ![c] = [Idle(@.wants) EXCEPT !.pc = "done", !.id = at[c].id, !.answer = answer]]

(* cleanupBeforeManifest, of n members; then the child replies.            *)
Undo(c, n, reply) == at' = [at EXCEPT ![c].pc = "undo", ![c].n = n, ![c].reply = reply]

Child == {"mkdir", "enter", "reserve", "create", "write", "fill", "sync-loop", "sync-pack", "sync-store",
          "undo", "undo-pack", "sync-undone", "sync-undone-loop", "reply"}

DiskStays == UNCHANGED <<disk, durable, whole, faults>>
NamesOnly == UNCHANGED <<durable, whole, faults>>

(* admitOutputSet of every purpose, and createV02CompilerWriteAuthoritySet *)
(* for an id: whether the bytes are admitted is for the data to decide.    *)
(* One that is refused ends the compile, with nothing on the disk.         *)
Prepare(c) ==
  /\ at[c].pc \in {"idle", "again"}
  /\ \/ Answer(c, "rejected")
     \/ \E i \in Ids : at' = [at EXCEPT ![c].pc = "mkdir", ![c].id = i, ![c].tries = @ + 1]
  /\ DiskStays

-----------------------------------------------------------------------------
(* The writer child                                                        *)

MakePack(c) ==
  /\ at[c].pc = "mkdir"
  /\ IF disk.store[at[c].id] = None
     THEN disk' = [disk EXCEPT !.store[at[c].id] = c] /\ Goto(c, "enter")
     ELSE Reply(c, "DESTINATION_EXISTS compile-pack") /\ UNCHANGED disk
  /\ NamesOnly

EnterPack(c) ==
  /\ at[c].pc = "enter"
  /\ at' = [at EXCEPT ![c].pc = IF c \in WantLoop THEN "reserve" ELSE "create", ![c].n = 1]
  /\ DiskStays

Reserve(c) ==
  /\ at[c].pc = "reserve"
  /\ IF disk.loop = None
     THEN disk' = [disk EXCEPT !.loop = c] /\ at' = [at EXCEPT ![c].pc = "create", ![c].reserved = TRUE]
     ELSE Undo(c, 0, "DESTINATION_EXISTS standalone-loop") /\ UNCHANGED disk
  /\ NamesOnly

CreateMember(c) ==
  /\ at[c].pc = "create"
  /\ disk' = [disk EXCEPT !.pack[c] = @ \cup {Members[at[c].n]}]
  /\ Goto(c, "write")
  /\ NamesOnly

WriteMember(c) ==
  LET n == at[c].n IN
  /\ at[c].pc = "write"
  /\ whole' = [whole EXCEPT ![c] = @ \cup {Members[n]}]
  /\ IF n = Last THEN Goto(c, "sync-pack")
     ELSE IF n = Last - 1 /\ c \in WantLoop THEN Goto(c, "fill")
     ELSE at' = [at EXCEPT ![c].pc = "create", ![c].n = n + 1]
  /\ UNCHANGED <<disk, durable, faults>>

FillLoop(c) ==
  /\ at[c].pc = "fill"
  /\ whole' = [whole EXCEPT ![c] = @ \cup {"standalone"}]
  /\ Goto(c, "sync-loop")
  /\ UNCHANGED <<disk, durable, faults>>

(* Mutant: the parent of the standalone file is not synced.                *)
SkipSyncLoop(c) ==
  /\ at[c].pc = "sync-loop"
  /\ at' = [at EXCEPT ![c].pc = "create", ![c].n = Last]
  /\ DiskStays

SyncLoop(c) ==
  /\ at[c].pc = "sync-loop"
  /\ durable' = [durable EXCEPT !.loop = disk.loop]
  /\ at' = [at EXCEPT ![c].pc = "create", ![c].n = Last]
  /\ UNCHANGED <<disk, whole, faults>>

SyncPack(c) ==
  /\ at[c].pc = "sync-pack"
  /\ durable' = [durable EXCEPT !.pack[c] = disk.pack[c]]
  /\ Goto(c, "sync-store")
  /\ UNCHANGED <<disk, whole, faults>>

SyncStore(c) ==
  /\ at[c].pc = "sync-store"
  /\ durable' = [durable EXCEPT !.store = disk.store]
  /\ Reply(c, "ok")
  /\ UNCHANGED <<disk, whole, faults>>

(* A call fails before the manifest was started.  A file whose mode could  *)
(* not be confirmed stays behind, unnoted (reserveFile).                   *)
CallFails(c) ==
  /\ at[c].pc \in {"mkdir", "enter", "reserve", "create", "write", "fill", "sync-loop"}
  /\ ~(at[c].pc \in {"create", "write"} /\ at[c].n = Last)
  /\ faults < MaxFaults /\ faults' = faults + 1
  /\ \/ at[c].pc \in {"mkdir", "enter"} /\ Reply(c, "IO_DURABILITY_UNCONFIRMED") /\ UNCHANGED disk
     \/ /\ at[c].pc = "enter" /\ UNCHANGED disk
        /\ \E reply \in {"IO_IDENTITY_MISMATCH", "IO_DURABILITY_UNCONFIRMED"} : Undo(c, 0, reply)
     \/ /\ at[c].pc = "reserve"
        /\ \/ \E reply \in {"IO_IDENTITY_MISMATCH", "IO_DURABILITY_UNCONFIRMED"} : Undo(c, 0, reply) /\ UNCHANGED disk
           \/ /\ disk.loop = None
              /\ disk' = [disk EXCEPT !.loop = c] /\ Undo(c, 0, "IO_DURABILITY_UNCONFIRMED")
     \/ /\ at[c].pc = "create" /\ Undo(c, at[c].n - 1, "IO_DURABILITY_UNCONFIRMED")
        /\ disk' \in {disk, [disk EXCEPT !.pack[c] = @ \cup {Members[at[c].n]}]}
     \/ /\ at[c].pc \in {"write", "fill", "sync-loop"}
        /\ Undo(c, at[c].n, "IO_DURABILITY_UNCONFIRMED") /\ UNCHANGED disk
  /\ UNCHANGED <<durable, whole>>

(* After that nothing is taken back.                                       *)
LateCallFails(c) ==
  /\ \/ at[c].pc \in {"create", "write"} /\ at[c].n = Last
     \/ at[c].pc \in {"sync-pack", "sync-store"}
  /\ faults < MaxFaults /\ faults' = faults + 1
  /\ \/ UNCHANGED disk
     \/ at[c].pc = "create" /\ disk' = [disk EXCEPT !.pack[c] = @ \cup {Members[Last]}]
  /\ Reply(c, "IO_DURABILITY_UNCONFIRMED")
  /\ UNCHANGED <<durable, whole>>

-----------------------------------------------------------------------------
(* cleanupBeforeManifest: one call after the other, and whether all of     *)
(* them did it.                                                            *)

UndoMember(c) ==
  /\ at[c].pc = "undo" /\ at[c].n > 0
  /\ disk' = [disk EXCEPT !.pack[c] = @ \ {Members[at[c].n]}]
  /\ at' = [at EXCEPT ![c].n = @ - 1]
  /\ NamesOnly

UndoLoop(c) ==
  /\ at[c].pc = "undo" /\ at[c].n = 0
  /\ disk' = IF at[c].reserved THEN [disk EXCEPT !.loop = None] ELSE disk
  /\ Goto(c, "undo-pack")
  /\ NamesOnly

(* rmdir, of an empty directory; the store is synced only if it worked.    *)
UndoPack(c) ==
  /\ at[c].pc = "undo-pack"
  /\ IF disk.pack[c] = {}
     THEN disk' = [disk EXCEPT !.store[at[c].id] = None] /\ Goto(c, "sync-undone")
     ELSE at' = [at EXCEPT ![c].pc = "sync-undone-loop", ![c].clean = FALSE] /\ UNCHANGED disk
  /\ NamesOnly

SyncUndone(c) ==
  /\ at[c].pc = "sync-undone"
  /\ durable' = [durable EXCEPT !.store = disk.store]
  /\ Goto(c, "sync-undone-loop")
  /\ UNCHANGED <<disk, whole, faults>>

CleanReply(c, clean) == Reply(c, IF clean THEN at[c].reply ELSE "IO_DURABILITY_UNCONFIRMED")

SyncUndoneLoop(c) ==
  /\ at[c].pc = "sync-undone-loop"
  /\ durable' = IF at[c].reserved THEN [durable EXCEPT !.loop = disk.loop] ELSE durable
  /\ CleanReply(c, at[c].clean)
  /\ UNCHANGED <<disk, whole, faults>>

(* Mutant: it is not told that something could not be taken back.          *)
UndoFailsUnseen(c) ==
  /\ faults < MaxFaults /\ faults' = faults + 1
  /\ \/ at[c].pc = "undo" /\ at[c].n > 0 /\ at' = [at EXCEPT ![c].n = @ - 1]
     \/ at[c].pc = "undo" /\ at[c].n = 0 /\ at[c].reserved /\ Goto(c, "undo-pack")
     \/ at[c].pc \in {"undo-pack", "sync-undone"} /\ Goto(c, "sync-undone-loop")
     \/ at[c].pc = "sync-undone-loop" /\ at[c].reserved /\ CleanReply(c, TRUE)
  /\ UNCHANGED <<disk, durable, whole>>

UndoFails(c) ==
  /\ faults < MaxFaults /\ faults' = faults + 1
  /\ \/ at[c].pc = "undo" /\ at[c].n > 0 /\ at' = [at EXCEPT ![c].n = @ - 1, ![c].clean = FALSE]
     \/ at[c].pc = "undo" /\ at[c].n = 0 /\ at[c].reserved /\ at' = [at EXCEPT ![c].pc = "undo-pack", ![c].clean = FALSE]
     \/ at[c].pc \in {"undo-pack", "sync-undone"} /\ at' = [at EXCEPT ![c].pc = "sync-undone-loop", ![c].clean = FALSE]
     \/ at[c].pc = "sync-undone-loop" /\ at[c].reserved /\ CleanReply(c, FALSE)
  /\ UNCHANGED <<disk, durable, whole>>

-----------------------------------------------------------------------------
(* The parent                                                              *)

(* Only a pack that exists is tried again, under another id.               *)
Receive(c) ==
  /\ at[c].pc = "reply"
  /\ IF at[c].reply = "DESTINATION_EXISTS compile-pack"
     THEN IF at[c].tries < MaxAttempts
          THEN at' = [at EXCEPT ![c].pc = "again", ![c].reply = "none"]
          ELSE Answer(c, "COMPILE_ID_COLLISION_LIMIT")
     ELSE IF at[c].reply = "DESTINATION_EXISTS standalone-loop" THEN Answer(c, "DESTINATION_EXISTS")
     ELSE Answer(c, at[c].reply)
  /\ DiskStays

(* Mutant: the child is only killed once it has replied.                   *)
TimesOutLate(c) ==
  /\ at[c].pc = "reply"
  /\ Answer(c, "IO_HELPER_UNAVAILABLE")
  /\ DiskStays

(* The timer of 30 s, or the child has crashed: it is gone wherever it is. *)
TimesOut(c) ==
  /\ at[c].pc \in Child
  /\ Answer(c, "IO_HELPER_UNAVAILABLE")
  /\ DiskStays

-----------------------------------------------------------------------------
(* What may be left of two sets of names.                                  *)
Between(a, b) == {x \in SUBSET (a \cup b) : a \cap b \subseteq x}

PowerLoss ==
  /\ faults < MaxFaults /\ faults' = faults + 1
  /\ \E store \in [Ids -> Compilers \cup {None}], pack \in [Compilers -> SUBSET Member], loop \in {disk.loop, durable.loop} :
       /\ \A i \in Ids : store[i] \in {disk.store[i], durable.store[i]}
       /\ \A c \in Compilers : pack[c] \in Between(disk.pack[c], durable.pack[c])
       /\ disk' = [store |-> store, pack |-> pack, loop |-> loop]
       /\ durable' = disk'
  /\ at' = [c \in Compilers |-> IF at[c].pc \in {"idle", "done"} THEN at[c] ELSE [Idle(at[c].wants) EXCEPT !.pc = "gone"]]
  /\ UNCHANGED whole

WriterChild(c) ==
  \/ MakePack(c) \/ EnterPack(c) \/ Reserve(c) \/ CreateMember(c) \/ WriteMember(c) \/ FillLoop(c)
  \/ SyncLoop(c) \/ SyncPack(c) \/ SyncStore(c) \/ CallFails(c) \/ LateCallFails(c)
  \/ UndoMember(c) \/ UndoLoop(c) \/ UndoPack(c) \/ SyncUndone(c) \/ SyncUndoneLoop(c) \/ UndoFails(c)

Next ==
  \/ PowerLoss
  \/ \E c \in Compilers : Prepare(c) \/ WriterChild(c) \/ Receive(c) \/ TimesOut(c)

(* The parent goes on and its timer fires; nothing is asked of the child.  *)
Spec ==
  /\ Init /\ [][Next]_vars
  /\ \A c \in Compilers : WF_vars(Prepare(c)) /\ WF_vars(Receive(c)) /\ WF_vars(TimesOut(c))

-----------------------------------------------------------------------------
(* readCompilePackV02 accepts a pack with all its members whole; what a    *)
(* power loss may leave of it counts.                                      *)
Readable(c) ==
  /\ \E i \in Ids : c \in {disk.store[i], durable.store[i]}
  /\ Member \subseteq (disk.pack[c] \cup durable.pack[c]) \cap whole[c]

(* The pack is manifest-last (docs/architecture/s35-contract-closure.md:22 *)
(* and 67): where it can be read, after any failure, time-out or power     *)
(* loss, the standalone loop that was asked for is there, whole and synced *)
(* (compiler-writer-child.ts:241-283).                                     *)
ReadablePacksAreComplete ==
  \A c \in WantLoop :
    Readable(c) => disk.loop = c /\ durable.loop = c /\ "standalone" \in whole[c]

(* "ok" outlives a power loss, and nobody takes it away again; the answers *)
(* that the destination exists, that an identity changed or that there was *)
(* no free id mean that nothing of the compile is on the disk, nor will    *)
(* come back (compiler-writer-child.ts:290-322).                           *)
CompileAnswersTruthful ==
  \A c \in Compilers :
    /\ at[c].answer = "ok" =>
         /\ disk.store[at[c].id] = c /\ durable.store[at[c].id] = c
         /\ Member \subseteq disk.pack[c] \cap durable.pack[c] \cap whole[c]
         /\ c \in WantLoop => disk.loop = c /\ durable.loop = c /\ "standalone" \in whole[c]
    /\ at[c].answer \in {"rejected", "DESTINATION_EXISTS", "COMPILE_ID_COLLISION_LIMIT", "IO_IDENTITY_MISMATCH"} =>
         /\ \A i \in Ids : c \notin {disk.store[i], durable.store[i]}
         /\ c \notin {disk.loop, durable.loop}

(* A compile is answered even if its child hangs, unless the machine goes  *)
(* down (compiler-writer-helper.ts:37-40).                                 *)
CompilesAreAnswered == \A c \in Compilers : <>(at[c].pc \in {"done", "gone"})
=============================================================================

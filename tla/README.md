# Loopeix: verification

TLA+ models of Loopeix with the TLC runs that check them and the theorems that
TLAPS proves about them. Paths below are relative to the repository's `src/`
directory (`run/lock.ts` style names mean `src/run/...`); `PROJECT.json` names,
for every definition, the lines it translates.

## 1. The system

Loopeix validates YAML "loops", compiles packs, plans runs, replays captured
agent event streams into a hash-chained ledger, evaluates gates, computes
verdicts and signs receipts. Beside the replaying CLI there are three
generations of a runtime that records what an agent does while it does it. The
latest, V04, keeps a ledger, a manifest and record files in a run directory,
and lets operators pause, abort, revoke, resume, reconcile and end a run that
other processes work on. The kernel that admits actions is not in the
repository: the writers and the reducer fix what it may append, and it is
modelled from that.

| Component (sources) | State | Operations | What makes it correct | Model |
|---|---|---|---|---|
| Durable run store (`run/runtime-file-store-v04.ts`) | `ledger.jsonl`, `run-manifest.json`, artifact directories, the lock file; a session's token, poisoned flag, captured store | capture, open, commit, commit with artifacts, compaction, close | one session at a time; what was acknowledged survives any crash; what was refused left nothing; each batch takes effect on top of what its writer saw | `FileStoreV04` |
| Advisory lock (`lock.ts`) | one lock file; each process's view of it | acquire, steal by rename, confirm, release | a holder keeps the lock; only stale locks are stolen; release removes its own | `AdvisoryLock` |
| Signing key (`keys.ts`) | key file, `.gen.lock` | ensureSigningKey | all callers end up with one key, which is never replaced | `SigningKey` |
| Runtime reducer V04 (`run/runtime-state-reducer-v04.ts`, `run/runtime-ledger-v04.ts`) | attempt, fence, leases, requests, pause, abort, quarantine, revocation, in-flight actions, terminal freeze | one transition per event kind | adjacency of request and effect, single use of requests | `RuntimeReducerV04` |
| Control plane V04 (`run/runtime-write-session-v04.ts` and the `*-write-v04.ts` writers) | captures (single-use tokens) bound to head, attempt and fence | heartbeat, release, pause, abort, revoke, resume, reconcile, terminal | no lease outlives its epoch, stops reach what they were authorized for, answers are true | `WriteSessionV04`, `FencedRun` |
| Product host custody (`run/s37-product-host-lifecycle-v03.ts`) | anchor, lifecycle and transition-lock files | mutate, observe, reconcile | custody is whole wherever unlocked; anchors form one chain | `ProductHostLifecycle` |
| Termination V04 (`run/terminal-snapshot.ts`, `run/terminal-evaluator.ts`, `run/compensation-projection-v02.ts`, `run/runtime-terminal-v04.ts`, `run/runtime-terminal-write-v04.ts`, `run/runtime-compensation-write-v04.ts`) | the ledger's freeze, compensation request, phase, settlements and seal; projections that writers have built | project, evaluate, write what was decided | a run is sealed with the highest candidate that is proven, and what it did is settled as the facts say | `TerminationV04` |
| Limit accounting, status, summary V04 | none (pure) | projections of a reduced run | counters never wrap | not modelled |
| Runtime V03 (`run/runtime-execution-coordinator-v03.ts`, `runtime-write-session-v03.ts`, admission, dispatch broker, observation integrity, termination) | ledger and manifest of an injected store, its lock and poison; a coordinator's promise chain; results in custody | open, capture, coordinate, take, close | effects are on record or nothing follows them; quarantines are whole; the lock comes back; results die with their coordinator; every call is answered | `ExecutionCoordinatorV03` |
| Run V01 (`run/plan.ts`, `run/preflight.ts`, `run/orchestrate.ts`, `run/run-dir.ts`, `ledger.ts`, `gates.ts`, `receipt.ts`, `commands/run/*`, `commands/report/build.ts`) | the files of one run directory, written in place one by one; the lock of the run | plan, start, start from a loop file, report build, status, recover, verify | what is answered verifies; what is cut is not taken for ended; gates cannot be weakened; reports follow the ledger | `RunV01` |
| Planned runs and reports V02 (`io/output-capabilities.ts`, `run/plan-id-v02.ts`, `run/capture-planned-v02.ts`, `run/planned-directory-classifier.ts`, `io/plan-report-writer-v02.ts`, `report/build-plan-v02.ts`, `report/plan-open.ts`) | the planned directory, its report lock, three temporaries and three reports | plan, capture, build, resume, open | plans are read whole; interrupted work can be finished; what is unlocked opens | `PlanReportV02` |
| Compiler output V02 (`compiler/compile-v02.ts`, `compiler/compile-id.ts`, `io/compiler-writer-child.ts`, `io/compiler-writer-helper.ts`, `compiler/read-pack-v02.ts`) | compile store, packs, standalone loops; a child process and its timer | compile, write, clean up, read a pack | a readable pack is complete; answers are true of the disk; a hanging child is given up | `CompilerOutputV02` |
| Replay engine, verdicts, globs, redaction | none (pure) | parse, evaluate | stop conditions, verdict rules | not modelled |
| Host enforcement, brokered execution | permits, child processes | probe, spawn | permits single-use | partly planned; probes are I/O |
| Schemas, catalog, planning, rendering, reports, commands, adapters | none | parse, project, print | content | not modelled (no state that changes) |

How they interact. A control-plane call opens a session of the store (which
creates the lock file exclusively), inspects the ledger (reduces it to a
state), commits a request event, inspects again, commits the effect under the
new head, and closes the session in a `finally`. Four returns do not await the commit they
return (the fence of an abort, fresh or continued: `run/runtime-control-write-v04.ts:495,520`;
heartbeat and release: `run/runtime-write-session-v04.ts:738,754`), so that the `finally`
closes the session, and unlinks the lock, beside that commit. What passes between two calls
is a capture: an object in a `WeakMap`, used once, that binds the head, the
attempt and the fence it was made at. The reducer is the judge of both: a commit
whose ledger it rejects is refused before anything is written. The advisory
lock and the key belong to the V01 generation: `run start` and `report build` take
the lock over the directory that `plan run` has filled, `run status`, `run recover`
and `verify` read it without. A V02 compile leaves a pack in the compile store, from
which a planned run is made, from which a report is built; each of the three
hands over files only, and what is read whole was written last. The product host
custody stands alone, in a directory of its own.

What is hard in it: processes that interleave at file-system calls; power loss
with names and contents that were not synced; a process that dies between the
two commits of one operation; answers of unknown outcome and what is retried
after them; captures that are stale by the time they are used; stealing of locks.
The list with lines, and the property that watches each, is `PROJECT.json`
"hazards"; those without a property say why.

## 2. The modules

**FileStoreV04** models each call of the store session between two awaits as one
action. `disk` is what processes see, `stable` what a power loss leaves of it;
`sync` copies one file or one directory's names. A process captures the store
(`CaptureLedger`, `CaptureManifest`), creates and syncs the lock, commits a batch
of events with or without artifacts, or a compaction, and closes; any
call can fail, after which the code's cleanup runs and the answer is
`NOT_COMMITTED` or `OUTCOME_UNKNOWN` as in the code. Where a process is with its lock
(`session`) and where it is with its commit (`pc`) are two variables: the close waits
for the commits of callers that await them, and for no other (`Unawaited`, the
batches of the four returns above), so a commit may go on when the lock is gone or
another's. A batch is a model value, a
ledger is the sequence of batches. `CreateLock` is the exclusive `open`; an
operator may delete a lock file by hand (`OperatorErrs` says whether also that of
a live session). **DurableLog** is the abstract specification: a log to
which batches are appended on top of exactly what their writer saw, with
`AbstractLog` in `FileStoreV04` the refinement mapping (the manifest is the log, the
capture of a commit's process its base).

**AdvisoryLock** has one action per file-system call of `acquireLock` and its
release: `link`, the read of the holder, `rename`, the confirming read, `read`
and `unlink`. Whether a record is stale depends on its age and the holder's
liveness, so time is a choice: with the options of `runWrite` a record never
ages. **SigningKey** extends it with `ensureSigningKey`: the look without the lock,
the lock call by call, the second look, and the write of the key file in two steps. A process
can exit anywhere, with the key half written too; whoever reads a partial key
gets none.

**RuntimeReducerV04** is the reducer: operators from a ledger state and an event
to the next state, or to a refusal, with no variables. **WriteSessionV04** has the
ledger and the processes' calls as variables. The model takes from `FileStoreV04` that sessions exclude one
another and that commits are atomic, refused or unknown, whoever has the lock; it takes each
commit as one step. A call holds the lock to its end, but for the last commit of an
abort, a continued abort, a heartbeat and a release: these `CommitUnawaited`, the session
may close beside them (`CloseBeside`), others may open and commit, and the commit
then lands on the ledger it was computed for or not at all (`Land`). The kernel (external) admits, executes and settles
actions under the reducer's rules. The ledger's hash chain is represented by
sequence numbers: a head is named by its length, which identifies its content
because a ledger only grows. **FencedRun** is the abstract specification: a run
whose holders are all of one epoch, that stops by taking all of them away, and
admits only under a holder.

**TerminationV04** models how a run comes to its end. `run` is what the ledger
stands for: tasks, effects and evaluations, freeze, request, phase, settlements and seal.
`Project` is a reader that builds a projection and has it evaluated: `Projectable` are
the grounds for refusing a snapshot, `Proven` the candidates there is evidence for,
`Evaluate` the decision table. `WriteTerminal` and `WriteCompensation` write the decision
if the projection is of this ledger (`MatchesStore`): `current` stands for its sequence and
head hash, and `behind` for the fence, which a projection takes from
`run.fence-advanced` alone and therefore does not have after a recovery. The kernel and
the operators step in between, as far as the reducer lets them: it does not keep a
frozen run from admitting work. `CaptureTerminal` in `WriteSessionV04` has the same
fence (`advanced`), so a terminal authorization of a recovered attempt is refused until
somebody advances its fence.

**ProductHostLifecycle** models mutation, observation and reconciliation of the
product host's anchor: the exclusive lock, compare and swap under it, PREPARING,
anchor and STABLE, each written to a temporary file, renamed and synced, the
readback, the release and the last look. Power loss leaves each name as it was or
as it was last synced, independently. The reads under the lock are one step, for
nobody else writes then (`CustodyInv` proves that the lock is its owner's); the
observer's reads are separate steps. A mutation is answered `HOLD_PRECONDITION` after a
comparison, but also without one: when the directory changes while it is being opened
(`ParentUntrusted`), and with its lock left behind (`Unbuildable`). Whoever has no lock may
find that what it reads has been `Disturbed` by a mutation.

**ExecutionCoordinatorV03** models the V03 runtime on the store its tests inject.
A call is a process with a program counter (`call[c].pc`), one step per
operation of its session: admission (`InspectForAdmission` to `VerifyAdmission`),
`Dispatch`, `AdapterReturns`, the start (`InspectForStart` to `VerifyStart`),
`Reconcile`, the quarantine pair, termination, `Poison`, `CloseState`,
`CloseSession`. Only the head of a coordinator's chain (`queue`) runs; callers
make calls, take results and ask to close at any time. A session's own chain is
not a variable: none of its operations waits, so each is atomic, and what may
come between two of them is another step. Whatever `admitRuntimeActionV03`
checks of records, authority and limits is one choice to refuse. The lock cannot
be lost (only a fixture of the tests loses it), and no call throws.

**RunV01** extends `AdvisoryLock`: the lock of a run is that module's, call by call,
with the options of `runWrite`. Planners copy a compile pack file by file; a start
passes its preflight without the lock, takes it, and writes the run's files, each
truncated and then filled, so that a reader or a death between the two finds it
torn. A ledger is `[of, events, torn]`: the first events of the chain that a start
computes, and whether a part of a line follows; the hash chain makes any other
content impossible to verify. `Recover`, `Status` and `Verifies` are what the readers
make of it, `EvaluatedGates` to `TerminalEvent` what the gates of a loop decide.

**PlanReportV02** has planners, which write a directory with its resolved plan last,
and builders, which classify, capture, lock and replace. What a builder does next
is read off the directory each time, as in `classifyAndAdvance`: it reads the lock, the names and the
reports (`Inspect`), then the temporaries (`Classify`, with the cases `Complete`,
`MayStage`, `MayRename`, `MayRemove`), and then acts, when others may have acted in between. Any number of builds
may take over from a dead one; `LoneSpec` is the specification in which one at a time does. `survivors` is the set of
directories a power loss may leave: unsynced operations are kept up to one of them.

**CompilerOutputV02** has one action per file-system call of the writer child, its
cleanup, and the parent's side: the choice of an id, the answers that are tried
again, the timer. Three directories are synced on their own, so `durable` differs
from `disk` name by name. A compile makes one pack and one loop and writes its files
once, so the files are known by their maker and `whole` says which were written and
synced. Members are alike but for the generated loop and the manifest, hence three.

`MC*` modules give the constants values; the other modules are
`FileStoreV04Proofs`, `WriteSessionV04Proofs`, `ProductHostLifecycleProofs`,
`ExecutionCoordinatorV03Proofs`, `CompilerOutputV02Proofs`, `TerminationV04Proofs`,
`AdvisoryLockProofs` and `PlanReportV02Proofs`.

## 3. The runs

| Run | What it shows |
|---|---|
| `file_store` | sessions exclude each other and end, answers are durable, manifest, ledger and artifacts are synced in order, cleanups spare what is named, and the store refines `DurableLog`, all of it with a commit that goes on beside the next session |
| `file_store_unawaited` | violation, see section 6 |
| `key_two_thieves` | violation, see section 6 |
| `session` | all eight operations of one operator while another revokes, with an action admitted, executed and settled, implement `FencedRun`, though last commits land after the close of their session; stops reach their attempt; answers are true; recovery starts clean and once per request |
| `termination` | two compensable tasks under one limit, aborted, revoked and recovered, sealed from projections that may be out of date |
| `product_host_custody` | custody of the anchor between three processes |
| `execution_coordinator` | calls of the V03 coordinator with one failing append and an event of the kernel between their steps; every call is answered |
| `run_v01` | a planner and two commands, each of which can die at every call, on one run directory; a holder keeps its lock between two contenders |
| `run_v01_overwrite` | violation, see section 6 |
| `plan_report` | two planners with one run id and three builders, two of one generation and one of another, with one fault |
| `plan_report_two_successors` | violation, see section 6 |
| `compiler_output` | two compiles with two ids and one standalone path, with two faults; every compile is answered |

Bounds. The file store has two processes (a third adds no new kind of overlap,
since the lock admits one, and a commit that has lost its lock is the second),
three batches, one of which is not awaited and two of which name the same file, one failing
call and one crash or power loss. `OperatorErrs` is `FALSE`; what holds when somebody deletes the lock
of a live session is proved (section 5). In `session` `MaxSeq` 7 is long enough
for a first attempt with an owner and a subordinate and a stop or pause in its two
commits, or for a resume and a second attempt that has an owner and admits an action; a
stop, a resume and a second stop in one run take more states than can be
enumerated, and are left to the proofs. `MaxLeases` 2 gives an owner and a
subordinate. `Offered` says what each process does: one does everything, the other
revokes, which is possible at every boundary and makes every capture stale, or finds the last
commit of the first one landing between its own two. In `termination` two compensations
are one that is requested and one whose effect comes later; a writer need not be rivalled by another, because
whatever is appended makes its projection stale. A task is not tried again, the limit
refuses one admission in each phase, and the events of one action that end it are one
step. The plan keeps no budget for recovery (`Reserved` is `FALSE`): where it does, a
limit that refused work makes every snapshot of the compensation phase invalid, and
there is less to see. In the product host `MaxFailures` is 1: an interrupted mutation leaves
the lock, nobody removes it, and nothing that a second failure could disturb
happens after it; three processes are two rival mutations and an observer, and the
anchors are two rivals for generation 1 and a successor of one. Symmetry is used
over processes, and only where no temporal property is checked. The coordinator
has two calls, as the store's admission context allows one lease: one call
reaches its adapter, the other waits behind it, fails, closes the coordinator
or uses the second session; the store injects at most one fault (`MaxFaults` 1),
two events of the kernel (`MaxKernel` 2) can come between any two steps, and with
`Envelopes` 7 they leave a quarantined call's last appends without envelopes.

In `run_v01` each command is one of two (`Procs`), as the lock's own defect needs three;
three loops give a gate that evidence can satisfy, one that asks for nothing, and
a weakened `no-t5`. For the same reason the runs and the proofs about two commands are of `OrderlySpec`, in which a report build does not ask for the lock
while the other process steals it (`JoinsUncrowded`); the model itself lets it. `plan_report` has `MaxFaults` 1 and
three builders: two of one generation, of which one can die and the other take over, and one of
another, which finds what is left; planning comes first (`List`). A third builder of the same
generation is a second successor, which breaks three of the four properties (section 6). `compiler_output`
has `MaxAttempts` 2 where the code has 16, enough for a collision, a second id and
the limit; `MaxFaults` 2 is one failing call, and another in its cleanup, or a power loss.

Deadlock is not checked where runs end by design: calls that are all answered, a run at `MaxSeq`, a custody
whose lock was abandoned, processes that have all exited.

Fairness. `file_store`, `execution_coordinator` and `compiler_output` assume
some. In the last the parent's own steps and its timer are weakly fair, and nothing is
asked of the child: it may hang in any call. In the coordinator the steps of a call are weakly fair, which includes the return of its
adapter and of the host that terminates a process: no operation there has a
timeout, so a call whose adapter never returns is never answered, nor are those
behind it; an adapter that awaits its own coordinator's close is such a one. In
the store each step of a live process is
weakly fair, because a promise of the file system settles (with success or error)
and JavaScript then runs the continuation, and sessions are closed in `finally`
blocks. Crashes, failures, opening of sessions and operators are not fair. The
control plane, locks and reports have no liveness claims: whether an operator retries is not
the code's to promise.

## 4. The properties

Each is stated in its module with the code behaviour it is about. The ones that a
reviewer would look at first: `OutcomesAreDurable`, `SyncedInOrder`,
`ImplementsDurableLog` (store); `HolderKeepsLock` (lock); `HolderIsCurrent`, `PausedIsQuiet`, `OrdinaryStartsClean`,
`ConsumedOnce`, `AnswersTruthful`, `ImplementsFencedRun` (control plane);
`SealedHighest`, `SealedCompensated`, `SealedTruthful` (termination);
`UnlockedIsWhole`, `ChainIsLinear`, `ObservationsCurrent` (product host);
`EffectsAreRecorded`, `QuarantinePairs`, `ResultsDieWithCoordinator` (V03);
`EndedRunsAreProven`, `AnsweredRunsVerify`, `ReportsAreAnchored` (V01);
`AccurateLocksResume`, `UnlockedReportsOpen` (reports); `ReadablePacksAreComplete`,
`CompileAnswersTruthful` (compiler). Four state what the repository's texts promise and the
code does not keep: `AppendsToCaptured`, `KeyAgreement`, `EndedLedgersStay` and
`OnlyTheDeadAreClearedUp` (section 6). Every
property of a passing run has a mutant in `PROJECT.json`: an altered definition,
kept in the module beside the original, under which TLC finds it violated.

## 5. What is proved

For all values of the constants:

- `TypeCorrect` (`FileStoreV04Proofs`): `Spec => []TypeOK`, which no run repeats. `TypeOK` alone is not
  inductive: what a failed step answers depends on there being a batch, so
  the invariant is `TypeOK /\ CommitHasBatch`.
- `OneSession`: `LockExclusion`, at most one process between opening and unlinking the lock of a run
  directory, under the assumption that operators do not delete the lock of a live
  session (`~OperatorErrs`). The inductive invariant ties each session to the lock
  file bearing its own token, through opening, closing and their failures; commits, awaited or
  not, do not touch it. It is about sessions: that one process commits at a time is not
  true (`file_store_unawaited`).
- `OutcomesLast`, `OrderOfSyncs` and `NamedFilesRemain`
  (same module): `OutcomesAreDurable`, `SyncedInOrder`
  and `NamedFilesStay`, of `Spec` without any hypothesis: they do not rest on the lock, so they hold of
  commits that have lost it and beside an operator who deletes it. One
  inductive invariant, `StoreInv`, serves all: the synced ledger begins the ledger and
  the manifests begin the synced ledger (`LogsInv`), the files that the ledger names
  are there and synced (`FilesInv`), and at each place of a commit what it relies on
  still holds (`At`): before the append nothing of its batch is anywhere and none of
  its files is named; between the append and the readback others may append too, but then the
  readback of one of them at most finds its own next ledger.
- `StoreImplementsLog` (same module): the store implements `DurableLog`. Of a commit the
  log sees an offer, one step that takes effect at the rename of the manifest, and an
  answer; a crash or a power loss cuts its end at most behind what was acknowledged,
  because the synced manifest begins the visible one.
- `SessionIsSound` (`WriteSessionV04Proofs`): the inductive invariant `SessionInv` of the
  control plane. Its first half is about the reducer: `Sound(ledger)` holds of the
  initial ledger and is kept by every accepted event, whoever commits it and with
  whatever outcome, so the lemmas go through the events one by one and know nothing of
  calls. Its second half (`CallInv`) says what a call may still believe: from its
  request to its second commit it has the lock, and what another call did not await cannot land
  any more, because the request has carried the ledger past its head (`Alone`); before that
  one such commit may land beside the call; its own commit, if it does not await it,
  lands on the ledger it inspected or not at all; and what an acknowledged abort or release
  took away has not come back, whoever has the lock by then. From it follow, one theorem each, `HolderIsCurrent`,
  `PausedIsQuiet`, `OrdinaryStartsClean`, `ConsumedOnce`, `AnswersTruthful`,
  `StopsNameTheirAttempt` and `StoppedAttemptAdmitsNothing`.
- `ControlPlaneImplementsFencedRun` (same module): `ImplementsFencedRun`. An event is one
  of the abstract run's actions (`Begin`, `Join`, `Leave`, `Admit`, `Settle`, `Stop`, `Seal`)
  or a stutter; that the abstract guard holds then, nothing in flight at the seal for
  one, is what `Sound` was needed for.
- `CustodyIsWhole` (`ProductHostLifecycleProofs`): `UnlockedIsWhole`. A power loss mixes
  the visible and the durable, so the invariant (`CustodyInv`) says that the two agree
  whenever either shows no lock, and that the lock of a process that changes files
  is its own and durable. It needs no assumption about what is authorized.
- `StableAnchorsFormAChain`, `MutationsTellTheTruth` and `ObservationsAreCurrent` (same
  module): `ChainIsLinear`, `OutcomesTruthful` and `ObservationsCurrent`. `ChainInv` places
  the visible and the durable files: both settled at the end of the chain, or at one of
  the five places (`Halfway`) that a mutation passes on its way to an anchor that
  follows that end. A mutation's anchor must extend the chain from the moment its
  PREPARING record is written, not only when it is stable: any sync of the
  directory, an observer's included, makes last whatever is there. For each
  process it says what a mutation has `Achieved` and what a reader has `Learnt`. That a
  mutation answered as not done has replaced no file is an invariant of its own
  (`ModestInv`), which covers the answers that are given without a comparison.
- `CoordinatorTypeCorrect` and `EffectsRecorded` (`ExecutionCoordinatorV03Proofs`):
  `TypeOK` and `EffectsAreRecorded`. The latter speaks of answered calls only, so the
  invariant (`RecordInv`) says what holds of a call at each of its places: no
  adapter was entered before the dispatch, the start is published once it was read
  back, the whole record is there when termination begins. It rests on what
  no step takes back (`Kept`): a published event, and the poison of the store.
- `PairsArePublishedWhole` (same module): `QuarantinePairs`. Nothing is
  accepted behind a rejected observation but its quarantine, the code appends the two
  at once, and what is published never ends between them (`PairInv`), even when an
  append breaks off in the middle.
- `ResultsDie` and `LockIsFreed` (same module): `ResultsDieWithCoordinator` and
  `EndedCallsFreeTheLock`. The calls of a coordinator stand in a line of which only the
  first works (`InLine`, `Placed`), so nobody starts between the closing of the
  coordinator and the destruction of its results; a closed coordinator has a closed
  session, or a call is about to close it (`Opened`); and who holds the lock has an
  open session.
- `PacksAreComplete` (`CompilerOutputV02Proofs`): `ReadablePacksAreComplete`, whatever
  the numbers of compiles, ids, attempts and faults. A pack can be read only when
  its manifest is whole, and nobody but its own child could still touch its loop;
  so the invariant (`CustodyInv`) follows who owns the standalone name from its
  reservation to the manifest, and says that a cleanup never runs after the
  manifest was begun (the code's `manifestStarted`).
- `AnswersAreTruthful` (same module): `CompileAnswersTruthful`. `CustodyInv`
  gives the loop of an `ok`; `MadeInv` adds whose the names in the store are at each
  place of a compile (`Names`), which members are written and synced (`Contents`), and
  what the child may be about to say (`Replies`): a cleanup ends in a reply other than
  `IO_DURABILITY_UNCONFIRMED` only if nothing was reserved and all of it was taken
  back. A step of one compile leaves the names of the others `Untouched`, because
  only a free id is taken and only its own pack is removed.

- `HighestIsSealed`, `SealedAreCompensated` and `SealsAreTruthful` (`TerminationV04Proofs`):
  `SealedHighest`, `SealedCompensated` and `SealedTruthful`. They speak of sealed runs
  only, so the invariant (`TerminationInv`) says what a writer relies on when it seals: a
  projection that is current was built of this very ledger (`Fresh`), and once
  compensation is entered no work is in flight and every exposed effect is in the request
  (`InCompensation`), so nothing can come to it. The lemma `Decisions` says of each
  decision what the evaluator saw; a seal then follows from what it saw.

- `EndsAreProven` (`AdvisoryLockProofs`): `EndedRunsAreProven`, for any number of planners and
  commands and without the lock. The ledger in
  place is always of one start, whole or cut off in its first line or about its last
  one (`LedgerInv`), whichever commands write in whichever order; so `Status` of what
  is there is `COMPLETED` only if that start found the gates of the loop proven.
- `AnswersVerify`, `ReportsFollowLedgers` and `EndsArePermanent` (same module):
  `AnsweredRunsVerify`, `ReportsAreAnchored` and `OnlyRivalsOverwrite`, for any number of
  commands, as theorems of `Spec /\ []HolderKeepsLock`. The hypothesis is not an
  idle one: with three commands the lock can be defeated (`key_two_thieves`,
  section 6), and then two starts write their files into each other's. The last says how far
  the finding of `run_v01_overwrite` goes: an ended ledger is replaced only by a start that was past
  its preflight when that ledger was begun. The invariant
  `RunInv` says how far the start behind the lock has come: the first files of its script are
  its own (`Progress`), what it answered stays (`Settled`), and a start that has yet to
  write was past its preflight when the ledger in place was begun (`RivalsInv`).
- `TwoKeepTheLock` (same module): two commands satisfy that hypothesis, so for them
  (`TwoKeepTheRun`) the three hold without it, of `OrderlySpec`. The invariant `LockInv` says of a
  command that contends why it will not get in beside the other (`Clear`): the other is
  dead, or has the lock and the contender is about to see so, or is through with the
  lock for good. With three the argument fails, as it should: a contender may steal
  from a second what the third has just stolen.

- `OneKeyForAll` (same module): for any number of processes that exit anywhere, `KeyAgreement`
  follows from `[]NoDoubleHold`, that the lock never has two holders. It is the exact cause of the finding of
  `key_two_thieves`: neither a half-written key nor a process that dies while it makes one is
  enough. The invariant (`KeyInv`): whoever is making a key has the lock (`MakersHold`), and
  once there is a whole key nobody alive is making one and all that was returned is that key.
- `WholePlansAreRead` (`PlanReportV02Proofs`): `PlansAreWhole`, of `Spec`, for any number of
  planners, builders and faults, several successors of one writer included.
- `ReportsOpen`, `WorkIsRecognized` and `LocksGoLast`
  (same module): `UnlockedReportsOpen`, `AccurateLocksResume` and
  `LocksOutliveTheirWork`, of `LoneSpec`, in which no build takes over a lock that a living one is
  working under (`TakesOverAlone`). The code does not see to that, and without it the three are false. What is on the disk and
  what a power loss may leave of it differ in more ways than can be listed, so the
  invariant (`PlanInv` for the plan, `WorkInv` for the work) says the same of every directory in `survivors`, the visible one
  included: the members were made in order; without a lock there are no temporaries and the
  reports are of one generation; under one that is whole and accurate the work is
  recognized, and under any other none was begun. A write or a change is then looked at
  in one directory at a time. A lock is accurate when
  the set it names was still in place as it was created.

The proofs rest on the named `ASSUME`s of the modules (kinds of the constants),
which TLC evaluates in the runs.

Only model-checked:

- liveness (`file_store`, `execution_coordinator`, `compiler_output`): fairness
  and `ENABLED` are out of the prover's reach.

## 6. Where the code and its documentation disagree

Four runs look for a violation of what the repository says and find it:

- `file_store_unawaited`: a commit that its caller does not await goes on when the session
  is closed and its lock unlinked, and appends beside the commit of another session
  (`run/runtime-control-write-v04.ts:495`; "One writer per run means the concurrency problem
  the durable-execution literature warns about never arises",
  `docs/architecture/north-star.md:141-142`). What is answered stays true: the readbacks find the
  other's bytes out, at the price of an unknown outcome and a tail that no manifest describes.
- `key_two_thieves`: two processes that judged the same record stale both end up
  holding the lock (`lock.ts:15-17` says "exactly one wins the rename"), and both generate a signing key
  under it, which the lock is there to prevent (`keys.ts:17-19`).
- `run_v01_overwrite`: of two starts past their preflight the second replaces the ended ledger of the
  first ("Existing execution artifacts are never overwritten", `docs/reference/cli.md:85`).
- `plan_report_two_successors`: of two builds that take over from one dead writer, one
  removes the temporary that the other is writing (`io/plan-report-writer-v02.ts:263-264`). In the
  same way one unlinks the lock under the other, or leaves a temporary in a directory that is no longer
  locked, which report open refuses for good.

One more has no run of its own, as `AccurateLocksResume` states it: a report writer that dies with its
third temporary on the disk leaves a directory which no later build accepts. The layout
(`run/capture-planned-v02.ts:154`) admits `plan-report.input.json` temporaries, and the writer names
them `plan-report-input.json`.

Other behaviour that the models show, and that no text found in the repository rules out:

- An action id that was settled can be admitted again; recovery then takes it for
  settled (`OrdinaryStartsClean` is about ids admitted once).
- A build that reads the committed set before it locks may lock with a set that is
  gone, which nobody can resume; and a build of another process that is alive is met with a refusal of the layout
  before its lock is seen.
- The evaluator decides to enter compensation as soon as it is requested, and its writer
  does so; but every later snapshot wants the entry right behind `run.fence-advanced`.
  Unless somebody advances the fence between the two, the run can never be settled
  or sealed (`Projectable`; `run/terminal-snapshot.ts:846`).
- A recovered attempt can be neither frozen nor sealed before its fence is advanced.
- The answer `IO_HELPER_UNAVAILABLE` of a compile says nothing of the disk: a complete pack
  may be there.

## 7. What is not modelled, and why

In the compiler: what admission decides (a choice), the identity of directories (they
keep it), the death of the parent (which leaves what a time-out leaves, at a later
moment). In Run V01: waivers, the content of captured events, receipts and reports
beyond whose they are. In the reports: rendering, and the content of locks beyond the
sets they name. In the runtime: clock observations, deadlines and heartbeat ordinals (whether an owner is expired is
an argument of recovery, enumerated); signatures (an authorization is given or not);
hashes (a name identifies its content); parsing and
formatting. In the termination: gates, progress, policy holds and retries as grounds for
a candidate, tasks that depend on one another, reconciliation attempts, the byte budget
of the control plane, and what is left of a sealed ledger for a reader. `WriteSessionV04`
and `TerminationV04` are not composed: the first offers any terminal state, the second
leaves out leases and authorizations. Limit accounting and verdicts are algorithms without
state, planned below; schemas, catalog,
rendering, commands and adapters have no state a model could be about.

## 8. Plan

In this order, each with its runs and, where named, its theorems:

1. Control plane: `WriteSessionV04` and `TerminationV04` over one ledger.
2. Reports: the layout that refuses the third temporary, as a run of its own, and a third
   successor.
3. V03: a second store captured from the files of a poisoned one.
4. Limit accounting and verdicts as operators checked against reference definitions.
5. The replay engine with its stop conditions; the broker's permits.

# OrkWorks: TLA+ models and proofs

OrkWorks is a desktop control room for terminal coding agents.  An Electron
shell (`apps/desktop`) starts a Rust sidecar (`crates/orkworksd`) that owns
everything stateful: PTY sessions, their lifecycle and persisted metadata, the
Peon observer, the Taskmaster recommendations and the harness integrations.
Paths below are relative to `crates/orkworksd/src` unless they say otherwise.

The project models the parts where most of the concurrency and the crash
handling are: who may write a workspace, which runtime owns a session, which
socket is attached to its terminal, how a set of recommendations is replaced on
disk, how one of them gets into a terminal, and how the desktop replaces one
sidecar by another.

| module | what it is |
| --- | --- |
| `WorkspaceLease` | sidecars and startup gc passes over one workspace directory |
| `WorkspaceLeaseProofs` | one owner at a time, proved for any number of processes |
| `SessionLifecycle` | one session: registry, record, child, tasks, resumes, restart |
| `SessionContract` | what the lifecycle promises to everyone outside the runtime |
| `SessionLifecycleProofs` | its types; ownership of the session by the generation at work |
| `SessionContractProofs` | `SessionLifecycle` implements `SessionContract` |
| `SessionRecordProofs` | the record: a published end is durable, the first terminal status wins |
| `TerminalAttachment` | the terminal sockets of one session and their commands |
| `TerminalAttachmentProofs` | its safety for any number of sockets, runtimes and inputs |
| `RecommendationGraph` | a workspace's recommendations and what every operation makes of them |
| `RecommendationContract` | one complete graph after another |
| `RecommendationStore` | the files and the transaction directory below it, step by step |
| `RecommendationStoreProofs` | operations keep the graph sound; the store implements the contract |
| `RecommendationDelivery` | one recommendation on its way into a terminal |
| `RecommendationDeliveryProofs` | its safety for any number of requests |
| `WorkspaceSwitch` | the desktop's main process: coordinator, sidecar lifecycle, restoration |
| `WorkspaceSwitchProofs` | its safety for any number of launches |
| `MC*` | instances for TLC: model values and symmetry |

## 1. Inventory

### Modelled

| component | state | operations | what makes it hard |
| --- | --- | --- | --- |
| workspace lease and startup gc (`workspace_runtime.rs`, `runtime/workspace_gc.rs`, `open_workspace_inner`) | `.sidecar.lock`, `origin.json`, the OS lock of each inode, the source directory | open, adopt, release, gc pass, crash | separate file calls of several processes; a lock belongs to an inode, not to a path; the source can be deleted and come back |
| session lifecycle (`session_application.rs`, `runtime/session_runtime.rs`, `session_application/ending_completion.rs`, `metadata/lifecycle_mutations.rs`) | live handles, runtime generations, the durable record, child, tracked pid, reservations | create, resume, startup, exit, status transition, finalize, stop, delete, forget, reopen, restart | every callback may belong to a replaced runtime; handle and record are changed under different locks; a failed write rolls back in two steps; a timeout leaves its transition running |
| terminal attachment (`runtime/terminal_runtime.rs`, `runtime/session_runtime.rs`) | the claim and its token, command in flight, queue, driver | claim, replay, receive, queue, admit, deliver, release, exit event | sockets outlive the runtime they attached to; commands are submitted after awaits; the queue is bounded |
| recommendation store (`taskmaster/store.rs`, its callers in `session_application.rs`) | one file per record, a transaction directory with staged files, backups and a manifest | thirteen operations on the graph; stage, commit, publish, validate, roll back, clean up, recover | any step may be the last; recovery may be interrupted too; single-record writes validate nothing |
| recommendation delivery (`session_application.rs`, `session_application/recommendation_delivery.rs`, `http/taskmaster_handlers.rs`) | the record, the delivery guard, the runtimes, the adopted workspace | accept, admit, write, settle, dismiss, packet, fence, delete, complete, two kinds of orphan recovery, switch, crash | a detached task settles after awaits what other requests may have changed |
| desktop main process (`apps/desktop/electron`: `workspaceSwitchCoordinator.ts`, `sidecarLifecycle.ts`, `backendRestoration.ts`, `main.ts`) | sidecar generations, restoration, coordinator state, requests of the window | open, switch, retry, update, quit, timers, exit, requests | a sidecar may exit, hang or ignore its kill at every await of an operation |

How they interact: the desktop starts a sidecar for a workspace
(`WorkspaceSwitch`), the sidecar takes the lease (`WorkspaceLease`) and opens the
recommendation store (`RecommendationStore`); sessions come and go
(`SessionLifecycle`), their terminals are attached (`TerminalAttachment`) and get
approved prompts (`RecommendationDelivery`).  Each module reduces its neighbours
to what it sees of them.  `RecommendationDelivery` takes the store's operations as
atomic, which is what `RecommendationStore` is shown to implement;
`TerminalAttachment` and `RecommendationDelivery` take one runtime at a time per
session, which is what `SessionContract` promises; `WorkspaceSwitch` assumes
nothing of a sidecar.

### Not modelled

| component | why |
| --- | --- |
| session actions and organization, retention | the stale-action token and the close-then-archive sequence are missing; stop, delete and forget, which they call, are in `SessionLifecycle` at any time |
| session store (SQLite worker, deletion recovery), metadata store and its transactions | the record write of `SessionLifecycle` is atomic and may fail; the protocols below it, and the deletion that workflow observations and image context take part in, are not modelled |
| Taskmaster cleanup journal | a journal of its own for removing a store; `RecommendationStore` starts from a store that exists |
| Codex approvals and hook relay | a second kind of session beside the PTY |
| workspace updates, capacity state, probe cache, attention | notifications and displayed values; no modelled guard reads them |
| prompt authority | its transition lock is part of `SessionLifecycle`; what it authorizes is not |
| selection transaction, updates, remembered workspaces, renderer state | `WorkspaceSwitch` has the install and the remembering as steps that may fail |
| Taskmaster coordinator and hierarchy | dormant: nothing outside its tests starts it |
| Peon classification, Taskmaster scoring, providers, git, harness formats, plan handoff, HTTP layer | text and number processing, wire formats, or decoding over operations that are modelled |

`PROJECT.json` lists the same components with their files.  Most of the
repository's lines are of the last kind, or tests.

## 2. What would come next

The deletion protocol of the session store is the largest protocol with crash
points that is not here; its contract (a record is there or not, never half) is
what the atomic record write of `SessionLifecycle` relies on.  After it come the
session actions, as a second and third caller of stop and forget.  Every safety
property of a passing run has a theorem; what is left to TLC is named at the end
of section 9.

## 3. Workspace lease

A workspace's metadata directory is guarded by an exclusive advisory lock on
`.sidecar.lock`.  A sidecar resolves the identity of the source directory,
revalidates it, acquires the lock and revalidates again before it adopts the
directory.  Every starting sidecar also runs a gc pass that takes the same lock,
verifies that the source is gone and removes the directory.  The model tracks
which inode the path names, which inode each process has open and who holds the
lock of each inode.  `MakeDir`, `OpenLockFile` and `TryLockExclusive` are the
three calls of `WorkspaceLease::acquire`, shared by sidecars and gc passes; the
removal unlinks the lock file and the rest separately.  Any process may crash
between two calls; the parent of the source may come and go, which the gc
treats as "not gone".

| run | instance | shows |
| --- | --- | --- |
| `lease` | 2 sidecars, 2 gc passes, 3 inodes, the source created at most twice | a lock is held exactly by a process that works under it, on the file it has open (`LeaseIsExact`); until the source is created again: one owner (`SingleOwnerOfSource`), whose lock is on the inode the path names (`OwnerHoldsLinkedLock`), and whose directory no gc pass empties (`RemovalSparesOwner`) |
| `lease_source_returns` | 1 gc pass | with a source that returns, two sidecars own the workspace (finding) |

Three inodes let the lock file be unlinked and created twice.  The condition
`FirstSource` of the other three properties is the exact boundary: once a deleted
source is created again, the gc pass that is still removing the old directory
unlinks a lock file that a new sidecar has opened.  With two gc passes the same
happens to the directory of an adopted workspace.

## 4. Session lifecycle

A *generation* is one `SessionRuntime` (`run_generation`).  The fields of a
`SessionHandle` are indexed by generation, `live` is the generation registered
in `AppState.sessions`, and `rec` is the lifecycle part of the durable record
(phase, status, pending terminal status).  Descriptive fields, attention and
terminal size are left out.

| actions | code |
| --- | --- |
| `CreateSession` | `create_session_workflow`, from its admission on |
| `ResumeCapture` ... `ResumeReturns` | `resume_session_workflow`: capture the generation, read the record, install the claim, write `creating`; `Drop for ResumeAdmission` is `ResumeUnwind` (registry) and `ResumeRestore` (record) |
| `StartCancelled` ... `FailureSettled` | `run_session_runtime` up to the spawned driver, with every cancellation check, `abort_post_spawn_startup`, `finish_startup_cancellation`, `publish_startup_failure` |
| `KillChild` ... `ExitClear` | the driver: its one kill signal, on request (`KillChild`) or because an initial prompt or a native observer failed (`StopChild`), exit, `handle_runtime_exit` with its grace period; the exit of the child is `ChildExits` |
| `TransitionRefused`, `TransitionHandle`, `PersistTransition` | `transition_status_blocking`: the handle under the sessions lock, the record under the workspace lock, both inside the transition lock |
| `FinScan` ... `FinPublish` | the finalizer: final scan, capture of the open store, ended record, ended handle |
| `RequestStop`, `DeleteSession`, `ForgetSession`, `Attach`, `Detach` | requests |
| `ReopenWorkspace`, `CrashRestart` | `open_workspace_inner` with reconciliation of orphaned records, in the same process or a new one |

A generation may have two finalizers: the runtime's and that of the caller which
reports how startup ended.  A record write may fail (`WriteFails`) as often as
`MaxFaults` allows.  A child of a crashed sidecar is "lost": nobody tracks it.

| run | instance | checks |
| --- | --- | --- |
| `lifecycle` | 2 generations, 1 resume, all requests, 1 failing write | `TypeOK`; `EndedMeansStopped`; `PublishedIsDurable`; `FirstTerminalWins`; `ImplementsContract`; `ChildIsOwned` |
| `ending` | 1 generation, all requests, a second opening with or without a crash, no failing write, fair | `EndedMeansStopped`; `FirstTerminalWins`; `EndingCompletes` |
| `reopen_ending` | 1 generation, delete, a reopening, fair | `DeletedStartupCompletes` is violated (finding) |
| `stale_rollback` | 3 generations, 2 resumes, 1 failing write | `OutcomeIsFinal` is violated (finding) |

Two generations are the least with a callback of a replaced runtime; three with
two resumes, as in `stale_rollback`, are the least in which a resume overtakes
another's rollback.  That all the safety properties of `lifecycle` hold there
too, and for any number of resumes, failing writes, reopenings and crashes, is
proved (section 9): the rollback of `stale_rollback` loses an outcome, but it
leaves an ended record under an ended handle, and an ending record alone.

**Fairness.**  `FairSpec` asks for weak fairness of each task the sidecar has
spawned (startup, driver, finalizer, resume, the second half of a transition):
the tokio runtime polls a ready task in the end.  Taking the transition lock is
strongly fair, because it is a mutex whose every holder releases it, and
waiters are served.  Users, children and the operating system owe nothing: a
child may run for ever, also after it was signalled.  The driver signals it once,
discards the result (`session_runtime.rs:2751`) and never escalates, so a deleted
session whose child ignores the signal stays ending as long as the child runs.
`EndingCompletes` excepts that case, in which the driver is `stopping` over a
child that runs for ever, and a session over which the workspace was opened
again; it is claimed without failing writes.  A finalizer whose record write
fails, or whose store was exchanged by a reopening, gives up; the latter is the
finding of `reopen_ending`.

**Contract.**  `SessionContract` has three variables: the registered generation,
its phase and the running processes.  An admission is only over nothing or over
an ended handle without a process; it is withdrawn only before a process; phases
move forward; a generation is completed only after its process has stopped.  The
mapping takes `live`, the phase of the live handle, and the generations with a
running child.

## 5. Terminal attachment

Runs (runtimes) are numbered in the order they are registered; the number stands
for `RuntimeIdentity`.  A socket claims the attachment, replays, then receives
client messages: one command is in flight, the rest waits in
`PendingActionQueue`.  An input is admitted, enqueued and taken in separate
steps (`AdmitInput`, `EnqueueInput`, `DriverTakes`), each with the identity
check the code makes there.  A socket that goes away detaches its command, which
continues alone.  The lifecycle below is reduced to what the terminal sees: the
phase, the driver and a resume over an ended, unattached handle.  Output is not
modelled, nor are the commands that `capture_startup_runtime_state` buffers.

| run | instance | checks |
| --- | --- | --- |
| `terminal` | 2 sockets, 2 runs, 3 inputs, 1 resize or kill, queue of 2 bytes, 1 slot, fair | `TypeOK`; `QueueIsCounted`; `InputInOrder`; `SingleAttachmentOfRun`; `HeldBySocket`; `CommandsStayHome`; `ExitReachesSockets` |
| `terminal_tokens` | 3 sockets, 2 runs | `SingleAttachment` is violated after a resume (finding) |

Three inputs fill a queue of two bytes behind a command in flight and overflow
it; two runs are enough for a command, a claim or an event of a replaced
runtime.  `SingleAttachmentOfRun` is stated up to the first resume because the
third socket of `terminal_tokens` breaks it afterwards.  `QueueIsCounted` compares
the code's running count with the number of places in the queue, a place being an
item and an offset into its data.

`FairSpec` asks for weak fairness of the driver's steps after the exit was
observed, of the replay and of receiving the last event.  A socket whose startup
failed gets no event and keeps its claim until its client closes; it is outside
the property, which starts at an observed exit.

`CommandsStayHome` covers input and kill.  A resize is sent by session id alone
(`apply_runtime_size_without_waiting_for_persistence`) and does reach the
replacement.

## 6. Recommendation store

`RecommendationGraph` has the data and the operations, `RecommendationStore` the
way they get to disk.  A graph maps each id to a status and, for a rolled-up
family, its parent.  The members of a rollup parent are a constant, because its
id is a digest of theirs.  `Puts` are the operations that write one record with
`put`, which validates the record and not the graph.  `Transactions` are those
that replace several: refresh, audit, accepted cleanup, clustering, a new packet,
orphan recovery and deletion.  All but deletion are validated in advance, and
the graph operations may not change a terminal record.  Updates of a record's
text leave the model's record as it is.  `expired` and `failed` are statuses no
operation writes.

An operation claims the store, scans for a transaction directory, recovers it,
and then does its own work.  Each file call that matters is an action: stage and
back up an entry, write the draft manifest, replace it by the committed one,
publish an entry, validate, restore an entry, remove the manifest, remove the
directory.  Entries are taken in the order of a `BTreeMap` (`Rank`).  `Fail` ends
the operation between any two of them; an I/O error that leaves through `?` and
the death of the process leave the same files.  Two errors do not leave: they
make the code roll a committed transaction back (`FailRepublish`,
`RefusePublish`), and `glitch` records that.

`ImplementsContract` maps the contract's graph to `Logical`: the backups while a
manifest exists, else the files.  So an operation takes effect at the moment its
manifest is removed, and until then a reader of the directory would be given one
of two complete graphs.

| run | instance | checks |
| --- | --- | --- |
| `store` | 3 families, 2 overlapping parents, 1 card | `TypeOK`; `GraphStaysValid`; `RecoveryNeverRefused`; `AcknowledgedIsApplied`; `OrphansCanReturn`; `CommittedCompletes`; `ImplementsContract` |

Two parents that share a member are the least in which a family changes its
parent and in which a deletion reaches records through a second parent.
`FewTerminal` follows graphs with at most two terminal records; such records only
take part as obstacles, and the theorems have no such bound.  The parents rank
on both sides of their members, so a crash leaves a parent before its member and
a member before its parent.

The claim of a store (`Owner`, `store/operation.rs`) is a lock of the process.
The workspace lease keeps other processes from an open workspace's store, with
one exception: `reconcile_known_workspaces` (`assessment_access.rs:252`), on a
change of settings, opens the stores of all known workspaces but its own without
their lease, so two sidecars can be in one store.  The model has one process per
store and says nothing of that case.

Left out: the migration of legacy file names, and power loss.  Staged and backup
files are synced and so are the manifest and its directory, but not the
directories `staged` and `backups` themselves; what they hold after a power loss
is up to the file system.

## 7. Recommendation delivery

One recommendation, several accept requests.  `Accept` is the reservation under
the workspace lock.  A detached task then is admitted (`Admit`, under projection
and workspace lock), its prompt is written or rejected by the runtime's driver,
and `Settle` completes or cancels the reservation in the store, if the adopted
workspace is still the one of the reservation (`Matches`), else `Abandon`s it.
`Release` drops the delivery guard that protects the record from dismissal and
from orphan recovery.  Meanwhile other requests change the record, the packet is
replaced, evidence is redacted, sessions end and start, the workspace is reopened
over itself, left and adopted again, and the sidecar crashes.

| run | instance | checks |
| --- | --- | --- |
| `delivery` | 2 accepts, 2 sessions with 1 runtime each, 2 packet revisions, 2 adoptions | `TypeOK`; `AcceptedWasDelivered`; `ReservationIsHeld`; `PromptedOnce` |

Two accepts are enough for a race, for a delivery after a recovery and for a lost
guard.  The run follows behaviours to their first incident and through an overlap
of deliveries that it leads to (`FewIncidents`).

`incidents` marks what the code does not protect against, and each property names
the ones it excludes:

- *overlap*: an approval is reserved while another one is being delivered.
  `complete_execution` and `cancel_execution` look at the status and not at whose
  reservation it is, so the older delivery settles the newer approval: a record
  may be accepted although the approval it names was never prompted.  Without one
  of the next three an overlap does not happen.
- *replaced*, *deleted*: the packet is replaced under a delivery, or the record
  deleted and made again.  The admission compares only the status, so if a second
  approval comes before the first delivery's turn, the superseded prompt is sent.
  The comment above `replace_completion_packet` says that "any approval or
  completion capability is invalidated".
- *unguarded*: the guard is an element of a set of (path, id), so the first of two
  deliveries to end removes both guards.  Ordinary requests get there: a failed
  delivery cancels its reservation and drops its guard only afterwards
  (`session_application.rs:1502-1512`), and an approval in between is left without
  one.  If its session then ends, orphan recovery proposes the record again
  although that delivery is in flight; a third approval overlaps it, and is
  accepted when the second one's delivery completes.
- *stale*: `analyze_taskmaster` reads the live sessions before it has the
  workspace.  A session started and an accept delivered in between look
  orphaned, the recommendation is proposed again, and a second approval prompts
  the same terminal again.
- *io*: a write to the store fails; a reservation may then stay executing until
  the next orphan recovery.  A redacted one is cancelled by two writes
  (`CancelInterrupted`).

`AcceptedWasDelivered` says, whatever happens, that an accepted recommendation was
written completely into some terminal, and up to an overlap that this was the
named approval's prompt in the named session.  It reaches past each single
incident.  `PromptedOnce` excludes an overlap, a deleted record, whose successor
counts revisions from zero again, and a stale recovery.  `ReservationIsHeld`
excludes only *io*.

A reservation left by a workspace switch stays executing until its session is
gone; `ReservationIsHeld` says so by the adoption it compares.  The record that
`scrub_orphans` deletes before an adoption is deleted after it here.

## 8. Workspace switch

The main process has one thread.  An event is an action; so is the continuation
of an awaited promise, and `Due` keeps events from happening before the
continuations of what has settled.  The model has the three coordinators as
`main.ts` wires them: the sidecar lifecycle (generations, readiness timer, kill,
cleanup timer), the restoration of a generation's workspace, and the operation
at the head of the coordinator's queue, with the window's requests that are bound
to a backend generation.  Generation counters that are only compared for equality
are booleans.

| run | instance | checks |
| --- | --- | --- |
| `switch` | 2 workspaces, 3 launches, 1 request, fair | `TypeOK`; `OneRuntime`; `ReadyIsServed`; `QuitLeavesNothing`; `NoReplacement`; `AnswersFromHome`; `OperationsEnd` |
| `switch_quit` | 2 workspaces, 1 launch | `QuitTriesAgain` is violated (finding) |

Three launches are an open, a switch and a retry or an update's restart.

`FairSpec` asks that continuations run, that the three timers fire and that the
history is written.  A sidecar may hang, exit at any time, ignore its kill or
announce nothing.  The user is not asked to answer the open dialog
(`PickWorkspace`, `Picked`), which holds the operation queue meanwhile, quit
included, and an installer is not asked to end; `OperationsEnd` excepts an
operation that stays `picking` or `installing` for ever.

A failed cleanup is final.  After a sidecar outlives its cleanup timer, or its
kill throws, the application can neither switch nor retry nor quit, even when that
process exits later.  For replacements this is the intent stated in `stopCurrent`
("fail closed for every replacement path") and tested at
`sidecarLifecycle.test.ts:261`, and `NoReplacement` states it, although
`workspaceSwitchCoordinator.test.ts:98` opens the destination once the old runtime
has exited.  For quit the comment at `main.ts:2170` and the test at
`workspaceSwitchCoordinator.test.ts:365` expect that a later quit succeeds, which
is the finding of `switch_quit`.  Both coordinator tests replace the lifecycle by a
stub that forgets the failure.  A spawn that fails with only an `error` event ends
the same way.
`rememberWorkspace` is synchronous in `main.ts`; the coordinator awaits it, and
the model lets events happen there.  `stopAndWait` and `retry` of the lifecycle
are not called by the wired coordinator.

## 9. Theorems

All hold for every value of the constants that the named assumptions allow:
positive bounds, and sets of processes or ids that share no element.

| theorem | states |
| --- | --- |
| `LeaseAlwaysExact`, `LeaseSingleOwner`, `LeaseOwnerLinked`, `LeaseRemovalSparesOwner` | the properties of `lease` |
| `LifecycleTypeOK` | `Spec => []TypeOK` |
| `LifecycleOwnInv` | the inductive invariant of ownership |
| `LifecycleChildIsOwned`, `LifecycleEndedMeansStopped` | what follows from it |
| `LifecycleImplementsContract` | `Spec => Contract!Spec` |
| `LifecycleDurableInv` | the inductive invariant of handle and record |
| `LifecyclePublishedIsDurable`, `LifecycleFirstTerminalWins` | what follows from it; the second is an action property |
| `TerminalTypeOK`, `TerminalQueueCounted`, `TerminalInputInOrder`, `TerminalSingleAttachment`, `TerminalHeldBySocket`, `TerminalCommandsStayHome` | the safety properties of `terminal` |
| `PutsSound`, `ReopenSound`, `TransactionsSound` | every operation keeps the graph sound |
| `StoreTypeOK`, `GraphAlwaysValid`, `RecoverySucceeds`, `OkMeansApplied`, `OrphanRecoveryAccepted`, `CommitIsFinal` | the properties of `store` |
| `StoreIsAtomic` | `Spec => Contract!Spec` for the store |
| `DeliveryTypeOK`, `AcceptedIsDelivered`, `ReservationAlwaysHeld`, `NoDoublePrompt` | the properties of `delivery` |
| `SwitchTypeOK`, `OneRuntimeAlways`, `ReadyAlwaysServed`, `QuitIsClean`, `FailedCleanupIsFinal`, `AnswersStayHome` | the safety properties of `switch` |

**Lease.**  `LeaseIsExact` is inductive over the types and holds whatever becomes
of the source.  `SingleOwner` is not inductive: it says nothing of the file a process
has open.  `LeaseInv` adds that while the source exists, or a sidecar works
under a lease obtained when it did, nothing was unlinked, so every open lock
file is the one the path names.  `LeaseIndInv` makes it conditional on the first
source.

**Ownership.**  `ChildIsOwned` needs to know why nobody takes the session from a
generation at work.  `OwnInv` has seven parts:

- `WorkInv`: from its first step until the finalizer is scheduled, a generation
  is the live one, its phase is not ended and its record is unfinished;
- `ProcInv`: a running child and a tracked pid belong to such a step;
- `ExitInv`: once the exit callback has its answer, or its timeout, the handle
  is ending, so it never skips its finalizer;
- `FinInv`: a finalizer exists only for a generation whose work is over, so
  completing a handle never ends one that works;
- `NextInv`: generations are new when they are used;
- `ClaimInv`: an admission that is not handed over is unique, owns the session
  and replaced an ended handle, so withdrawing it restores an ended handle;
- `FreshInv`: a live, working handle has no ended record, and no resume that
  expects it has seen one, so no resume is admitted over it.

The step proof has one lemma per action or group of actions that moves the same
variables, and under it one step per part.

**Refinement.**  The contract lets a process be spawned, and an admission be
withdrawn, only before the handle is active.  `PublishInv` adds that: a handle
becomes active only while its startup publishes running (`AskInv`,
`ActiveInv`), and an admission replaces an earlier generation (`OrderInv`).

**Record.**  `PublishedIsDurable` and `FirstTerminalWins` relate the handle to a
record that is written under another lock, later, and by five different writers.
`DurableInv` has five parts:

- `RecordInv`: what a record of each phase holds, the pending status of an ending
  one included;
- `AgreeInv`: a completed handle has a completed record, and a handle over an
  ending record is ending;
- `ReplaceInv`: an admission saw an ended record and leaves it in place until it
  is handed over, so a rollback, even a late one, writes an ended record;
- `CloseInv`: a finalizer past its capture works for a handle that leaves its
  ending only by being completed, and it publishes after the record;
- `WriteInv`: between its two halves a transition holds the lock, and if it is
  the first to end the session the record is not ending yet.

`FirstTerminalWins` then goes action by action: what changes an ending record is
the second half of a transition, which `WriteInv` rules out, a finalizer or
reconciliation, which take the pending status, and a resume, which `AgreeInv`
and `ReplaceInv` rule out.  The proof uses `OwnInv` and `PublishInv`.

**Terminal.**  Inputs are numbered as they are typed, so their order is one of
numbers.  `IInv` adds to the properties: `SocketsOK`, what a socket has delivered
comes before its command in flight, this before its queue, and the queue is
counted and in order; `DetachedOK`, a socket leaves at most one command behind and
is closed then, so nothing overtakes it; `FirstRunOK`, before the first resume
every claim is on the one runtime and the attached socket holds the current token
until the runtime is ending.  What a push, with its coalescing, and a take do to a
queue are lemmas (`PushOK`, `TakeOK`).

**Store.**  Validity of a graph is not kept by its operations: it says nothing of
the members of an *accepted* parent, which orphan recovery proposes again.
`Sound` adds that such a parent owns its members.  The three theorems about the
graph are about single operations; deletion is the one that needs an argument,
that the closed set it removes leaves nobody dangling.  `Inv` then has two parts
beside the types.  `Journal`: a manifest names a sound graph and a legal
successor, a backup exists of all it replaces, every file is of one of the two,
and unless an I/O error made the code give up, what is not published is staged.
`Point`: what each program point knows of the entries its loop has handled.  The
refinement follows: the manifest is removed only when the files equal one of the
two graphs.

**Delivery.**  `Inv` adds to the properties that a taken record names its accept
(`Linked`) and that what a delivery remembers was true (`Remembered`).  `Owned`:
until the record is deleted, its packet replaced or a guard lost, the record is
out to the one delivery in flight, so an overlap has one of these causes.
`Alone`: until there is an overlap, a delivery settles no reservation but its own.
`Revised`, `Kept` and `AddressedOnce`: a running terminal that has the prompt of
the current revision, or may still get it, keeps the recommendation from being
offered again.

**Switch.**  `Own`: a sidecar that runs, or whose cleanup failed, is the current
and the last one.  `Fenced`, `Awaits`, `Destined`, `Opening`: what each await of
an operation may rely on.  `Served` and `Homed`: nothing is under way while a
workspace is ready, and a request that is not stale was made to what is ready.

Only model-checked: the liveness properties `EndingCompletes`,
`ExitReachesSockets` and `OperationsEnd`, since fairness and `ENABLED` are out of
the prover's reach.  Induction over data is, too: no theorem rests on what a
recursive definition or a fold computes, which is why the bytes of a queue are
counted as the cardinality of a set.

## 10. Where code and documents disagree

1. *Two owners of a workspace* (`lease_source_returns`): the gc removes the lock
   file with the directory, and `acquire` does not check after locking that the
   path still names the file it locked.  ADR 0052: "Only one sidecar may mutate
   or reconcile a workspace's metadata at a time".
2. *A deleted session stays ending* (`reopen_ending`): the finalizer compares
   stores by pointer; reopening the workspace exchanges it, and nothing schedules
   a finalizer again.  The startup-finalization design: "must not leave a
   generation permanently `ending`".
3. *A rollback overwrites a newer attempt* (`stale_rollback`): the record a
   resume rolls back to was read before its admission.
   `docs/agents/domain-entities.md`: "stale/cancelled attempts cannot overwrite a
   newer attempt".
4. *Two attachments after a resume* (`terminal_tokens`): tokens restart with each
   runtime and a release compares only the token.  The terminal-detach design:
   "at most one interactive attachment per session".
5. *A refused quit stays refused* (`switch_quit`): the lifecycle keeps a failed
   cleanup after the process has exited.  `main.ts:2170`: "so a later quit can try
   cleanup again"; `workspaceSwitchCoordinator.test.ts:365`: "quit cleanup timeout
   remains unresolved and can be retried".  `sidecarLifecycle.test.ts:261` supports
   the code.

Not a run: the resume request reads the handle after its startup task with
`expect("resumed session remains registered")` (`session_application.rs:6783`).
Nothing keeps the session registered until then: driver, finalizer and a forget
can all run first, each of which is an action of `SessionLifecycle`.

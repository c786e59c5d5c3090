# Verification of harness-everythings

TLA+ models of the parts of `harness-everythings` that keep state, the TLC
configurations that check them on small instances, and proofs, checked by TLAPS,
that the main results hold for every instance. Paths below are relative to
`src/harness_everythings/` inside the repository unless they start with `docs/`.

Run, in this directory, `tlc -config LockThreads.cfg MCWriteLock` (any pair of the
table under *Runs*) and `tlapm WriteLockProofs.tla` (any `*Proofs` module).

## 1. The system

The program initialises and maintains a *harness*: a workspace directory with a
`.harness` metadata directory, a Plan, roles, approvals, ledgers and generated
files. It is a Python library with a command line; several processes and threads
may use one workspace, and a person edits its files at the same time. No
component runs by itself: everything happens in calls.

All writing follows one contract: a call *reads* the workspace, *plans* a batch of
writes bound to what it read, builds a *manifest* with a fingerprint, a person
*approves* the fingerprint, and a later call *applies* the manifest inside the
workspace's *write lock*, re-checking what it was built on.

### Inventory

| component | state | operations | hard behaviour | what makes it correct |
|---|---|---|---|---|
| write lock (`storage/atomic.py`) | process RLock, lock file per root, per-thread depth | `write_lock` (enter, poll, time out, leave) | nesting, several roots, threads and processes, deadlines, crashes | mutual exclusion; bookkeeping agrees with open blocks; waits end |
| atomic file writes (`storage/atomic.py`) | temporary file, target | `_write_bytes_atomic` (`os.link` or re-check and `os.replace`) | edits between check and replace; failures after the target exists | an expected preimage or nothing is replaced |
| manifests (`storage/manifest.py`) | planned writes, manifest, approval, snapshots, results | `PlannedWrite`, `build_manifest`, `apply_manifest`, rollback | stale approvals, concurrent appliers, partial failure, rollback of rollback errors | all or nothing; only what was approved, over what was seen |
| H6 ledgers and views (`core/lifecycle.py`, `core/evidence.py`) | artifact, evidence and evaluation ledgers; generated views, checkpoint and handoff | `append_h6_events`, `_h6_bundle`, `reconcile_workspace`, `recover_handoff` | two reads of one file, appends between a read and its fingerprint; two notions of the latest event | history grows only; views are projections of the ledgers; a handoff stays resumable until the next one |
| retirement (`core/lifecycle.py`) | generated files, registry | `retire_generated` | edits, other commands and other retires between proposal, lock, checks and unlinks; half-done deletion | deletes what was approved only; recovers; final |
| task state machine (`core/state_machine.py`) | held by the caller | `transition`, `check_artifact_ownership`, `retry_allowed`, `Budget` | stale records of several actors; revival of failed tasks | paths of the table; one active owner per artifact |
| initialisation (`core/lifecycle.py`) | the whole workspace | `build_init_proposal`, `apply_init_proposal` | killed half way; repeated on a broken or a retired workspace | a directory becomes a workspace at most once |
| reconcile, diff, doctor, status, upgrade (`core/lifecycle.py`) | registry, generated files, drift | the functions of these names | they read without the lock, and what a killed command has left; drift never repaired; time in generated files | the registry says what was written; a reconcile is of one state of the workspace; what it settles |
| software workflow H4 (`core/lifecycle.py`) | Plan, approval, contract, traceability, verification, delivery | `submit_software_workflow`, validation in `status` | Plan and approval may change between dry run and apply; reconcile after delivery | a delivery belongs to the approved Plan it names |
| content workflow H5 (`core/content_domain.py`) | brief, variants, review, approval, delivery, release | `submit_content_workflow` | rival submissions; a release that comes later; variants that no manifest binds; reconcile after approval | one approval, for good; its records agree; an approved brief has been through a valid approval |
| approvals (`core/approvals_roles.py`) | approval records | `decide`, `validate_*` | approval of another version | an approval is for one fingerprint |
| roles (`core/roles.py`, `core/approvals_roles.py`) | role registry, user overlays | `propose_roles`, `transition_role_state`, `transition_role`, `reconcile_roles`, `_stabilize_role_registry` | two transition tables; transitions that a reconcile undoes; overlays | a state doctor accepts is the one the history ends in; what a reconcile does to a role is reported |
| checkpoints and handoffs (`core/evidence.py`) | records | `make_checkpoint`, `make_handoff`, `recover_handoff` | recovery from a stale handoff | with the ledgers |
| domain packs, stage executor (`core/domain_pack_loader.py`) | none, static resources | loading, checking, stage execution | — | — |
| command line (`cli/`) | none of its own | dry run, approval file, apply | two invocations per write | as manifests |
| discovery, profile | none | file system reads | — | — |
| context, adapters | none | pure derivations | — | — |
| identity, entities, schemas, views, paths, archive | none | pure functions | — | — |

Interactions. The command line builds every proposal twice, once for the dry run
and once for the apply. Lifecycle operations call `build_manifest` and
`apply_manifest`; that calls `write_lock` around everything and again, nested,
around every single file. Retirement takes `write_lock` itself and does not go
through a manifest. Ledgers, views, registry, Plan and approvals are files, so
operations communicate through the workspace only, and *readers take no lock*.

## 2. Modules

| module | models | kind |
|---|---|---|
| `WorkspaceMutex` | what the write lock promises; its actions are used by the modules built on it | abstract |
| `WriteLock` | `write_lock` with its three layers | detailed; implements `WorkspaceMutex` for every root |
| `ApprovalRecord` | what the content workflow promises to readers of the delivery record and of status: one approval, one release, an approval whose validity for the evidence it cites changes with reconciles only | abstract |
| `WorkspacePhases` | what init promises: a directory becomes a workspace at most once | abstract |
| `AtomicBatch` | what manifests promise: batches take effect as a whole, and answers are true | abstract |
| `ManifestApply` | `manifest.py` and `_write_bytes_atomic`, on the lock of `WorkspaceMutex` | detailed; implements `AtomicBatch` |
| `EventLedger` | `append_h6_events` and the ledger part of reconcile, on batches as in `AtomicBatch` | detailed |
| `RetireGenerated` | `retire_generated`, on the lock of `WorkspaceMutex` | detailed |
| `SoftwareWorkflow` | `submit_software_workflow`, the appends to the same ledgers, its part of reconcile, and what status, diff and doctor make of the files; on batches as in `AtomicBatch` | detailed |
| `ContentWorkflow` | `submit_content_workflow`, the appends to the same ledger, its part of reconcile, and what status, diff and doctor make of the files; likewise | detailed; implements `ApprovalRecord` |
| `Roles` | `roles.py` with `approvals_roles.transition_role`: role records, tables, stabilisation, reconciliation | operators |
| `WorkspaceLifecycle` | init, reconcile, upgrade, submit and retire of one workspace, file by file, with diff and doctor; on `Roles` | detailed; implements `WorkspacePhases` |
| `TaskLifecycle` | `state_machine.py` | detailed |
| `*Proofs` | theorems about the module they extend | proofs |
| `MC*` | instances for TLC | model checking |

Each level uses the promise of the one below, and that the promise is kept is
checked: `ManifestApply` and `RetireGenerated` take the lock with the actions
`Acquire`, `Release`, `Vanish` of `WorkspaceMutex`, which `WriteLock` is shown to
implement (`MutexRefined`); `EventLedger`, `SoftwareWorkflow` and `ContentWorkflow` apply a batch
in one step, which `AllOrNothing` shows for those who respect the lock. Their readers do
not take it; what that leads to is the subject of `WorkspaceLifecycle`, which writes its
batches file by file while others read.

### WriteLock

`rlockOwner`/`rlockCount` are `_WRITE_LOCK` of each process, one RLock for all
roots; `flock` is the operating system's lock on the lock file of each root;
`depths` is the thread-local `_LOCK_STATE.depths`. `blocks` is not in the code: it
records which with-blocks a thread is really inside of, innermost last, and is
what the code's bookkeeping is compared with. `Call` is a caller reaching a
with-statement; `EnterNested`, `EnterOuter`, `OpenFails` what happens there;
`Lock`, `DeadlinePasses`, `TimeOut` the polling loop; `LeaveNested`, `LeaveOuter`,
`CloseHandle` the finally clauses; `Crash` the death of a process, whose locks the
operating system drops. Time is only whether a deadline has passed.

### ManifestApply

`pc` walks an applier through `idle`, `planned`, `built` (dry run and approval),
then, in the with-block, `check`, `preflight`, and for each target `write` (first
look and temporary file), `swap` (`os.link`, or the second look), `replace`
(`os.replace`) and `record` (the result reaches `results`). A failure leads to
`undo`, and for each recorded result, in reverse, to `restore`. `manifest` holds
targets, expectations (`expect`) and the preflight base (`base`, of the targets or
of the whole tree); `approved` is the manifest the approval file names; `snap` is
`snapshots`. `raced` is not in the code: it marks an edit that hit the file at
hand after its last check. Contents stand for bytes and for their fingerprints:
two files have one fingerprint iff they have one content. Faults are I/O errors
("io"), failure to unlink the temporary name ("tmp"), KeyboardInterrupt
("interrupt") and death ("kill"). The nested `write_lock` of each file write is
left out, since `WriteLock` shows a nested block to change nothing but counts.

### EventLedger

A ledger is the set of its events; the code never writes an empty one, so a
missing file is the empty set. `read`, `bind`, `appendable` are the points of
`append_h6_events`: for each ledger it reads the file and merges by key
(`ReadLedger`, `Merged`, `RefuseConflict`), then reads it *again* to fingerprint it
(`Bind`), then builds and applies. `look`, `projected` are those of reconcile: it
reads the ledgers one by one (`Look`), then fingerprints the workspace
(`BuildReconcile`), then applies. `torn` is not in the code: the ledgers that
changed between a process' read and the fingerprint meant to protect that read.
`Checkpoint` is the checkpoint that a reconcile writes with its views, and the handoff
too, which carries it whole; `Recovers` is `recover_handoff`, given the handoff that
somebody holds, the checkpoint on file and the events recorded by then.

### RetireGenerated

`listed` is the registry: path to fingerprint. `proposed` is an invocation whose
proposal equals the approved one; inside the lock it compares the tree (`tree`),
goes through the files (`recheck`), reads them (`snapshot`), unlinks them
(`unlink`), the registry last, and on an OSError writes back exclusively
(`recover`). `Reconcile` is any other command that writes generated files and
their registry entries in one batch; `Edit` and `EditTree` are the user.
`raced` and `failed` record the files whose fate the code cannot be held to: those
edited after their re-check, and those that could not be written back.

### Roles and WorkspaceLifecycle

`WorkspaceLifecycle` has the whole life of a workspace: `files` is its metadata
directory, `tree` the user's own files, of which only the source fingerprint counts.
Files that are always written together, and of which one is as the other, are one
file here: `profile` stands for profile, unresolved and authority; `roles` for role registry,
context routes and adapter state; `report` for the reconcile proposal; `outputs` for
the files derived for the domain pack, which is that of software: *empty* as reconcile
writes them, *submitted* after a submission. `work` stands for what a submission adds
(review, approval, task), `events` for the ledgers of artifacts and evidence, `handoff` for
the H6 views, with the events they were made of. `plan` is *proposed*, as init
writes it, *approved*, or *governed*, which is approved with a domain pack and H6
governance; `approval` is the Plan it was given for. A report, a role registry and a
handoff carry the time of the call that made them; a role carries its history.

`job` is what each process is about to write. A proposal is first *read*: its contents
are settled, from the files as they are, whoever may be writing them (`BuildInit`,
`BuildReconcile`, `BuildUpgrade`, `BuildSubmit`). Then it is *bound* (`Bind`): the
fingerprints of its targets and of the workspace are taken, which happens after, in
`add_json_write` and `build_manifest`. `Snapshot` says which files those are: for a Plan
that is only proposed the metadata directory is left out. A retire reads and binds
its files in one (`BuildRetire`), since it compares each with the registry as it reads
it. `Enter` is the with-block and its preflight; `Write` one file; `Stop` a command
that is not approved, refused or fails, or a process that is killed, with the lock or
without it: what it has written stays. Rollback of a failed batch, and its own races,
are those of `ManifestApply` and `RetireGenerated`; without them a failure is the worst
it can be, a kill. `writer` is who holds the lock, as in `WorkspaceMutex`.

The user changes sources, edits and signs the Plan, adds overlays, and moves roles by
either of the two transition functions (`ChangeSources`, `EditPlan`, `SignPlan`, `Overlay`,
`TransitionRole`, `RelabelRole`); edits of metadata in the middle of a batch are left to
`ManifestApply`. `Drift` and `DoctorAccepts` are what diff and doctor compute of the files.
Of the outputs, doctor compares the empty ones with those derived; once there is `work`
it exempts them (`core/lifecycle.py:1321`) and validates the work instead (1325-1340):
`OutputsAccepted`. A submission leaves the H6 views as they were, so doctor objects to them if
its events are new, until the next reconcile. Appends and evaluations of their own,
releases, and what may be lost of a ledger are in `EventLedger` and `SoftwareWorkflow`.

Two things are not in the code. `torn` marks a proposal during whose reading
something was written: it may hold parts of two states. `astray` are the registered
files that were written without the registry: by an edit, a submission, a batch that
was not finished, or a torn one.

`Roles` has no state. `Stabilised`, `Desired` and `Reconciled` are the three steps that
a reconcile derives roles by, `Transitioned` and `Relabelled` the two transition functions
with their tables, `Accepted` what doctor asks of a role. A contract's wording never
changes in the code, so its fingerprint is the state it was taken of. `Claim` is what a
user's overlay takes of a generated role: its identity, or a domain it owns.

### SoftwareWorkflow

`files` is the part of the workspace the software workflow lives in: Plan and its
approval, the event ledgers (one set here), the derived contract, the records of
traceability, verification and delivery, the approved work (review, approval and
task of one submission) and the release approval. A record that reconcile has just
derived is told from one of real work by its value: empty traceability is the rows
of its contract, verification that was not run is its contract, the empty delivery
is `Unresolved`; after a submission each of them is the work. `PlanApproved`,
`WorkApproved`, `ReleaseApproved`, `Drift` and `DoctorAccepts` are what the validators,
status, diff and doctor compute from these files, no more and no less: status does
not look at the Plan, diff takes any verification, doctor exempts work once there
is an approval of it.

Every command reads first and binds afterwards. An append has merged its event with the
ledgers (`StartAppend`: `append`) and fingerprints what it finds on a second reading
(`BindAppend`: `appendable`). A submission has validated Plan, approval, evidence
and contract (`StartSubmit`: `submit`), merges its events with the ledgers (`MergeLedger`:
`merge`), then binds its targets, `TargetsOf` (`BindSubmit`: `submittable`). `payload` is the ledgers
as such a command is going to write them, from its first reading. What is appended in
between is in what it binds and not in what it writes: applying it takes that off. A
reconcile has read (`StartReconcile`: `reconcile`), then binds the whole workspace
(`BindReconcile`: `reconcilable`), since only for an approved Plan is the metadata
directory part of the snapshot (`core/lifecycle.py:822`), and only for an approved Plan does
it write these files. `EditPlan` and `WriteApproval` are the user's editor or any tool that
writes Plan and approval. `torn` and `raced` are not in the code: a command whose reading
went stale before it was fingerprinted, and that such a submission was applied.
Binding all targets of a submission is one step; a change between two of them either
touches a target already bound, which makes the manifest stale, or one yet to be bound,
which is as if it had come first.

The two ledgers that a submission writes are one set: a work is in it iff both of them hold
all its events, an evidence record of the Plan iff the evidence ledger does. A command
that goes over the two one after the other may lose the work's events of one of them
only; the work's approval is as invalid then as with both lost, so the set is without the
work in either case, and `Appended` has a whole work as one append, which is what puts
the missing events back. An append of anything else is one of an evidence record that no
approval rests on. The evidence of an approval of the Plan is not that of a work.

Plans are taken to be without evidence governance here and in `ContentWorkflow`; with it
doctor judges the H6 views as well, which are the matter of `EventLedger` and
`WorkspaceLifecycle`.

### ContentWorkflow

Built like `SoftwareWorkflow`. `files` holds Plan and approval, the evidence ledger, the
records reconcile derives from the Plan (brief, variants, review) and what
submissions add (`work`, the approval; `delivery`; `release`). A Plan names one brief,
some variants and the one it selects; `FindingOf` is what the checks of
`review_content` observe of them, and `Passed` the findings by which all checks
passed. A review is its finding, its variant and the evidence it cites
(`Cited`: everything on file about the brief or a variant). The output contract is a
function of the brief and has no file of its own here. `Supported` is
`_validate_content_evidence_bindings`, with each claim and its sources, and each named
check, as one `Check`. A review lists the identities of all variants and has claims
and text of the selected one checked; the claims of the others are left out, so that
finding and selection determine the variants (`ReviewShowsVariants`).

`submit_content_workflow` is three things. The first submission (`Submittable`,
`StartSubmit`, `BindSubmit`, `ApplySubmit`) takes the brief through its lifecycle
(`MayBeApproved`) and writes approval, delivery and possibly release. Evidence that comes
with it is left to `append_h6_events`, which has its two readings as always: `MergeEvidence`
and `BindLedger`, after the other targets are bound. An append by itself is `StartAppend`,
`BindAppend`, `ApplyAppend`, and `payload` as in `SoftwareWorkflow`. A later submission
with the same approval adds a release, or enters one that is on file in the delivery
record (`Releasable`, `StartRelease`, `BindRelease`, `ApplyRelease`); evidence that comes with it
serves to validate it and is not written. Any other either
writes nothing or is refused. A release with the delivery record already marked as
released, but no release file, would write the file alone; nothing leads there.
`torn` and `raced` are as in `SoftwareWorkflow`: a submission whose reading no
longer held when its targets were fingerprinted, and that one was applied.

`Seen` is the module as a reader of the delivery record and of status sees it, an
`ApprovalRecord`: the approval (`RecordedWork`) and the release (`RecordedRelease`) on
record, whether the approval is valid, and which processes have a reconcile ready. Valid
is `Sound`: for the evidence that the review cites, be it on file or not. Status asks for
that evidence on file (`WorkApproved`), so an append that drops some of it makes status say
"invalidated" of an approval that is sound; bringing it back makes it valid again. In
`ApprovalRecord`, `Spoil` is a torn submission being applied; nothing is promised from
then on.

### TaskLifecycle

The code's functions are pure and no driver is in the repository, so the driver is
the model's: it keeps tasks, asks `check_artifact_ownership` before adding one
(`Claim`), and passes `transition` records that any actor made out at any earlier
time (`MakeOut`, then `Transition` or `Reject`). `TASK_TRANSITIONS` is the code's
table. `retry_allowed`, `Budget` and `idempotency_key`, pure functions of one call
that nothing in the repository calls, are left out.

Each module also has definitions marked *Faulty variant*: the same operation with
a plausible mistake. No specification uses them. Putting one in place of the
original breaks the property it is there for, which shows that the property
depends on the code's doing it right.

## 3. Runs

| run | module, cfg | shows | instance |
|---|---|---|---|
| LockThreads | MCWriteLock | `MutualExclusion`, `LocksMatchBlocks`, `MutexRefined`, `WaitersHoldNothing`; `PollEnds`, `RLockIsReleased` | 2 processes, one with 2 threads; 2 roots; nesting 2 |
| ManifestBatches | MCManifestApply | `AllOrNothing`, `FailedBatchIsUndone` | 2 appliers, batch of 2 files, I/O errors and kills |
| ManifestEdits | MCManifestApply | `ApprovedPreimage`, `OnlyRacedEditsAreLost`, `OnlyTheLastWriteStrays`; `ApplyEnds` | 1 applier, planning carelessly, 2 batches, user edits, all faults |
| LedgerCommands | MCEventLedger | `AppendsAddTheirEvents`, `ViewsAreCurrent`, `ResumableUntilReconciled` | 2 processes, 2 ledgers, 4 events |
| RetireCommands | MCRetireGenerated | `OnlyRacedEditsAreDeleted`, `FailedRetireRestores`, `OnlyLateFilesAreOrphaned` | 2 retirers, 3 files, edits, reconciles, I/O errors, kills |
| SoftwareDelivery | MCSoftwareWorkflow | `ApprovedIsDelivered`, `DeliveredIsApproved`, `ApprovedUntilReconciled`, `SubmissionsSatisfyDoctor`, `ReconcileSettles` | 2 processes, 3 Plan versions, 2 approvals resting on an evidence record, 2 contracts with a work each, releases; appends of the evidence and of either work |
| ContentDelivery | MCContentWorkflow | `RecordsAgree`, `ApprovalIsFinal`, `ApprovedBriefIsValid`, `ReconcileSettles`, `HarmlessReconcile`, `ReleasableUntilReconciled`, `RecordRefined` | 2 processes, 3 Plan versions, 2 variants, 4 approvals, 2 releases, 2 evidence records, either appended, one of them also brought by submissions |
| WorkspaceCommands | MCWorkspaceLifecycle | `RegistryTruth`, `DerivationIsSerial`, `ReconcileSettles`, `RoleChangesAreReported`, `AcceptedRoleIsRecorded`, `ApprovedIsNeverRetired`, `PhasesRefined` | 2 processes, 2 states of the sources, 2 times, 1 role, 6 commands and edits, governed Plans and submissions among them |
| TaskOwners | MCTaskLifecycle | `HistoryExplainsState`, `ClashNeedsRevival` | 2 tasks, 1 artifact, 2 actors, 4 transitions |

WorkspaceCommands also checks the module's `TypeOK`; the type invariants of the other
modules are theorems (`TypeCorrect`) and are not run again. The remaining runs each find a violation; see *Findings*.

### Bounds, and why they are enough

- LockThreads. Three threads are the least with two in one process and one in
  another; two roots the least for two processes to wait for each other; nesting 2
  reaches a nested block of the same root and a time-out inside a block of
  another one. The theorems cover any nesting. Safety was also checked at nesting 3.
- ManifestBatches and ManifestEdits. Two appliers are the least that race; two
  files the least for a batch to be half written; one of them is in the tree scope
  and one is not. The edits include creating, changing and deleting a target. The
  two runs are apart because the product of a second applier with edits is out of
  reach; the theorems on `ApprovedPreimage` and `OnlyRacedEditsAreLost` hold for both
  together, and `BatchesAreAtomic` for any number of appliers and batches of any length.
- LedgerCommands. Two processes give every order of two reads and an append
  between; the events include a conflict under one key, and a registration and
  consumption of one evaluation in separate manifests and in one call. Ledgers
  are sets over these events, so nothing else needs a bound.
- RetireCommands. Two retirers, alike (`SYMMETRY`; every property quantifies over
  all retirers and no temporal formula is checked, so it is sound); a third file
  comes in only by a reconcile. `CHECK_DEADLOCK FALSE`, because a retired
  workspace really stops: no registry, nothing to propose and, once the edits
  are used up, nothing to do.
- WorkspaceCommands. Two processes are the least for one to read while the other writes,
  and for a proposal to grow old. Six steps (`MaxSteps` counts commands proposed and
  the user's edits, and nothing else: every interleaving of their readings, bindings,
  writes and kills is explored) are init, approval, a reconcile, a change, and two
  more commands that race; a second time tells what carries a time. One role suffices,
  as no property relates two; histories of at most two entries (`MaxHistory`) tell
  one transition from none. Processes, times and trees are alike (`SYMMETRY`; no liveness
  is checked). `CHECK_DEADLOCK FALSE`, since the run ends with its steps. The theorems
  have none of these bounds but `MaxHistory` and `MaxSteps`, which may be any number.
- SoftwareDelivery. Two processes, alike (`SYMMETRY`, as above), are the least for a
  contract to change under a submission, and for events to be appended between the two
  readings of another append or submission. Two declared versions of the Plan with
  their own contracts and a draft that shares one; the contracts have the same rows,
  so that empty traceability does not tell them apart and verification has to.
  Every file, and the ledgers too, can return to an earlier value; nothing else needs a
  bound. The two versions differ in nothing but their names, nor do their approvals,
  contracts and works, so swapping all of these is a symmetry as well (the draft is never
  derived from). With one work for each contract no work replaces another without a
  reconcile between, so the exception of `SubmissionsSatisfyDoctor` (an old release under
  new work) does not arise in this instance. It was met in a larger one, with a second
  work for a contract, which takes too long to be run each time; there too the
  property holds, and fails without its exception. The theorem covers both.
- ContentDelivery. Two processes, alike (`SYMMETRY`), are the least for rival submissions
  and for a reconcile under a submission. Two declared versions of the Plan select
  different variants of one brief, so that variants change while the brief does not,
  and a draft stops reconciles. For each variant there are two approvals, which differ in
  the evidence they cite, so both are valid at different times; one of them has a
  release. Of two evidence records one covers the brief's check, and is what the approvals
  of the Plan rest on; the other only adds to what a review cites, and may come with a
  submission. Swapping the two versions with all that is theirs is a symmetry, as in
  SoftwareDelivery. These two runs have 10 and 5 million distinct states; each takes about
  three minutes.
- TaskOwners. `MaxTransitions` cuts histories at 4, enough for claim, failure, claim
  by another task, revival and a second failure; `Targets` leaves out the states
  that no rule about claiming tells from `running`. The full table and histories of
  any length are covered by the theorems, `FinalStays` (delivered and cancelled tasks
  never change) by a theorem alone.

### Fairness

Liveness is checked where the code runs by itself once started.

- WriteLock: a thread that can run does (`WF` of entering and closing), the clock
  advances (`WF` of `DeadlinePasses`), a poller looks every 10 ms (`WF` of `Lock` or
  `TimeOut`), and a body ends. A body that calls more blocks is left only if it
  makes finitely many calls, which the code's bodies do; that is strong fairness of
  leaving at each nesting level. Nothing is assumed of callers, of which thread
  gets an RLock first, or of crashes.
- ManifestApply: a live process goes on with the apply it is in (`WF` of `ApplyStep`).
  Nothing is assumed of people, of further applies, of edits or of faults: an apply
  must end although the user may edit for ever.

The other modules have no progress of their own: whether a command is given,
approved or retried is up to people.

## 4. Findings

Each violation run checks what a document, docstring or comment of the repository
says, and finds a behaviour of the code in which it is false.

1. **ManifestTmpUnlink** (`storage/atomic.py:149`). `os.link` has created the target;
   unlinking the temporary name fails; the exception leaves before a result is
   recorded, so the rollback does not know the target and says "rolled back" with
   the new file in place. `docs/architecture/overview.md:37` promises the rollback.
   `OnlyTheLastWriteStrays` bounds the damage: a rollback overlooks one target at
   most, and after an error only one that did not exist before.
2. **LedgerLostEvent** (`core/lifecycle.py:869`). The ledger is read at 842 and read
   again, for its fingerprint, at 869. An append applied in between is fingerprinted
   as expected and then overwritten by content without it, against the docstring
   at 828 and `docs/architecture/overview.md:88`. `submit_software_workflow` has the
   same pair of reads (953, 962). What the lost events were for is lost with them: an
   approved work (`ApprovedUntilReconciled`, `DeliveredIsApproved`), the Plan's approval or
   doctor's consent (`SubmissionsSatisfyDoctor`), the evidence of a content review
   (`ApprovedBriefIsValid`, `ReleasableUntilReconciled`). These properties name such a
   stale write of the ledgers as their exception, by its payload lacking just those events
   (`Drops`), and hold otherwise.
3. **SoftwareStalePlan** (`core/lifecycle.py:980`). A submission is validated against Plan,
   approval and contract when it is built. Its manifest binds none of them, and
   applying it validates only the manifest: a Plan edited in between leaves it
   applicable, against `docs/architecture/overview.md:82` ("validated again before
   applying"). For the contract, verification stands in, as `DeliveredIsApproved`
   shows; for Plan and approval nothing does.

More disagreements have no run of their own. Of most of them a property that holds
names the exception or the consequence:

- Ctrl-C between `os.replace` and the recording of its result
  (`storage/atomic.py:155`, `storage/manifest.py:256`) leaves that target replaced while
  the others are rolled back, against the comment at `storage/atomic.py:157`.
  `FailedBatchIsUndone` is checked without the faults "tmp" and "interrupt" and fails
  with either.
- Reconcile reads the ledgers (`core/lifecycle.py:722`) before it fingerprints the
  workspace (823). An append and a reconcile applied in between become part of its
  base, and its view then lacks their record (`docs/architecture/overview.md:88`):
  the exception `torn` of `ViewsAreCurrent`.
- A submission reads the contract (`core/lifecycle.py:924`) before it fingerprints its
  targets (973). A reconcile in between makes it deliver for a contract that is
  gone: the exception `raced` of `DeliveredIsApproved`.
- Once a software workflow is complete, diff compares its traceability with an empty
  one and says "reconcile required" (`core/lifecycle.py:711`) for good, while doctor,
  which exempts it (1321), is content (under evidence governance once the H6 views
  hold the events of the work). The reconcile then writes empty records over the
  delivery (793-795), status turns from "approved" to "invalidated" and doctor reports an
  error at every time until the work is submitted again: `ReconcileSettles` of
  `SoftwareWorkflow` and of `WorkspaceLifecycle` state this outcome. `ApprovedUntilReconciled`
  says that the reconcile and the lost events of finding 2 are the only ways to it.
- A reconcile takes an approved brief back to its first state
  (`core/lifecycle.py:798`). A release of the approved work, which could be added until
  then, is from then on refused as "already approved with different content"
  (1026, 1052), and nothing takes the brief forward again, against
  `docs/acceptance-matrix.md:94` ("可后置追加", can be appended later).
  `ReleasableUntilReconciled` names the reconcile as its exception, and
  `HarmlessReconcile` shows that status and doctor report nothing of it.
- A submission looks for a prior approval (`core/lifecycle.py:1012`) before it
  fingerprints its targets (1064). One applied in between is overwritten, with
  approval and delivery of another work, and with its release left behind: the
  exception `raced` of `RecordsAgree` and `ApprovalIsFinal`.
- `check_artifact_ownership` skips failed tasks (`core/state_machine.py:192`), and reviving
  one asks nobody. A failed task's artifact that another task has claimed has two
  active owners, against the docstring at 190: what `ClashNeedsRevival` names.

- A reconcile puts a role that has been through a transition back to "proposed", and
  its history is lost (`core/lifecycle.py:302`); the reconciliation reports it as drift.
  A registered role of which a user's overlay owns a domain, under another role_id,
  is dropped (`core/lifecycle.py:501`) and reported as retained, with no conflict, against
  `docs/architecture/overview.md:65`. `RoleChangesAreReported` names the second as its
  exception.
- `approvals_roles.transition_role` changes a state without history or fingerprint, by
  a table that is not that of `core/roles.py` (`core/approvals_roles.py:251`; its comment says
  that a deprecated role can be restored, which the other table forbids). doctor
  finds it by the fingerprint, until a transition by `core/roles.py` makes the
  fingerprint good again and leaves a gap in the history: `AcceptedRoleIsRecorded` says
  what holds all the same.
- When sources have changed, doctor asks for a reconcile (`core/lifecycle.py:1182`) and
  diff says "reconcile required"; a reconcile does not write the profile, so both say
  it again for good. Role registry and handoff carry the time of the call, so diff at any other
  time sees drift that is none, and so does doctor in the handoff. `ReconcileSettles` of
  `WorkspaceLifecycle` states both, and with the approved work above, exactly.
- A kill of init before its registry is written leaves a workspace that counts as
  complete: init has nothing to do, reconcile and upgrade raise (`core/lifecycle.py:811`),
  retire finds nothing. Earlier, the files it left refuse every further init, and so
  does what a retire keeps; diff and upgrade say "init required". `PhasesRefined`
  shows that no command leads out of *broken*.
- A submission rewrites generated files without their registry entries
  (`core/lifecycle.py:968`): a retire is refused until a reconcile writes them anew. It is
  one of the ways into `astray`, the exception of `RegistryTruth`.
- The registry a retire goes by is read before the lock and not again. A reconcile in
  between registers files; the retire deletes the registry (`core/lifecycle.py:1511`) and
  leaves them, without an entry to retire them by (`docs/architecture/overview.md:95`).
  `OnlyLateFilesAreOrphaned` shows that nothing else is left behind so, but what the
  user put there while the retire ran.
- A software submission without a release, over work that was released, leaves the
  old release approval on file (`core/lifecycle.py:971-979` writes a release only when
  there is one). doctor checks every release on file against the work on file (1357)
  and reports an error until that work is released too. It is an exception of
  `SubmissionsSatisfyDoctor`; but for it and for lost events, submissions and appends do
  nothing in these files that doctor objects to.

Two windows are left by the design, since a user's editor takes no lock: an edit
between the last check of a file and its replacement, restoring or deletion is
lost (`storage/atomic.py:153-155`, `storage/manifest.py:267-273`,
`core/lifecycle.py:1503-1510`). They are the exceptions (`raced`) that
`OnlyRacedEditsAreLost` and `OnlyRacedEditsAreDeleted` name, and these show that there
are no others; `docs/architecture/overview.md:37-38` and the comment at
`core/lifecycle.py:1501-1502` read as if there were none at all.

## 5. Proofs

All theorems are of the form `Spec => []Inv`, `Spec => [][A]_vars` or `Spec =>` an abstract
specification, for every value of the constants that satisfies the module's named assumption. These say that
constants have the shape the code gives them: threads belong to one process, the
sentinels `Nobody`, `Absent`, `Unbound` are not ordinary values, a batch names each
target once, ledgers are distinct, works, contracts and rows are told apart.

- **WriteLockProofs.** `TypeCorrect`; `LocksAgree` (`LocksMatchBlocks`);
  `MutuallyExclusive`. `MutualExclusion` follows from `FlocksMatch`: a root is open in a
  thread iff the thread holds the file lock, and one thread at most does. That is
  not inductive by itself: leaving must know which exit is the outermost, hence
  `DepthsMatch` (the depth is the number of open blocks of the root); and between
  the file lock and the RLock a thread is neither in nor out, hence `Holds`, which
  counts the locations `poll` and `close`. Lemmas say what appending and removing the
  last element do to `Occurrences` and its cardinality. `MutexImplemented` (`MutexRefined`)
  follows: the occupant of a root is the holder of its file lock (`OccupantHolds`), which
  a step takes when it is free, drops, or leaves alone (`FileLockSteps`).
  `NoCircularWait` (`WaitersHoldNothing`) is the absence of deadlock as far as safety can
  say it: who waits without a deadline is outside of all blocks and holds no file
  lock, and the owner it waits for can go on.
- **ManifestApplyProofs.** `TypeCorrect`, `CriticalSectionHeld`,
  `ApprovedPreimageHolds`, `OnlyRacedEdits`, `RollbacksUndo` (`FailedBatchIsUndone`),
  `BatchesAreAtomic` (`AllOrNothing`), `RollbacksOverlookOneWrite`
  (`OnlyTheLastWriteStrays`), `AppliesRunOut`. The invariant is `TypeOK`, `CriticalHeld`
  and one `Row` per applier: past `check` the manifest is the approved one; the
  targets preflighted so far have snapshots equal to their expectation; at
  `replace` and `restore` the file at hand is as checked or `raced`. Rows of other
  appliers survive because a step changes one applier's variables only, and the
  disk is changed inside the critical section or by the user, who sets `raced`.
  `RollbacksUndo` and `BatchesAreAtomic` assume `Undisturbed`: no user edits, no interrupt, and a temporary
  name that can be unlinked, as in the run ManifestBatches; kills and failing writes
  and restorations may happen. Both are false without it (`ManifestTmpUnlink` shows one
  way). They rest on `Whole`: a target has the new payload exactly while it is *in
  flight*, and else what the preflight saw. Every step inside an apply leaves the payload
  in flight as it is, adds one target (`TakesOff`) or brings one back (`Lands`), and none of
  these shows in the store of `AtomicBatch`; the step that ends the apply commits, leaves
  unchanged or tears, as its answer says.
  `RollbacksOverlookOneWrite` allows every fault and every edit but one: the user does
  not write the payload of a batch himself (`PayloadIsOurs`), since then it could not be
  told from the batch's. As long as it writes, an applier knows
  where its payload is (`NoStrays`); an error or an interrupt leaves only the target at
  hand unaccounted for (`LastWriteStrays`).
  `AppliesRunOut` gives a measure, `StepsLeft`, of at most 7n + 3 for a batch of n files:
  each step of the apply lowers it, and no step of anyone else touches it.
- **EventLedgerProofs.** `TypeCorrect`, `AppendsAreExact`
  (`AppendsAddTheirEvents`), `ReconciledViews` (`ViewsAreCurrent`). Per process: the
  payload made of a ledger is the events the ledger had when fingerprinted and those
  the append brings, and ledgers it passes over are brought none (`AppendKeeps`); and the projections looked at so far are current (`LookKeeps`),
  unless the ledger is in `torn`; `Position` says which ledgers those are about.
  `ResumableHandoffs` (`ResumableUntilReconciled`): an append keeps what has been consumed,
  and a reconcile's checkpoint, of the same ledgers, holds no evaluation open that
  was consumed before.
- **RetireGeneratedProofs.** `TypeCorrect`, `CriticalSectionHeld`,
  `DeletedWasApproved` (`OnlyRacedEditsAreDeleted`), `RecoveryIsComplete`
  (`FailedRetireRestores`), `OrphansAreLate` (`OnlyLateFilesAreOrphaned`), `RetiresEnd`. Per retirer: what has been re-checked is as listed or
  raced, what has been snapshotted equals what was listed or is raced, and what
  has been visited in recovery is back, or raced, or failed. For `OrphansAreLate`,
  what has been unlinked is gone or raced. `RetiresEnd` says that each step inside the lock
  takes one file off the loop it is in, or starts a later one of four loops: a retire of n
  files leaves the lock after at most 4n + 5 steps of its own.
- **WorkspaceLifecycleProofs.** `TypeCorrect`, `NeverRetired` (`ApprovedIsNeverRetired`),
  `PhasesImplemented` (`PhasesRefined`), `RecordedRoles` (`AcceptedRoleIsRecorded`),
  `TrueRegistry` (`RegistryTruth`), `SerialDerivation` (`DerivationIsSerial`),
  `SettlingReconcile` (`ReconcileSettles`), `ReportedRoleChanges`
  (`RoleChangesAreReported`): every property of WorkspaceCommands. The invariant has two
  layers. `PhaseInv` says of each kind of proposal what it may write (`Sane`), and what is
  on file while one is written (`WriterOK`, `InitWrites`, `RetireDeletes`); that no
  reconcile is under way without a registry (`NoRevival`) and nothing at all before
  init (`Untouched`) closes the phases. It is inductive by itself and gives types,
  phases and roles. `RegistryTruth` is not: the registry that a reconcile writes is made of files
  that may since have changed. What protects it is the snapshot, so the second layer
  relates a proposal to the files it was made of (`Source`: the files as they are
  while it is read, and what it is bound to after that). `Fits` says that its contents
  are what would be made of those, `ReconcileWrites` that of the files it is bound to
  those not yet written are still there. Torn proposals are excepted from both,
  as they are in the properties.
- **SoftwareWorkflowProofs.** `TypeCorrect`, `ApprovedWorkIsDelivered`,
  `DeliveredWorkIsApproved`, `ApprovalLasts`, `ReconcileRepairs`, `SubmissionsPleaseDoctor`
  (`SubmissionsSatisfyDoctor`), for the properties of SoftwareDelivery. `Consistent` relates the records: the verification record belongs
  to the work that is also in delivery, traceability and approval, or names
  the contract on file. The ledgers are no part of it, since they may lose what they held. That does not protect a submission, which never binds the
  contract; `SubmitRow` does: the verification record it has bound *goes with* the
  contract of its work, so that finding the record again means finding the
  contract again. It fails after a torn submission has been applied, since then a
  record may return with another contract; hence `raced`. The action properties follow
  step by step: a ledger that is written has all that was on file but for what the
  writer drops (`Kept`), and its payload has the events of its own work (`SubmitRow`).
  `ReconcileRow` says what a reconcile has bound if it is not torn, which is determined
  at binding from what is there then, whoever has changed it.
- **ContentWorkflowProofs.** `TypeCorrect`, `RecordsStayConsistent`, `ApprovedBriefs`,
  `ApprovalsStay`, `ReconcileRepairs`, `ReconcileIsHarmless`, `ReleaseStaysOpen`, `RecordImplemented`
  (`RecordRefined`), one for each property of ContentDelivery. The invariant adds `OfOnePlan` and a row per
  process. A submission binds brief and review, and not the variants; but while the
  brief is in its first state, brief, variants and review come from one reconcile
  (`OfOnePlan`), so finding the review again means finding its variants again
  (`SubmitRow`, `ReviewShowsVariants`). `ReleaseRow` says that a pending release is for the
  approval on file, which rests on approvals being final. Of evidence nothing is
  invariant: a stale append may take off whatever a review cites. So validity is split into
  what the evidence says (`Sound`), which no append changes (`SoundSame`,
  `UntouchedConsistent`), and whether it is on file; both together are what status asks for
  (`SoundApproved`). `ReleaseStaysOpen` needs the second part, and has it from `Kept` but for what
  a writer drops. `RecordAsFiled` says that delivery record and
  approval agree, so that a step of the files is a step of the record (`RecordStep`).
- **TaskLifecycleProofs.** `TypeCorrect`, `PathsFollowTable`
  (`HistoryExplainsState`), `FinalStatesStay` (`FinalStays`), `ClashesComeFromRevivals`
  (`ClashNeedsRevival`). The last needs that an unfinished task that never failed
  has been active since it was claimed, so no other could claim its artifacts.

Every safety property that the passing runs check is a theorem. Only model-checked is
liveness (`PollEnds`, `RLockIsReleased`, `ApplyEnds`; fairness and ENABLED are outside
what the prover handles). Of termination the proofs have the part that is safety: that
an apply and a retire cannot go on for ever by themselves (`AppliesRunOut`,
`RetiresEnd`), and that no wait without a deadline closes a circle (`NoCircularWait`); that a step which can be
taken is taken is the fairness the runs assume. What a recursive definition computes for every input
cannot be proved with the installed provers (induction theorems take an operator),
and modules with RECURSIVE operators cannot hold theorems; the modules here have
neither.

## 6. Not modelled

Left out of the modules above: symbolic links and directories as targets; `fsync`;
directories created for a target and kept after a rollback; budgets, retry
policies and `idempotency_key`, which nothing in the repository calls; `decide` and
`release_requires_separate_approval`, pure checks of the record at hand; in
`WorkspaceLifecycle`, edits of metadata in the middle of a batch and rollbacks
(`ManifestApply` has both), the H4 records one by one (`SoftwareWorkflow` has those), and
the content pack (`ContentWorkflow` has it). `EventLedger`, `SoftwareWorkflow` and `ContentWorkflow` let batches take
effect in one step; what readers make of a batch half written is in
`WorkspaceLifecycle` for all of the metadata alike, but not for the contents of
ledgers and of the records of one submission. In `SoftwareWorkflow` and `ContentWorkflow`
the checks inside one submission (review, verifications, traceability rows) are one
comparison of what they are for, and artifact and evidence ledger, read one after the
other, are read in one step: a work that is complete in the two readings together
without having been so at any time is not among the behaviours (`EventLedger` reads its
ledgers one by one). A submission or append that is refused because one of its events
conflicts with one on file is a `GiveUp` (`EventLedger` has the conflicts).

Left out altogether: argument parsing and error texts of the command line,
discovery and profiling, context routes, adapters, the domain pack loader and its
stages, canonical serialisation, schemas, rendering, paths and archives. They are
pure functions or pure I/O, with no state or ordering of their own; where a result
matters (a fingerprint, a source tree) it is a value of a model.

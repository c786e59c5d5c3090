---------------------------- MODULE ManifestApply ----------------------------
(***************************************************************************)
(* storage/manifest.py and storage/atomic.py: the two-step write contract. *)
(* A batch of writes is planned and built into an ApplicationManifest, a   *)
(* person approves its fingerprint, and apply_manifest writes it inside    *)
(* the workspace's critical section: check, preflight, write by write,     *)
(* and backwards again if a write fails.                                   *)
(*                                                                         *)
(* Several appliers (CLI invocations, threads) work on one workspace; a    *)
(* user edits files without taking any lock.  Contents stand for file      *)
(* bytes, and a fingerprint for the content it is taken of.  The critical  *)
(* section is the one WorkspaceMutex specifies and WriteLock implements.   *)
(***************************************************************************)
EXTENDS Naturals, Sequences, FiniteSets

CONSTANTS Applier, File, Content,
          Absent,       \* no such file
          Unbound,      \* a write neither exclusive nor bound to a fingerprint
          Nobody,
          Batches,      \* the sequences of targets that are planned
          New,          \* New[a]: the payload applier a writes
          TreeScope,    \* files a whole-workspace snapshot covers
          Careless,     \* whether callers may plan without looking at a target
          UserEdits,    \* the <<file, value>> edits a user may make
          Faults        \* among "io", "tmp", "interrupt", "kill"

Value == Content \union {Absent}
Targets(batch) == {batch[i] : i \in DOMAIN batch}

ASSUME ManifestAssumption ==
  /\ Absent \notin Content
  /\ Unbound \notin Value
  /\ Nobody \notin Applier
  /\ Batches \subseteq Seq(File)
  /\ \A batch \in Batches : \A i, j \in DOMAIN batch :
       batch[i] = batch[j] => i = j
  /\ New \in [Applier -> Content]
  /\ TreeScope \subseteq File
  /\ Careless \in BOOLEAN
  /\ UserEdits \subseteq File \X Value
  /\ Faults \subseteq {"io", "tmp", "interrupt", "kill"}

VARIABLES disk,       \* disk[f]: what the workspace holds
          holder,     \* who is in the critical section
          pc,         \* where each applier is: see Locations
          manifest,   \* the manifest it has built
          approved,   \* the manifest whose fingerprint its approval names
          snap,       \* contents its preflight saw
          count,      \* writes preflighted, then written, then left to undo
          cause,      \* why it is rolling back
          errors,     \* targets its rollback reported
          outcome,    \* how its last apply ended
          raced       \* the user changed the file at hand after its last check

vars == <<disk, holder, pc, manifest, approved, snap, count, cause, errors,
          outcome, raced>>

INSTANCE WorkspaceMutex WITH Agent <- Applier

\* expect: the value a target must have, Absent for exclusive creation.
\* base: what the scope of the manifest (its targets, or the tree) held.
Manifests ==
  [targets : Batches \union {<<>>}, expect : [File -> Value \union {Unbound}],
   tree : BOOLEAN, base : [File -> Value]]

None == [targets |-> <<>>, expect |-> [f \in File |-> Absent],
         tree |-> FALSE, base |-> [f \in File |-> Absent]]

Before == {"idle", "planned", "built"}
Writing == {"write", "swap", "replace", "record"}
Undoing == {"undo", "restore"}
Critical == {"check", "preflight"} \union Writing \union Undoing
Outcomes == {"none", "refused", "applied", "rolledback", "dirty",
             "interrupted", "killed"}

TypeOK ==
  /\ disk \in [File -> Value]
  /\ holder \in Applier \union {Nobody}
  /\ pc \in [Applier -> Before \union Critical]
  /\ manifest \in [Applier -> Manifests]
  /\ approved \in [Applier -> Manifests]
  /\ snap \in [Applier -> [File -> Value]]
  /\ count \in [Applier -> Nat]
  /\ \A a \in Applier : count[a] <= Len(manifest[a].targets)
  /\ cause \in [Applier -> {"none", "error", "interrupt"}]
  /\ errors \in [Applier -> SUBSET File]
  /\ outcome \in [Applier -> Outcomes]
  /\ raced \in [Applier -> BOOLEAN]

Init ==
  /\ disk \in [File -> Value]
  /\ MutexInit
  /\ pc = [a \in Applier |-> "idle"]
  /\ manifest = [a \in Applier |-> None]
  /\ approved = [a \in Applier |-> None]
  /\ snap = [a \in Applier |-> [f \in File |-> Absent]]
  /\ count = [a \in Applier |-> 0]
  /\ cause = [a \in Applier |-> "none"]
  /\ errors = [a \in Applier |-> {}]
  /\ outcome = [a \in Applier |-> "none"]
  /\ raced = [a \in Applier |-> FALSE]

-----------------------------------------------------------------------------
(* Building and approving                                                  *)

Batch(a) == manifest[a].targets

Scope(targets, tree) == IF tree THEN TreeScope ELSE Targets(targets)

\* What tree_fingerprint or workspace_fingerprint would see now.
View(targets, tree) ==
  [f \in File |-> IF f \in Scope(targets, tree) THEN disk[f] ELSE Absent]

\* The caller plans its PlannedWrites: new files exclusive, others bound to
\* the fingerprint they have now, unless it is careless.
Plan(a) ==
  /\ pc[a] = "idle"
  /\ \E targets \in Batches, expect \in [File -> Value \union {Unbound}] :
       /\ \A f \in File :
            expect[f] \in IF f \notin Targets(targets) THEN {Absent}
                          ELSE IF Careless THEN {Absent, disk[f], Unbound}
                          ELSE {disk[f]}
       /\ manifest' = [manifest EXCEPT ![a] =
                         [targets |-> targets, expect |-> expect,
                          tree |-> FALSE, base |-> None.base]]
  /\ pc' = [pc EXCEPT ![a] = "planned"]
  /\ outcome' = [outcome EXCEPT ![a] = "none"]
  /\ UNCHANGED <<disk, holder, approved, snap, count, cause, errors, raced>>

\* build_manifest reads the workspace again for the preflight fingerprint.
Capture(a) ==
  /\ pc[a] = "planned"
  /\ \E tree \in BOOLEAN :
       manifest' = [manifest EXCEPT ![a] =
                      [targets |-> Batch(a), expect |-> manifest[a].expect,
                       tree |-> tree, base |-> View(Batch(a), tree)]]
  /\ pc' = [pc EXCEPT ![a] = "built"]
  /\ UNCHANGED <<disk, holder, approved, snap, count, cause, errors, outcome,
                 raced>>

\* A person approves the dry run; the approval names the manifest fingerprint.
Approve(a) ==
  /\ pc[a] = "built"
  /\ approved' = [approved EXCEPT ![a] = manifest[a]]
  /\ UNCHANGED <<disk, holder, pc, manifest, snap, count, cause, errors,
                 outcome, raced>>

\* The dry run ends; a later invocation builds its manifest anew and comes
\* with the approval of this one.
Discard(a) ==
  /\ pc[a] = "built"
  /\ pc' = [pc EXCEPT ![a] = "idle"]
  /\ manifest' = [manifest EXCEPT ![a] = None]
  /\ UNCHANGED <<disk, holder, approved, snap, count, cause, errors, outcome,
                 raced>>

-----------------------------------------------------------------------------
(* apply_manifest: check and preflight                                     *)

\* The with-block of apply_manifest is left.
EndApply(a, how) ==
  /\ Release(a)
  /\ pc' = [pc EXCEPT ![a] = "idle"]
  /\ outcome' = [outcome EXCEPT ![a] = how]
  /\ manifest' = [manifest EXCEPT ![a] = None]
  /\ snap' = [snap EXCEPT ![a] = [f \in File |-> Absent]]
  /\ count' = [count EXCEPT ![a] = 0]
  /\ cause' = [cause EXCEPT ![a] = "none"]
  /\ errors' = [errors EXCEPT ![a] = {}]
  /\ raced' = [raced EXCEPT ![a] = FALSE]
  /\ UNCHANGED <<disk, approved>>

Enter(a) ==
  /\ pc[a] = "built"
  /\ Acquire(a)
  /\ pc' = [pc EXCEPT ![a] = "check"]
  /\ UNCHANGED <<disk, manifest, approved, snap, count, cause, errors, outcome,
                 raced>>

LockTimesOut(a) ==
  /\ pc[a] = "built"
  /\ holder # Nobody
  /\ pc' = [pc EXCEPT ![a] = "idle"]
  /\ outcome' = [outcome EXCEPT ![a] = "refused"]
  /\ manifest' = [manifest EXCEPT ![a] = None]
  /\ UNCHANGED <<disk, holder, approved, snap, count, cause, errors, raced>>

\* The approval is for this manifest and the workspace is what it was built on.
Admissible(a) ==
  /\ approved[a] = manifest[a]
  /\ View(Batch(a), manifest[a].tree) = manifest[a].base

Admit(a) ==
  /\ pc[a] = "check"
  /\ Admissible(a)
  /\ pc' = [pc EXCEPT ![a] = "preflight"]
  /\ UNCHANGED <<disk, holder, manifest, approved, snap, count, cause, errors,
                 outcome, raced>>

Refuse(a) ==
  /\ pc[a] = "check"
  /\ ~Admissible(a)
  /\ EndApply(a, "refused")

NextTarget(a) == Batch(a)[count[a] + 1]
MoreTargets(a) == count[a] < Len(Batch(a))
AsExpected(a, f) == disk[f] = manifest[a].expect[f]

\* Faulty variant: the workspace fingerprint is trusted for the targets.
PreflightTrusts(a) ==
  /\ pc[a] = "preflight"
  /\ MoreTargets(a)
  /\ snap' = [snap EXCEPT ![a][NextTarget(a)] = disk[NextTarget(a)]]
  /\ count' = [count EXCEPT ![a] = @ + 1]
  /\ UNCHANGED <<disk, holder, pc, manifest, approved, cause, errors, outcome,
                 raced>>

PreflightPass(a) ==
  /\ pc[a] = "preflight"
  /\ MoreTargets(a)
  /\ AsExpected(a, NextTarget(a))
  /\ snap' = [snap EXCEPT ![a][NextTarget(a)] = disk[NextTarget(a)]]
  /\ count' = [count EXCEPT ![a] = @ + 1]
  /\ UNCHANGED <<disk, holder, pc, manifest, approved, cause, errors, outcome,
                 raced>>

\* An exclusive target exists, a bound one is missing or differs, or the write
\* is unbound: nothing has been written yet.
PreflightRefuse(a) ==
  /\ pc[a] = "preflight"
  /\ MoreTargets(a)
  /\ ~AsExpected(a, NextTarget(a))
  /\ EndApply(a, "refused")

\* Faulty variant: the index is not reset for the second pass.
StartWritingAtEnd(a) ==
  /\ pc[a] = "preflight"
  /\ ~MoreTargets(a)
  /\ pc' = [pc EXCEPT ![a] = "write"]
  /\ UNCHANGED <<disk, holder, manifest, approved, snap, count, cause, errors,
                 outcome, raced>>

StartWriting(a) ==
  /\ pc[a] = "preflight"
  /\ ~MoreTargets(a)
  /\ pc' = [pc EXCEPT ![a] = "write"]
  /\ count' = [count EXCEPT ![a] = 0]
  /\ UNCHANGED <<disk, holder, manifest, approved, snap, cause, errors, outcome,
                 raced>>

-----------------------------------------------------------------------------
(* Writing: _write_bytes_atomic for each target in turn                    *)

Fail(a, why) ==
  /\ pc' = [pc EXCEPT ![a] = "undo"]
  /\ cause' = [cause EXCEPT ![a] = why]
  /\ UNCHANGED <<disk, holder, manifest, approved, snap, count, errors, outcome,
                 raced>>

Advance(a, to) ==
  /\ pc' = [pc EXCEPT ![a] = to]
  /\ UNCHANGED <<holder, manifest, approved, snap, count, cause, errors,
                 outcome>>

\* The first look at the target agrees; the temporary file is written.
StageTemp(a) ==
  /\ pc[a] = "write"
  /\ MoreTargets(a)
  /\ AsExpected(a, NextTarget(a))
  /\ Advance(a, "swap")
  /\ UNCHANGED <<disk, raced>>

\* os.link: creates the target or fails, in one step.
Link(a) ==
  /\ pc[a] = "swap"
  /\ manifest[a].expect[NextTarget(a)] = Absent
  /\ disk[NextTarget(a)] = Absent
  /\ disk' = [disk EXCEPT ![NextTarget(a)] = New[a]]
  /\ Advance(a, "record")
  /\ UNCHANGED raced

\* Faulty variant: the target is not read again before os.replace.
FinalCheckSkipped(a) ==
  /\ pc[a] = "swap"
  /\ manifest[a].expect[NextTarget(a)] # Absent
  /\ raced' = [raced EXCEPT ![a] = FALSE]
  /\ Advance(a, "replace")
  /\ UNCHANGED disk

\* The target is read again; os.replace is the next step.
FinalCheck(a) ==
  /\ pc[a] = "swap"
  /\ manifest[a].expect[NextTarget(a)] # Absent
  /\ AsExpected(a, NextTarget(a))
  /\ raced' = [raced EXCEPT ![a] = FALSE]
  /\ Advance(a, "replace")
  /\ UNCHANGED disk

\* os.replace takes the target's place whatever it holds by now.
Replace(a) ==
  /\ pc[a] = "replace"
  /\ disk' = [disk EXCEPT ![NextTarget(a)] = New[a]]
  /\ Advance(a, "record")
  /\ UNCHANGED raced

\* write_atomic returns and its result is appended to results.
Record(a) ==
  /\ pc[a] = "record"
  /\ count' = [count EXCEPT ![a] = @ + 1]
  /\ pc' = [pc EXCEPT ![a] = "write"]
  /\ UNCHANGED <<disk, holder, manifest, approved, snap, cause, errors, outcome,
                 raced>>

Finish(a) ==
  /\ pc[a] = "write"
  /\ ~MoreTargets(a)
  /\ EndApply(a, "applied")

\* The target is not as expected, at the first look, the second, or os.link.
Conflict(a) ==
  /\ pc[a] \in {"write", "swap"}
  /\ MoreTargets(a)
  /\ ~AsExpected(a, NextTarget(a))
  /\ Fail(a, "error")

\* The temporary file, the link or the replacement fails with an OSError.
IoFails(a) ==
  /\ "io" \in Faults
  /\ pc[a] \in {"write", "swap", "replace"}
  /\ MoreTargets(a)
  /\ Fail(a, "error")

\* After os.link has created the target, unlinking the temporary name fails:
\* the exception leaves write_atomic before a result is recorded.
TmpUnlinkFails(a) ==
  /\ "tmp" \in Faults
  /\ pc[a] = "record"
  /\ manifest[a].expect[NextTarget(a)] = Absent
  /\ Fail(a, "error")

\* KeyboardInterrupt inside the try block, between any two of its steps.
Interrupt(a) ==
  /\ "interrupt" \in Faults
  /\ pc[a] \in Writing
  /\ Fail(a, "interrupt")

\* KeyboardInterrupt before the try block, or in the rollback, which catches
\* Exception only: the lock is released and nothing else is done.
InterruptUncaught(a) ==
  /\ "interrupt" \in Faults
  /\ pc[a] \in Critical \ Writing
  /\ EndApply(a, "interrupted")

-----------------------------------------------------------------------------
(* Rolling back: the recorded results in reverse                           *)

LastTarget(a) == Batch(a)[count[a]]

\* Faulty variant: the loop stays at a target it cannot restore.
UndoSkipStays(a) ==
  /\ pc[a] = "undo"
  /\ count[a] > 0
  /\ disk[LastTarget(a)] # New[a]
  /\ errors' = [errors EXCEPT ![a] = @ \union {LastTarget(a)}]
  /\ UNCHANGED <<disk, holder, pc, manifest, approved, snap, count, cause,
                 outcome, raced>>

\* The applied target is missing or no longer what was written.
UndoSkip(a) ==
  /\ pc[a] = "undo"
  /\ count[a] > 0
  /\ disk[LastTarget(a)] # New[a]
  /\ errors' = [errors EXCEPT ![a] = @ \union {LastTarget(a)}]
  /\ count' = [count EXCEPT ![a] = @ - 1]
  /\ UNCHANGED <<disk, holder, pc, manifest, approved, snap, cause, outcome,
                 raced>>

UndoCheck(a) ==
  /\ pc[a] = "undo"
  /\ count[a] > 0
  /\ disk[LastTarget(a)] = New[a]
  /\ raced' = [raced EXCEPT ![a] = FALSE]
  /\ Advance(a, "restore")
  /\ UNCHANGED disk

\* Faulty variant: the rollback only removes what the batch created.
RestoreNewOnly(a) ==
  /\ pc[a] = "restore"
  /\ snap[a][LastTarget(a)] = Absent => disk[LastTarget(a)] # Absent
  /\ disk' = [disk EXCEPT ![LastTarget(a)] =
                IF snap[a][LastTarget(a)] = Absent THEN Absent ELSE @]
  /\ count' = [count EXCEPT ![a] = @ - 1]
  /\ pc' = [pc EXCEPT ![a] = "undo"]
  /\ UNCHANGED <<holder, manifest, approved, snap, cause, errors, outcome,
                 raced>>

\* target.unlink(), or _write_bytes_atomic(root, rel, before), which is given
\* no fingerprint to expect.
Restore(a) ==
  /\ pc[a] = "restore"
  /\ snap[a][LastTarget(a)] = Absent => disk[LastTarget(a)] # Absent
  /\ disk' = [disk EXCEPT ![LastTarget(a)] = snap[a][LastTarget(a)]]
  /\ count' = [count EXCEPT ![a] = @ - 1]
  /\ pc' = [pc EXCEPT ![a] = "undo"]
  /\ UNCHANGED <<holder, manifest, approved, snap, cause, errors, outcome,
                 raced>>

RestoreFails(a) ==
  /\ pc[a] = "restore"
  /\ \/ "io" \in Faults
     \/ snap[a][LastTarget(a)] = Absent /\ disk[LastTarget(a)] = Absent
  /\ errors' = [errors EXCEPT ![a] = @ \union {LastTarget(a)}]
  /\ count' = [count EXCEPT ![a] = @ - 1]
  /\ pc' = [pc EXCEPT ![a] = "undo"]
  /\ UNCHANGED <<disk, holder, manifest, approved, snap, cause, outcome, raced>>

\* An interrupt is re-raised; anything else becomes a ManifestError saying
\* "rolled back", with the rollback errors if there are any.
UndoEnds(a) ==
  /\ pc[a] = "undo"
  /\ count[a] = 0
  /\ EndApply(a, IF cause[a] = "interrupt" THEN "interrupted"
                 ELSE IF errors[a] = {} THEN "rolledback"
                 ELSE "dirty")

-----------------------------------------------------------------------------
(* What happens around it                                                  *)

\* The process dies.  Approvals are files and stay.
Kill(a) ==
  /\ "kill" \in Faults
  /\ pc[a] # "idle"
  /\ Vanish(a)
  /\ pc' = [pc EXCEPT ![a] = "idle"]
  /\ outcome' = [outcome EXCEPT ![a] = "killed"]
  /\ manifest' = [manifest EXCEPT ![a] = None]
  /\ snap' = [snap EXCEPT ![a] = [f \in File |-> Absent]]
  /\ count' = [count EXCEPT ![a] = 0]
  /\ cause' = [cause EXCEPT ![a] = "none"]
  /\ errors' = [errors EXCEPT ![a] = {}]
  /\ raced' = [raced EXCEPT ![a] = FALSE]
  /\ UNCHANGED <<disk, approved>>

\* The file an applier is about to change, having checked it.
AtHand(a, f) ==
  \/ pc[a] = "replace" /\ f = NextTarget(a)
  \/ pc[a] = "restore" /\ f = LastTarget(a)

\* The user creates, changes or deletes a file; no lock is involved.
Edit(f, v) ==
  /\ <<f, v>> \in UserEdits
  /\ disk[f] # v
  /\ disk' = [disk EXCEPT ![f] = v]
  /\ raced' = [a \in Applier |-> raced[a] \/ AtHand(a, f)]
  /\ UNCHANGED <<holder, pc, manifest, approved, snap, count, cause, errors,
                 outcome>>

\* The steps of an apply that has started and whose process lives.
ApplyStep(a) ==
  \/ Admit(a) \/ Refuse(a)
  \/ PreflightPass(a) \/ PreflightRefuse(a) \/ StartWriting(a)
  \/ StageTemp(a) \/ Link(a) \/ FinalCheck(a) \/ Replace(a) \/ Record(a)
  \/ Finish(a) \/ Conflict(a)
  \/ UndoSkip(a) \/ UndoCheck(a) \/ Restore(a) \/ RestoreFails(a)
  \/ UndoEnds(a)

ApplierNext(a) ==
  \/ Plan(a) \/ Capture(a) \/ Approve(a) \/ Discard(a)
  \/ Enter(a) \/ LockTimesOut(a)
  \/ ApplyStep(a)
  \/ IoFails(a) \/ TmpUnlinkFails(a) \/ Interrupt(a) \/ InterruptUncaught(a)
  \/ Kill(a)

Next ==
  \/ \E a \in Applier : ApplierNext(a)
  \/ \E f \in File, v \in Value : Edit(f, v)

Spec == Init /\ [][Next]_vars

\* A process that is alive goes on with the apply it is in.  People (planning,
\* approving, starting an apply, editing) and faults are not fair.
FairSpec == Spec /\ \A a \in Applier : WF_vars(ApplyStep(a))

-----------------------------------------------------------------------------
(* Properties                                                              *)

\* The critical section is occupied exactly by the applier inside it.
CriticalHeld == \A a \in Applier : pc[a] \in Critical <=> holder = a

\* Nothing is written but an approved manifest, and what each of its writes
\* replaces is what the dry run that was approved had seen: no stale approval,
\* rebuilt manifest, other applier or edit in between gets past the checks.
ApprovedPreimage ==
  \A a \in Applier : pc[a] \in Writing \union Undoing =>
    /\ manifest[a] = approved[a]
    /\ \A f \in Targets(Batch(a)) : snap[a][f] = approved[a].expect[f]

\* A user's edit is lost to an applier only if it falls between the applier's
\* last check of that file and the write that follows it: everything else an
\* apply or its rollback overwrites is the expected old content, or its own.
OnlyRacedEditsAreLost ==
  [][\A a \in Applier, f \in File :
       pc'[a] # pc[a] /\ disk'[f] # disk[f] =>
         \/ raced[a]
         \/ pc[a] \in Writing /\ disk[f] = approved[a].expect[f]
         \/ pc[a] \in Undoing /\ disk[f] = New[a]]_vars

\* A rollback that reports no error has put every target of the batch back to
\* what it was before the apply, the user leaving them alone.
FailedBatchIsUndone ==
  [][\A a \in Applier :
       pc[a] = "undo" /\ count[a] = 0 /\ pc'[a] = "idle" /\ errors[a] = {} =>
         \A f \in Targets(Batch(a)) : disk[f] = snap[a][f]]_vars

\* An apply that has started ends, and gives the critical section back.
ApplyEnds == \A a \in Applier : pc[a] \in Critical ~> pc[a] \notin Critical

\* Targets that hold the payload for the moment: written and not undone.
InFlight(a) ==
  LET written == {Batch(a)[i] : i \in 1..count[a]}
  IN  IF pc[a] \in Undoing THEN written \union errors[a]
      ELSE IF pc[a] = "record" THEN written \union {NextTarget(a)}
      ELSE IF pc[a] \in Writing THEN written
      ELSE {}

\* Targets that still hold the payload, and that the rollback neither has still
\* to visit nor has reported.
Strays(a) ==
  {f \in Targets(Batch(a)) \ InFlight(a) :
     disk[f] = New[a] /\ snap[a][f] # New[a]}

\* Whatever fails, interrupts or is edited meanwhile, a rollback overlooks one
\* target at most: the one whose write had succeeded without being recorded.
\* After an error, this is a file that the batch created: no file that was
\* there before is left overwritten without being reported.
OnlyTheLastWriteStrays ==
  \A a \in Applier : pc[a] \in Undoing =>
    \A f \in Strays(a) :
      /\ cause[a] = "error" => snap[a][f] = Absent
      /\ \A g \in Strays(a) : f = g

\* Without a user who ignores the lock, batches are all or nothing, and the
\* answers are true: the files between batches implement AtomicBatch.
Atomic == INSTANCE AtomicBatch WITH
  store <- [f \in File |->
              IF \E a \in Applier : f \in InFlight(a)
              THEN snap[CHOOSE a \in Applier : f \in InFlight(a)][f]
              ELSE disk[f]],
  answer <- [a \in Applier |->
               IF outcome[a] \in {"refused", "rolledback"} THEN "unchanged"
               ELSE IF outcome[a] \in {"dirty", "interrupted", "killed"}
                    THEN "unknown"
               ELSE outcome[a]]
AllOrNothing == Atomic!BatchSpec
=============================================================================

--------------------------- MODULE RetireGenerated ---------------------------
(***************************************************************************)
(* core/lifecycle.py, retire_generated: deleting, in one approved batch,   *)
(* the files the generated-files registry lists.                           *)
(*                                                                         *)
(* A dry run prints a proposal, a person approves it, and a second         *)
(* invocation computes its proposal again, takes the write lock, checks    *)
(* the files once more, reads them for recovery and unlinks them one by    *)
(* one, the registry last.  Meanwhile the user edits files, and other      *)
(* commands write generated files and their registry entries.              *)
(*                                                                         *)
(* Contents stand for file bytes and for their fingerprints.  The order in *)
(* which the registry lists files is left open.                            *)
(***************************************************************************)
EXTENDS Naturals, FiniteSets

CONSTANTS Retirer,      \* invocations of `retire --apply`
          File, Content,
          Absent,       \* no such file; not listed
          Nobody,
          Generated,    \* the files init generates and registers
          Batches,      \* the sets of files a reconcile writes
          Tree,         \* states of the user's own files
          UserEdits,    \* the <<file, value>> edits a user may make
          Faults        \* among "io", "interrupt", "kill"

Value == Content \union {Absent}

ASSUME RetireAssumption ==
  /\ Absent \notin Content
  /\ Nobody \notin Retirer
  /\ Generated \subseteq File
  /\ Batches \subseteq SUBSET File
  /\ UserEdits \subseteq File \X Value
  /\ Faults \subseteq {"io", "interrupt", "kill"}

VARIABLES disk,       \* disk[f]: what a generated file holds
          listed,     \* listed[f]: its fingerprint in the registry
          registry,   \* whether there is a registry
          tree,       \* the user's own files
          holder,     \* who is in the critical section
          pc,         \* where each retirer is
          checks,     \* checks[r][f]: the fingerprints its proposal lists
          seenTree,   \* the tree its proposal was made on
          approved,   \* the proposal last approved
          todo,       \* files its current loop has still to visit
          snap,       \* snapshots[rel]
          raced,      \* files that changed since it rechecked them
          failed      \* files its recovery could not write

vars == <<disk, listed, registry, tree, holder, pc, checks, seenTree, approved,
          todo, snap, raced, failed>>

INSTANCE WorkspaceMutex WITH Agent <- Retirer

Nothing == [f \in File |-> Absent]
Files == [File -> Value]
Listed(files) == {f \in File : files[f] # Absent}
Proposal(r) == <<checks[r], seenTree[r]>>

Loops == {"recheck", "snapshot", "unlink", "recover"}
Critical == {"tree"} \union Loops

TypeOK ==
  /\ disk \in Files
  /\ listed \in Files
  /\ registry \in BOOLEAN
  /\ tree \in Tree
  /\ holder \in Retirer \union {Nobody}
  /\ pc \in [Retirer -> {"idle", "proposed"} \union Critical]
  /\ checks \in [Retirer -> Files]
  /\ seenTree \in [Retirer -> Tree]
  /\ approved \in Files \X Tree
  /\ todo \in [Retirer -> SUBSET File]
  /\ \A r \in Retirer :
       todo[r] \subseteq IF pc[r] \in Loops THEN Listed(checks[r]) ELSE {}
  /\ snap \in [Retirer -> Files]
  /\ raced \in [Retirer -> SUBSET File]
  /\ failed \in [Retirer -> SUBSET File]

\* After an init: its files are there, as registered.
Init ==
  /\ disk \in {d \in Files : Listed(d) = Generated}
  /\ listed = disk
  /\ registry = TRUE
  /\ tree \in Tree
  /\ MutexInit
  /\ pc = [r \in Retirer |-> "idle"]
  /\ checks = [r \in Retirer |-> Nothing]
  /\ seenTree = [r \in Retirer |-> tree]
  /\ approved = <<Nothing, tree>>
  /\ todo = [r \in Retirer |-> {}]
  /\ snap = [r \in Retirer |-> Nothing]
  /\ raced = [r \in Retirer |-> {}]
  /\ failed = [r \in Retirer |-> {}]

\* The invocation is over; what it had in memory is gone.
Forget(r) ==
  /\ pc' = [pc EXCEPT ![r] = "idle"]
  /\ checks' = [checks EXCEPT ![r] = Nothing]
  /\ seenTree' = [seenTree EXCEPT ![r] = tree]
  /\ todo' = [todo EXCEPT ![r] = {}]
  /\ snap' = [snap EXCEPT ![r] = Nothing]
  /\ raced' = [raced EXCEPT ![r] = {}]
  /\ failed' = [failed EXCEPT ![r] = {}]

-----------------------------------------------------------------------------
(* Proposing                                                               *)

\* Every registered file is there and has its registered fingerprint.
AsRegistered == registry /\ \A f \in Listed(listed) : disk[f] = listed[f]

\* A dry run prints its proposal, and a person approves it.
Approve ==
  /\ AsRegistered
  /\ approved' = <<listed, tree>>
  /\ UNCHANGED <<disk, listed, registry, tree, holder, pc, checks, seenTree,
                 todo, snap, raced, failed>>

\* `retire --apply` makes its own proposal, which must be the approved one.
Propose(r) ==
  /\ pc[r] = "idle"
  /\ AsRegistered
  /\ approved = <<listed, tree>>
  /\ pc' = [pc EXCEPT ![r] = "proposed"]
  /\ checks' = [checks EXCEPT ![r] = listed]
  /\ seenTree' = [seenTree EXCEPT ![r] = tree]
  /\ UNCHANGED <<disk, listed, registry, tree, holder, approved, todo, snap,
                 raced, failed>>

-----------------------------------------------------------------------------
(* Inside the write lock                                                   *)

Enter(r) ==
  /\ pc[r] = "proposed"
  /\ Acquire(r)
  /\ pc' = [pc EXCEPT ![r] = "tree"]
  /\ UNCHANGED <<disk, listed, registry, tree, checks, seenTree, approved, todo,
                 snap, raced, failed>>

LockTimesOut(r) ==
  /\ pc[r] = "proposed"
  /\ holder # Nobody
  /\ Forget(r)
  /\ UNCHANGED <<disk, listed, registry, tree, holder, approved>>

\* The with-block is left; nothing has been changed.
Refuse(r) ==
  /\ Release(r)
  /\ Forget(r)
  /\ UNCHANGED <<disk, listed, registry, tree, approved>>

\* The loops of the with-block: each goes through the files of the proposal.
StartLoop(r, loop) ==
  /\ pc' = [pc EXCEPT ![r] = loop]
  /\ todo' = [todo EXCEPT ![r] = Listed(checks[r])]

Visit(r, f) == f \in todo[r] /\ todo' = [todo EXCEPT ![r] = @ \ {f}]

TreeSame(r) ==
  /\ pc[r] = "tree"
  /\ tree = seenTree[r]
  /\ StartLoop(r, "recheck")
  /\ UNCHANGED <<disk, listed, registry, tree, holder, checks, seenTree,
                 approved, snap, raced, failed>>

TreeChanged(r) ==
  /\ pc[r] = "tree"
  /\ tree # seenTree[r]
  /\ Refuse(r)

\* Faulty variant: it is enough that the file is there.
RecheckPresent(r, f) ==
  /\ pc[r] = "recheck"
  /\ Visit(r, f)
  /\ disk[f] # Absent
  /\ UNCHANGED <<disk, listed, registry, tree, holder, pc, checks, seenTree,
                 approved, snap, raced, failed>>

Recheck(r, f) ==
  /\ pc[r] = "recheck"
  /\ Visit(r, f)
  /\ disk[f] = checks[r][f]
  /\ UNCHANGED <<disk, listed, registry, tree, holder, pc, checks, seenTree,
                 approved, snap, raced, failed>>

RecheckFails(r, f) ==
  /\ pc[r] = "recheck"
  /\ f \in todo[r]
  /\ disk[f] # checks[r][f]
  /\ Refuse(r)

StartSnapshot(r) ==
  /\ pc[r] = "recheck"
  /\ todo[r] = {}
  /\ StartLoop(r, "snapshot")
  /\ UNCHANGED <<disk, listed, registry, tree, holder, checks, seenTree,
                 approved, snap, raced, failed>>

Snapshot(r, f) ==
  /\ pc[r] = "snapshot"
  /\ Visit(r, f)
  /\ disk[f] # Absent
  /\ snap' = [snap EXCEPT ![r][f] = disk[f]]
  /\ UNCHANGED <<disk, listed, registry, tree, holder, pc, checks, seenTree,
                 approved, raced, failed>>

\* Reading fails, outside of the try block; nothing is deleted yet.
SnapshotFails(r, f) ==
  /\ pc[r] = "snapshot"
  /\ f \in todo[r]
  /\ disk[f] = Absent \/ "io" \in Faults
  /\ Refuse(r)

StartUnlink(r) ==
  /\ pc[r] = "snapshot"
  /\ todo[r] = {}
  /\ StartLoop(r, "unlink")
  /\ UNCHANGED <<disk, listed, registry, tree, holder, checks, seenTree,
                 approved, snap, raced, failed>>

Unlink(r, f) ==
  /\ pc[r] = "unlink"
  /\ Visit(r, f)
  /\ disk[f] # Absent
  /\ disk' = [disk EXCEPT ![f] = Absent]
  /\ UNCHANGED <<listed, registry, tree, holder, pc, checks, seenTree, approved,
                 snap, raced, failed>>

\* Faulty variant: the registry may go before the files.
UnlinkRegistryEarly(r) ==
  /\ pc[r] = "unlink"
  /\ registry' = FALSE
  /\ listed' = Nothing
  /\ Release(r)
  /\ Forget(r)
  /\ UNCHANGED <<disk, tree, approved>>

\* The registry goes last, and the with-block is left.
UnlinkRegistry(r) ==
  /\ pc[r] = "unlink"
  /\ todo[r] = {}
  /\ registry' = FALSE
  /\ listed' = Nothing
  /\ Release(r)
  /\ Forget(r)
  /\ UNCHANGED <<disk, tree, approved>>

\* Faulty variant: recovery goes on with the files the loop had not reached.
UnlinkFailsHalfWay(r) ==
  /\ pc[r] = "unlink"
  /\ \/ "io" \in Faults
     \/ \E f \in todo[r] : disk[f] = Absent
  /\ pc' = [pc EXCEPT ![r] = "recover"]
  /\ UNCHANGED <<disk, listed, registry, tree, holder, checks, seenTree,
                 approved, todo, snap, raced, failed>>

\* An unlink fails with an OSError: recovery goes through all the files.
UnlinkFails(r) ==
  /\ pc[r] = "unlink"
  /\ \/ "io" \in Faults
     \/ \E f \in todo[r] : disk[f] = Absent
  /\ StartLoop(r, "recover")
  /\ UNCHANGED <<disk, listed, registry, tree, holder, checks, seenTree,
                 approved, snap, raced, failed>>

\* An exclusive write: a file that is there is left as it is.
Recover(r, f) ==
  /\ pc[r] = "recover"
  /\ Visit(r, f)
  /\ disk' = [disk EXCEPT ![f] = IF @ = Absent THEN snap[r][f] ELSE @]
  /\ UNCHANGED <<listed, registry, tree, holder, pc, checks, seenTree, approved,
                 snap, raced, failed>>

\* A failure to write is swallowed.
RecoverFails(r, f) ==
  /\ pc[r] = "recover"
  /\ "io" \in Faults
  /\ Visit(r, f)
  /\ failed' = [failed EXCEPT ![r] = @ \union {f}]
  /\ UNCHANGED <<disk, listed, registry, tree, holder, pc, checks, seenTree,
                 approved, snap, raced>>

\* "retire failed and attempted recovery"
RecoverEnds(r) ==
  /\ pc[r] = "recover"
  /\ todo[r] = {}
  /\ Refuse(r)

\* KeyboardInterrupt, which no handler catches, or the process is killed.
Stops(r) ==
  /\ \/ "interrupt" \in Faults
     \/ "kill" \in Faults
  /\ pc[r] # "idle"
  /\ Vanish(r)
  /\ Forget(r)
  /\ UNCHANGED <<disk, listed, registry, tree, approved>>

-----------------------------------------------------------------------------
(* What happens around it                                                  *)

\* Files that r has rechecked.
Rechecked(r) ==
  IF pc[r] = "recheck" THEN Listed(checks[r]) \ todo[r]
  ELSE IF pc[r] \in Loops THEN Listed(checks[r])
  ELSE {}

\* The user changes, creates or deletes a generated file; no lock is involved.
Edit(f, v) ==
  /\ <<f, v>> \in UserEdits
  /\ disk[f] # v
  /\ disk' = [disk EXCEPT ![f] = v]
  /\ raced' = [r \in Retirer |->
                 raced[r] \union ({f} \intersect Rechecked(r))]
  /\ UNCHANGED <<listed, registry, tree, holder, pc, checks, seenTree, approved,
                 todo, snap, failed>>

\* The user changes his own files.
EditTree(t) ==
  /\ tree # t
  /\ tree' = t
  /\ UNCHANGED <<disk, listed, registry, holder, pc, checks, seenTree, approved,
                 todo, snap, raced, failed>>

\* Another command applies a manifest: some generated files and the registry,
\* in one batch inside the lock.
Reconcile(batch, c) ==
  /\ holder = Nobody
  /\ registry
  /\ disk' = [f \in File |-> IF f \in batch THEN c ELSE disk[f]]
  /\ listed' = [f \in File |-> IF f \in batch THEN c ELSE listed[f]]
  /\ UNCHANGED <<registry, tree, holder, pc, checks, seenTree, approved, todo,
                 snap, raced, failed>>

RetirerNext(r) ==
  \/ Propose(r) \/ Enter(r) \/ LockTimesOut(r)
  \/ TreeSame(r) \/ TreeChanged(r)
  \/ StartSnapshot(r) \/ StartUnlink(r) \/ UnlinkRegistry(r)
  \/ UnlinkFails(r) \/ RecoverEnds(r) \/ Stops(r)
  \/ \E f \in File :
       \/ Recheck(r, f) \/ RecheckFails(r, f)
       \/ Snapshot(r, f) \/ SnapshotFails(r, f)
       \/ Unlink(r, f) \/ Recover(r, f) \/ RecoverFails(r, f)

Next ==
  \/ Approve
  \/ \E r \in Retirer : RetirerNext(r)
  \/ \E f \in File, v \in Value : Edit(f, v)
  \/ \E t \in Tree : EditTree(t)
  \/ \E batch \in Batches, c \in Content : Reconcile(batch, c)

Spec == Init /\ [][Next]_vars

-----------------------------------------------------------------------------
(* Properties                                                              *)

\* What is deleted is what the registry had listed and a person approved, or
\* the user changed it in the moment between its last check and its deletion.
OnlyRacedEditsAreDeleted ==
  [][\A r \in Retirer, f \in File :
       pc[r] = "unlink" /\ pc'[r] = "unlink" /\ f \in todo[r] \ todo'[r] =>
         disk[f] = checks[r][f] \/ f \in raced[r]]_vars

\* A retire that fails half way has undone its deletions: files that the user
\* left alone, and that could be written, are what was approved.
FailedRetireRestores ==
  [][\A r \in Retirer, f \in File :
       pc[r] = "recover" /\ todo[r] = {} /\ pc'[r] = "idle" =>
         \/ f \notin Listed(checks[r]) \/ f \in raced[r] \union failed[r]
         \/ disk[f] = checks[r][f]]_vars

\* With the registry goes the record of which files were generated.  The files
\* of the proposal are gone by then: what is left behind without a record is
\* what other commands registered after the proposal was made, for the registry
\* is not read again inside the lock, or what the user put there.
OnlyLateFilesAreOrphaned ==
  [][\A r \in Retirer, f \in File :
       pc[r] = "unlink" /\ registry /\ ~registry' /\ disk'[f] # Absent =>
         f \notin Listed(checks[r]) \/ f \in raced[r]]_vars

\* The critical section is occupied exactly by the retirer inside it.
CriticalHeld == \A r \in Retirer : pc[r] \in Critical <=> holder = r
=============================================================================

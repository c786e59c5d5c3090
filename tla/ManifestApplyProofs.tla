------------------------ MODULE ManifestApplyProofs ------------------------
(***************************************************************************)
(* What apply_manifest guarantees for any appliers, files, batches, user   *)
(* edits and faults.                                                       *)
(*                                                                         *)
(* ApprovedPreimage is not inductive: that a written batch replaces what   *)
(* was approved rests on what the preflight had established for the writes *)
(* it had looked at (Checked), and that the preflight started from zero    *)
(* and ended at the last write (Progress).  The exclusion of other         *)
(* appliers, CriticalHeld, is what makes a check of the disk still true at *)
(* the write that follows, unless the user came in between (Sees).         *)
(*                                                                         *)
(* All or nothing needs more: which targets have the payload at any place  *)
(* of the two loops, and that the others have what the preflight saw       *)
(* (Placed).  That no target is twice in a batch is what lets a            *)
(* restoration take exactly one payload back, and CriticalHeld is what     *)
(* makes the payload in flight that of one applier.                        *)
(***************************************************************************)
EXTENDS ManifestApply, TLAPS

\* The index of the loop an applier is in, at the places that rely on it.
Progress(a) ==
  /\ pc[a] \in Before \union {"check"} => count[a] = 0
  /\ pc[a] \in {"swap", "replace", "record"} => MoreTargets(a)
  /\ pc[a] = "restore" => count[a] > 0

\* What the preflight has established of the writes it has looked at.
Checked(a) ==
  pc[a] = "preflight" =>
    /\ manifest[a] = approved[a]
    /\ \A i \in 1..count[a] :
         snap[a][Batch(a)[i]] = approved[a].expect[Batch(a)[i]]

\* ApprovedPreimage of one applier.
Preimage(a) ==
  pc[a] \in Writing \union Undoing =>
    /\ manifest[a] = approved[a]
    /\ \A f \in Targets(Batch(a)) : snap[a][f] = approved[a].expect[f]

Row(a) == Progress(a) /\ Checked(a) /\ Preimage(a)

\* The inductive invariant.
IInv == TypeOK /\ CriticalHeld /\ \A a \in Applier : Row(a)

\* A step that is not b's leaves what Row(b) speaks of alone.
SameRow(b) ==
  /\ pc'[b] = pc[b]
  /\ manifest'[b] = manifest[b]
  /\ approved'[b] = approved[b]
  /\ snap'[b] = snap[b]
  /\ count'[b] = count[b]

-----------------------------------------------------------------------------
(* Manifests                                                               *)

\* An applier without a manifest has the empty one.
LEMMA NoneIsManifest == None \in Manifests /\ Len(None.targets) = 0
BY DEF None, Manifests, Value

\* The targets of a manifest are a sequence of files.
LEMMA BatchType ==
  ASSUME NEW m \in Manifests
  PROVE  /\ m.targets \in Seq(File)
         /\ Len(m.targets) \in Nat
         /\ \A i \in 1..Len(m.targets) : m.targets[i] \in File
         /\ Targets(m.targets) = {m.targets[i] : i \in 1..Len(m.targets)}
         /\ m.expect \in [File -> Value \union {Unbound}]
<1>1. m.targets \in Seq(File)
  <2>1. m.targets \in Batches \union {<<>>}
    BY DEF Manifests
  <2>2. <<>> \in Seq(File)
    OBVIOUS
  <2>3. QED
    BY <2>1, <2>2, ManifestAssumption
<1>2. DOMAIN m.targets = 1..Len(m.targets)
  BY <1>1
<1>3. \A i \in 1..Len(m.targets) : m.targets[i] \in File
  BY <1>1
<1>4. QED
  BY <1>1, <1>2, <1>3 DEF Manifests, Targets

-----------------------------------------------------------------------------
(* The invariant, action by action                                         *)

\* A step of applier a needs to be examined for a's own row only.
LEMMA RestOfInvariant ==
  ASSUME IInv, NEW a \in Applier, TypeOK', CriticalHeld', Row(a)',
         \A b \in Applier \ {a} : SameRow(b)
  PROVE  IInv'
<1>1. ASSUME NEW b \in Applier, b # a
      PROVE  Row(b)'
  BY <1>1
     DEF IInv, SameRow, Row, Progress, Checked, Preimage, MoreTargets, Batch
<1>2. QED
  BY <1>1 DEF IInv

\* Planning the writes.
LEMMA PlanKeeps ==
  ASSUME IInv, NEW a \in Applier, Plan(a)
  PROVE  IInv'
<1>1. PICK targets \in Batches, expect \in [File -> Value \union {Unbound}] :
        manifest' = [manifest EXCEPT ![a] =
                       [targets |-> targets, expect |-> expect,
                        tree |-> FALSE, base |-> None.base]]
  BY DEF Plan
<1> DEFINE m == [targets |-> targets, expect |-> expect, tree |-> FALSE,
                 base |-> None.base]
<1>2. m \in Manifests
  BY DEF Manifests, None, Value
<1>3. count[a] = 0
  BY DEF IInv, Row, Progress, Plan, Before
<1>4. Len(m.targets) \in Nat
  BY <1>2, BatchType
<1> HIDE DEF m
<1>5. TypeOK'
  <2>1. manifest' \in [Applier -> Manifests]
    BY <1>1, <1>2 DEF IInv, TypeOK, m
  <2>2. \A b \in Applier : count'[b] <= Len(manifest'[b].targets)
    BY <1>1, <1>3, <1>4 DEF IInv, TypeOK, Plan, m
  <2>3. QED
    BY <2>1, <2>2 DEF IInv, TypeOK, Plan, Before, Outcomes
<1>6. CriticalHeld'
  BY DEF IInv, CriticalHeld, TypeOK, Plan, Critical, Writing, Undoing
<1>7. Row(a)'
  BY <1>3
     DEF IInv, TypeOK, Plan, Row, Progress, Checked, Preimage, Before,
         Writing, Undoing
<1>8. \A b \in Applier \ {a} : SameRow(b)
  BY DEF IInv, TypeOK, Plan, SameRow
<1>9. QED
  BY <1>5, <1>6, <1>7, <1>8, RestOfInvariant

\* build_manifest.
LEMMA CaptureKeeps ==
  ASSUME IInv, NEW a \in Applier, Capture(a)
  PROVE  IInv'
<1>1. PICK tree \in BOOLEAN :
        manifest' = [manifest EXCEPT ![a] =
                       [targets |-> Batch(a), expect |-> manifest[a].expect,
                        tree |-> tree, base |-> View(Batch(a), tree)]]
  BY DEF Capture
<1> DEFINE m == [targets |-> Batch(a), expect |-> manifest[a].expect,
                 tree |-> tree, base |-> View(Batch(a), tree)]
<1>2. m \in Manifests
  <2>1. View(Batch(a), tree) \in [File -> Value]
    BY DEF View, Value, IInv, TypeOK
  <2>2. manifest[a] \in Manifests
    BY DEF IInv, TypeOK
  <2>3. QED
    BY <2>1, <2>2 DEF Manifests, Batch
<1>3. count[a] = 0
  BY DEF IInv, Row, Progress, Capture, Before
<1>4. Len(m.targets) \in Nat
  BY <1>2, BatchType
<1> HIDE DEF m
<1>5. TypeOK'
  <2>1. manifest' \in [Applier -> Manifests]
    BY <1>1, <1>2 DEF IInv, TypeOK, m
  <2>2. \A b \in Applier : count'[b] <= Len(manifest'[b].targets)
    BY <1>1, <1>3, <1>4 DEF IInv, TypeOK, Capture, m
  <2>3. QED
    BY <2>1, <2>2 DEF IInv, TypeOK, Capture, Before, Outcomes
<1>6. CriticalHeld'
  BY DEF IInv, CriticalHeld, TypeOK, Capture, Critical, Writing, Undoing
<1>7. Row(a)'
  BY <1>3
     DEF IInv, TypeOK, Capture, Row, Progress, Checked, Preimage, Before,
         Writing, Undoing
<1>8. \A b \in Applier \ {a} : SameRow(b)
  BY DEF IInv, TypeOK, Capture, SameRow
<1>9. QED
  BY <1>5, <1>6, <1>7, <1>8, RestOfInvariant

\* The approval of a built manifest.
LEMMA ApproveKeeps ==
  ASSUME IInv, NEW a \in Applier, Approve(a)
  PROVE  IInv'
<1>1. TypeOK'
  BY DEF IInv, TypeOK, Approve
<1>2. CriticalHeld'
  BY DEF IInv, CriticalHeld, TypeOK, Approve
<1>3. Row(a)'
  BY DEF IInv, TypeOK, Approve, Row, Progress, Checked, Preimage, Before,
         Writing, Undoing, MoreTargets, Batch
<1>4. \A b \in Applier \ {a} : SameRow(b)
  BY DEF IInv, TypeOK, Approve, SameRow
<1>5. QED
  BY <1>1, <1>2, <1>3, <1>4, RestOfInvariant

\* A manifest is dropped outside of the critical section.
LEMMA LeaveOutsideKeeps ==
  ASSUME IInv, NEW a \in Applier, Discard(a) \/ LockTimesOut(a)
  PROVE  IInv'
<1>1. count[a] = 0
  BY DEF IInv, Row, Progress, Discard, LockTimesOut, Before
<1>2. TypeOK'
  <2>1. \A b \in Applier : count'[b] <= Len(manifest'[b].targets)
    BY <1>1, NoneIsManifest DEF IInv, TypeOK, Discard, LockTimesOut
  <2>2. QED
    BY <2>1, NoneIsManifest
       DEF IInv, TypeOK, Discard, LockTimesOut, Before, Outcomes
<1>3. CriticalHeld'
  BY DEF IInv, CriticalHeld, TypeOK, Discard, LockTimesOut, Critical, Writing,
         Undoing
<1>4. Row(a)'
  BY <1>1
     DEF IInv, TypeOK, Discard, LockTimesOut, Row, Progress, Checked,
         Preimage, Before, Writing, Undoing
<1>5. \A b \in Applier \ {a} : SameRow(b)
  BY DEF IInv, TypeOK, Discard, LockTimesOut, SameRow
<1>6. QED
  BY <1>2, <1>3, <1>4, <1>5, RestOfInvariant

\* Entering the critical section.
LEMMA EnterKeeps ==
  ASSUME IInv, NEW a \in Applier, Enter(a)
  PROVE  IInv'
<1>1. TypeOK'
  BY DEF IInv, TypeOK, Enter, Acquire, Critical
<1>2. CriticalHeld'
  BY ManifestAssumption
     DEF IInv, CriticalHeld, TypeOK, Enter, Acquire, Critical, Writing, Undoing
<1>3. Row(a)'
  BY DEF IInv, TypeOK, Enter, Row, Progress, Checked, Preimage, Before,
         Writing, Undoing, MoreTargets, Batch
<1>4. \A b \in Applier \ {a} : SameRow(b)
  BY DEF IInv, TypeOK, Enter, SameRow
<1>5. QED
  BY <1>1, <1>2, <1>3, <1>4, RestOfInvariant

\* The approval and workspace checks succeed: the preflight has seen no write.
LEMMA AdmitKeeps ==
  ASSUME IInv, NEW a \in Applier, Admit(a)
  PROVE  IInv'
<1>1. TypeOK'
  BY DEF IInv, TypeOK, Admit, Critical
<1>2. CriticalHeld'
  BY DEF IInv, CriticalHeld, TypeOK, Admit, Critical, Writing, Undoing
<1>3. Row(a)'
  BY DEF IInv, TypeOK, Admit, Admissible, Row, Progress, Checked, Preimage,
         Before, Writing, Undoing, MoreTargets, Batch
<1>4. \A b \in Applier \ {a} : SameRow(b)
  BY DEF IInv, TypeOK, Admit, SameRow
<1>5. QED
  BY <1>1, <1>2, <1>3, <1>4, RestOfInvariant

\* Every way out of the critical section but the death of the process.
LEMMA EndApplyKeeps ==
  ASSUME IInv, NEW a \in Applier, NEW how \in Outcomes, EndApply(a, how)
  PROVE  IInv'
<1>1. TypeOK'
  <2>1. \A b \in Applier : count'[b] <= Len(manifest'[b].targets)
    BY NoneIsManifest DEF IInv, TypeOK, EndApply
  <2>2. QED
    BY <2>1, NoneIsManifest DEF IInv, TypeOK, EndApply, Release, Before, Value
<1>2. CriticalHeld'
  BY ManifestAssumption
     DEF IInv, CriticalHeld, TypeOK, EndApply, Release, Critical, Writing,
         Undoing
<1>3. Row(a)'
  BY DEF IInv, TypeOK, EndApply, Row, Progress, Checked, Preimage, Before,
         Writing, Undoing
<1>4. \A b \in Applier \ {a} : SameRow(b)
  BY DEF IInv, TypeOK, EndApply, SameRow
<1>5. QED
  BY <1>1, <1>2, <1>3, <1>4, RestOfInvariant

\* The death of the process.
LEMMA KillKeeps ==
  ASSUME IInv, NEW a \in Applier, Kill(a)
  PROVE  IInv'
<1>1. TypeOK'
  <2>1. \A b \in Applier : count'[b] <= Len(manifest'[b].targets)
    BY NoneIsManifest DEF IInv, TypeOK, Kill
  <2>2. QED
    BY <2>1, NoneIsManifest
       DEF IInv, TypeOK, Kill, Vanish, Before, Value, Outcomes
<1>2. CriticalHeld'
  BY ManifestAssumption
     DEF IInv, CriticalHeld, TypeOK, Kill, Vanish, Critical, Writing, Undoing
<1>3. Row(a)'
  BY DEF IInv, TypeOK, Kill, Row, Progress, Checked, Preimage, Before,
         Writing, Undoing
<1>4. \A b \in Applier \ {a} : SameRow(b)
  BY DEF IInv, TypeOK, Kill, SameRow
<1>5. QED
  BY <1>1, <1>2, <1>3, <1>4, RestOfInvariant

\* The write an applier is at, or the one it undoes, is one of its batch.
LEMMA BatchAtHand ==
  ASSUME IInv, NEW a \in Applier
  PROVE  /\ Len(Batch(a)) \in Nat
         /\ count[a] \in Nat /\ count[a] <= Len(Batch(a))
         /\ MoreTargets(a) => NextTarget(a) \in File
         /\ count[a] > 0 => LastTarget(a) \in File
         /\ \A i \in 1..Len(Batch(a)) : Batch(a)[i] \in File
         /\ Targets(Batch(a)) = {Batch(a)[i] : i \in 1..Len(Batch(a))}
<1>1. manifest[a] \in Manifests
  BY DEF IInv, TypeOK
<1>2. count[a] \in Nat /\ count[a] <= Len(Batch(a))
  BY DEF IInv, TypeOK, Batch
<1>3. /\ Len(Batch(a)) \in Nat
      /\ \A i \in 1..Len(Batch(a)) : Batch(a)[i] \in File
      /\ Targets(Batch(a)) = {Batch(a)[i] : i \in 1..Len(Batch(a))}
  BY <1>1, BatchType DEF Batch
<1>4. QED
  BY <1>2, <1>3 DEF MoreTargets, NextTarget, LastTarget

\* One more write of the batch was found as expected.
LEMMA PreflightPassKeeps ==
  ASSUME IInv, NEW a \in Applier, PreflightPass(a)
  PROVE  IInv'
<1> DEFINE f == NextTarget(a)
<1>1. f \in File /\ disk[f] \in Value
  BY BatchAtHand DEF PreflightPass, IInv, TypeOK
<1>2. count[a] \in Nat /\ count[a] + 1 <= Len(Batch(a))
  BY BatchAtHand DEF PreflightPass, MoreTargets
<1>3. TypeOK'
  <2>1. snap' \in [Applier -> [File -> Value]]
    BY <1>1 DEF PreflightPass, IInv, TypeOK
  <2>2. \A b \in Applier : count'[b] <= Len(manifest'[b].targets)
    BY <1>2 DEF PreflightPass, IInv, TypeOK, Batch
  <2>3. QED
    BY <2>1, <2>2 DEF PreflightPass, IInv, TypeOK
<1>4. CriticalHeld'
  BY DEF IInv, CriticalHeld, TypeOK, PreflightPass
<1>5. Row(a)'
  <2>1. /\ manifest[a] = approved[a]
        /\ \A i \in 1..count[a] :
             snap[a][Batch(a)[i]] = approved[a].expect[Batch(a)[i]]
    BY DEF PreflightPass, IInv, Row, Checked
  <2>2. /\ snap'[a] = [snap[a] EXCEPT ![f] = disk[f]]
        /\ disk[f] = approved[a].expect[f]
        /\ snap[a] \in [File -> Value]
        /\ count'[a] = count[a] + 1
        /\ pc'[a] = "preflight"
        /\ manifest'[a] = manifest[a] /\ approved'[a] = approved[a]
    BY <2>1 DEF PreflightPass, AsExpected, IInv, TypeOK
  <2>3. ASSUME NEW i \in 1..count'[a]
        PROVE  snap'[a][Batch(a)[i]] = approved[a].expect[Batch(a)[i]]
    <3>1. CASE i = count[a] + 1
      BY <3>1, <1>1, <2>2 DEF NextTarget
    <3>2. CASE i # count[a] + 1
      <4>1. i \in 1..count[a] /\ i \in 1..Len(Batch(a))
        BY <3>2, <2>2, <1>2
      <4>2. Batch(a)[i] \in File
        BY <4>1, BatchAtHand
      <4>3. QED
        BY <4>1, <4>2, <2>1, <2>2, <1>1
    <3>3. QED
      BY <3>1, <3>2
  <2>4. QED
    BY <2>1, <2>2, <2>3
       DEF Row, Progress, Checked, Preimage, Batch, Before, Writing, Undoing
<1>6. \A b \in Applier \ {a} : SameRow(b)
  BY DEF IInv, TypeOK, PreflightPass, SameRow
<1>7. QED
  BY <1>3, <1>4, <1>5, <1>6, RestOfInvariant

\* The preflight has seen all targets, hence the snapshots are what was approved.
LEMMA StartWritingKeeps ==
  ASSUME IInv, NEW a \in Applier, StartWriting(a)
  PROVE  IInv'
<1>1. TypeOK'
  <2>1. \A b \in Applier : Len(manifest[b].targets) \in Nat
    BY BatchType DEF IInv, TypeOK
  <2>2. QED
    BY <2>1 DEF IInv, TypeOK, StartWriting, Critical, Writing
<1>2. CriticalHeld'
  BY DEF IInv, CriticalHeld, TypeOK, StartWriting, Critical, Writing
<1>3. Row(a)'
  <2>1. count[a] = Len(Batch(a))
    BY BatchAtHand DEF StartWriting, MoreTargets
  <2>2. \A f \in Targets(Batch(a)) : snap[a][f] = approved[a].expect[f]
    BY <2>1, BatchAtHand DEF StartWriting, IInv, Row, Checked
  <2>3. QED
    BY <2>2
       DEF IInv, TypeOK, StartWriting, Row, Progress, Checked, Preimage,
           Batch, Before
<1>4. \A b \in Applier \ {a} : SameRow(b)
  BY DEF IInv, TypeOK, StartWriting, SameRow
<1>5. QED
  BY <1>1, <1>2, <1>3, <1>4, RestOfInvariant

\* The steps of _write_bytes_atomic.
LEMMA WriteKeeps ==
  ASSUME IInv, NEW a \in Applier,
         \/ StageTemp(a) \/ Link(a) \/ FinalCheck(a) \/ Replace(a)
  PROVE  IInv'
<1>1. /\ MoreTargets(a)
      /\ NextTarget(a) \in File
  BY BatchAtHand DEF StageTemp, Link, FinalCheck, Replace, IInv, Row, Progress
<1>2. New[a] \in Value
  BY ManifestAssumption DEF Value
<1>3. TypeOK'
  <2>1. disk' \in [File -> Value]
    BY <1>1, <1>2
       DEF StageTemp, Link, FinalCheck, Replace, Advance, IInv, TypeOK
  <2>2. QED
    BY <2>1
       DEF IInv, TypeOK, StageTemp, Link, FinalCheck, Replace, Advance,
           Critical, Writing
<1>4. CriticalHeld'
  BY DEF IInv, CriticalHeld, TypeOK, StageTemp, Link, FinalCheck, Replace,
         Advance, Critical, Writing
<1>5. Row(a)'
  BY <1>1
     DEF IInv, TypeOK, StageTemp, Link, FinalCheck, Replace, Advance, Row,
         Progress, Checked, Preimage, Batch, Before, MoreTargets, Writing,
         Undoing
<1>6. \A b \in Applier \ {a} : SameRow(b)
  BY DEF IInv, TypeOK, StageTemp, Link, FinalCheck, Replace, Advance, SameRow
<1>7. QED
  BY <1>3, <1>4, <1>5, <1>6, RestOfInvariant

\* A result is appended.
LEMMA RecordKeeps ==
  ASSUME IInv, NEW a \in Applier, Record(a)
  PROVE  IInv'
<1>1. count[a] \in Nat /\ count[a] + 1 <= Len(Batch(a))
  BY BatchAtHand DEF Record, MoreTargets, IInv, Row, Progress
<1>2. TypeOK'
  <2>1. \A b \in Applier : count'[b] <= Len(manifest'[b].targets)
    BY <1>1 DEF Record, IInv, TypeOK, Batch
  <2>2. QED
    BY <2>1 DEF Record, IInv, TypeOK, Critical, Writing
<1>3. CriticalHeld'
  BY DEF IInv, CriticalHeld, TypeOK, Record, Critical, Writing
<1>4. Row(a)'
  BY DEF IInv, TypeOK, Record, Row, Progress, Checked, Preimage, Batch,
         Before, Writing, Undoing
<1>5. \A b \in Applier \ {a} : SameRow(b)
  BY DEF IInv, TypeOK, Record, SameRow
<1>6. QED
  BY <1>2, <1>3, <1>4, <1>5, RestOfInvariant

\* Whatever ends the writes early leads into the rollback.
LEMMA FailKeeps ==
  ASSUME IInv, NEW a \in Applier, NEW why \in {"error", "interrupt"},
         pc[a] \in Writing, Fail(a, why)
  PROVE  IInv'
<1>1. TypeOK'
  BY DEF IInv, TypeOK, Fail, Critical, Undoing
<1>2. CriticalHeld'
  BY DEF IInv, CriticalHeld, TypeOK, Fail, Critical, Undoing
<1>3. Row(a)'
  BY DEF IInv, TypeOK, Fail, Row, Progress, Checked, Preimage, Batch, Before,
         Writing, Undoing
<1>4. \A b \in Applier \ {a} : SameRow(b)
  BY DEF IInv, TypeOK, Fail, SameRow
<1>5. QED
  BY <1>1, <1>2, <1>3, <1>4, RestOfInvariant

\* The rollback finds a target as it was written.
LEMMA UndoCheckKeeps ==
  ASSUME IInv, NEW a \in Applier, UndoCheck(a)
  PROVE  IInv'
<1>1. TypeOK'
  BY DEF IInv, TypeOK, UndoCheck, Advance, Critical, Undoing
<1>2. CriticalHeld'
  BY DEF IInv, CriticalHeld, TypeOK, UndoCheck, Advance, Critical, Undoing
<1>3. Row(a)'
  BY DEF IInv, TypeOK, UndoCheck, Advance, Row, Progress, Checked, Preimage,
         Batch, Before, Writing, Undoing
<1>4. \A b \in Applier \ {a} : SameRow(b)
  BY DEF IInv, TypeOK, UndoCheck, Advance, SameRow
<1>5. QED
  BY <1>1, <1>2, <1>3, <1>4, RestOfInvariant

\* The rollback goes on to the previous target, restored or not.
LEMMA UndoStepKeeps ==
  ASSUME IInv, NEW a \in Applier,
         UndoSkip(a) \/ Restore(a) \/ RestoreFails(a)
  PROVE  IInv'
<1>1. /\ count[a] > 0
      /\ LastTarget(a) \in File
      /\ count[a] \in Nat /\ count[a] <= Len(Batch(a)) /\ Len(Batch(a)) \in Nat
  BY BatchAtHand DEF UndoSkip, Restore, RestoreFails, IInv, Row, Progress
<1>2. TypeOK'
  <2>1. /\ disk' = disk \/ disk' = [disk EXCEPT ![LastTarget(a)] =
                                     snap[a][LastTarget(a)]]
        /\ errors' = errors \/ errors' = [errors EXCEPT ![a] =
                                         errors[a] \union {LastTarget(a)}]
        /\ count' = [count EXCEPT ![a] = count[a] - 1]
        /\ pc' = pc \/ pc' = [pc EXCEPT ![a] = "undo"]
        /\ UNCHANGED <<holder, manifest, approved, snap, cause, outcome, raced>>
    BY DEF UndoSkip, Restore, RestoreFails
  <2>2. disk' \in [File -> Value]
    <3>1. disk \in [File -> Value] /\ snap[a][LastTarget(a)] \in Value
      BY <1>1 DEF IInv, TypeOK
    <3>2. QED
      BY <3>1, <2>1
  <2>3. errors' \in [Applier -> SUBSET File]
    <3>1. /\ errors \in [Applier -> SUBSET File]
          /\ errors[a] \union {LastTarget(a)} \in SUBSET File
      BY <1>1 DEF IInv, TypeOK
    <3>2. QED
      BY <3>1, <2>1
  <2>4. /\ count' \in [Applier -> Nat]
        /\ \A b \in Applier : count'[b] <= Len(manifest'[b].targets)
    <3>1. count[a] - 1 \in Nat /\ count[a] - 1 <= Len(manifest[a].targets)
      BY <1>1 DEF Batch
    <3>2. count' \in [Applier -> Nat]
      BY <3>1, <2>1 DEF IInv, TypeOK
    <3>3. ASSUME NEW b \in Applier
          PROVE  count'[b] <= Len(manifest'[b].targets)
      BY <3>1, <2>1 DEF IInv, TypeOK
    <3>4. QED
      BY <3>2, <3>3
  <2>5. pc' \in [Applier -> Before \union Critical]
    BY <2>1 DEF IInv, TypeOK, Critical, Undoing
  <2>6. QED
    BY <2>1, <2>2, <2>3, <2>4, <2>5 DEF IInv, TypeOK
<1>3. CriticalHeld'
  BY DEF IInv, CriticalHeld, TypeOK, UndoSkip, Restore, RestoreFails,
         Critical, Undoing
<1>4. Row(a)'
  BY DEF IInv, TypeOK, UndoSkip, Restore, RestoreFails, Row, Progress,
         Checked, Preimage, Batch, Before, Writing, Undoing
<1>5. \A b \in Applier \ {a} : SameRow(b)
  BY DEF IInv, TypeOK, UndoSkip, Restore, RestoreFails, SameRow
<1>6. QED
  BY <1>2, <1>3, <1>4, <1>5, RestOfInvariant

\* The user changes a file.
LEMMA EditKeeps ==
  ASSUME IInv, NEW f \in File, NEW v \in Value, Edit(f, v)
  PROVE  IInv'
<1>1. TypeOK'
  <2>1. raced' \in [Applier -> BOOLEAN]
    BY DEF IInv, TypeOK, Edit, AtHand
  <2>2. disk' \in [File -> Value]
    BY DEF IInv, TypeOK, Edit
  <2>3. QED
    BY <2>1, <2>2 DEF IInv, TypeOK, Edit
<1>2. CriticalHeld'
  BY DEF IInv, CriticalHeld, Edit
<1>3. \A b \in Applier : Row(b)'
  BY DEF IInv, Edit, Row, Progress, Checked, Preimage, MoreTargets, Batch
<1>4. QED
  BY <1>1, <1>2, <1>3 DEF IInv

\* The invariant holds when nobody has planned anything.
LEMMA InvariantInitially == Init => IInv
<1> SUFFICES ASSUME Init PROVE IInv
  OBVIOUS
<1>1. TypeOK
  BY NoneIsManifest DEF Init, MutexInit, TypeOK, Before, Outcomes, Value
<1>2. CriticalHeld
  BY ManifestAssumption
     DEF Init, MutexInit, CriticalHeld, Critical, Writing, Undoing
<1>3. \A a \in Applier : Row(a)
  BY DEF Init, Row, Progress, Checked, Preimage, Before, Writing, Undoing
<1>4. QED
  BY <1>1, <1>2, <1>3 DEF IInv

\* Every step preserves the invariant.
LEMMA InvariantKept == IInv /\ [Next]_vars => IInv'
<1> SUFFICES ASSUME IInv, [Next]_vars PROVE IInv'
  OBVIOUS
<1>1. ASSUME NEW a \in Applier, Plan(a) \/ Capture(a) \/ Approve(a) \/ Discard(a)
      PROVE  IInv'
  BY <1>1, PlanKeeps, CaptureKeeps, ApproveKeeps, LeaveOutsideKeeps
<1>2. ASSUME NEW a \in Applier, Enter(a) \/ LockTimesOut(a)
      PROVE  IInv'
  BY <1>2, EnterKeeps, LeaveOutsideKeeps
<1>3. ASSUME NEW a \in Applier, ApplyStep(a)
      PROVE  IInv'
  <2>1. CASE \/ Refuse(a) \/ PreflightRefuse(a) \/ Finish(a) \/ UndoEnds(a)
    BY <2>1, EndApplyKeeps
       DEF Refuse, PreflightRefuse, Finish, UndoEnds, Outcomes
  <2>2. CASE Conflict(a)
    BY <2>2, FailKeeps DEF Conflict, Writing
  <2>3. QED
    BY <1>3, <2>1, <2>2, AdmitKeeps, PreflightPassKeeps, StartWritingKeeps,
       WriteKeeps, RecordKeeps, UndoStepKeeps, UndoCheckKeeps DEF ApplyStep
<1>4. ASSUME NEW a \in Applier, IoFails(a) \/ TmpUnlinkFails(a) \/ Interrupt(a)
      PROVE  IInv'
  BY <1>4, FailKeeps DEF IoFails, TmpUnlinkFails, Interrupt, Writing
<1>5. ASSUME NEW a \in Applier, InterruptUncaught(a) \/ Kill(a)
      PROVE  IInv'
  BY <1>5, EndApplyKeeps, KillKeeps DEF InterruptUncaught, Outcomes
<1>6. CASE UNCHANGED vars
  BY <1>6
     DEF vars, IInv, TypeOK, CriticalHeld, Row, Progress, Checked, Preimage,
         MoreTargets, Batch
<1>7. QED
  BY <1>1, <1>2, <1>3, <1>4, <1>5, <1>6, EditKeeps DEF Next, ApplierNext

\* The inductive invariant holds of apply_manifest under all interleavings.
THEOREM Invariance == Spec => []IInv
BY InvariantInitially, InvariantKept, PTL DEF Spec

\* Indices stay within their batches, and every variable within its type: the
\* loops of _apply_manifest_locked never run past the end of a batch.
THEOREM TypeCorrect == Spec => []TypeOK
BY Invariance, PTL DEF IInv

\* apply_manifest checks, writes and rolls back only inside the critical section
\* of write_lock, and gives it up when it ends, is interrupted or dies.
THEOREM CriticalSectionHeld == Spec => []CriticalHeld
BY Invariance, PTL DEF IInv

\* Writes and rollbacks of apply_manifest happen only under an approval of the
\* very manifest, and what they replace is what that manifest was built on.
THEOREM ApprovedPreimageHolds == Spec => []ApprovedPreimage
<1>1. IInv => ApprovedPreimage
  BY DEF IInv, Row, Preimage, ApprovedPreimage
<1>2. QED
  BY <1>1, Invariance, PTL

-----------------------------------------------------------------------------
(* Lost edits                                                              *)

\* Between its last check of a file and the write that follows, an applier
\* that has not been overtaken by the user still sees what it checked.
Sees(a) ==
  ~raced[a] =>
    /\ pc[a] = "replace" =>
         disk[NextTarget(a)] = approved[a].expect[NextTarget(a)]
    /\ pc[a] = "restore" => disk[LastTarget(a)] = New[a]

\* A step that leaves the files alone and takes an applier neither to
\* os.replace nor to a restoration keeps Sees for all of them.
LEMMA SeesKeptElsewhere ==
  ASSUME IInv, IInv', \A b \in Applier : Sees(b), NEW a \in Applier,
         \A b \in Applier \ {a} : SameRow(b) /\ raced'[b] = raced[b],
         \/ disk' = disk
         \/ pc[a] \in Critical,
         Sees(a)'
  PROVE  \A b \in Applier : Sees(b)'
<1>1. ASSUME NEW b \in Applier, b # a
      PROVE  Sees(b)'
  <2>1. SameRow(b) /\ raced'[b] = raced[b] /\ Sees(b)
    BY <1>1
  <2>2. CASE pc[b] \in {"replace", "restore"}
    <3>1. holder = b
      BY <2>2 DEF IInv, CriticalHeld, Critical, Writing, Undoing
    <3>2. pc[a] \notin Critical
      BY <3>1, <1>1 DEF IInv, CriticalHeld
    <3>3. disk' = disk
      BY <3>2
    <3>4. QED
      BY <2>1, <3>3 DEF Sees, SameRow, NextTarget, LastTarget, Batch
  <2>3. CASE pc[b] \notin {"replace", "restore"}
    BY <2>1, <2>3 DEF Sees, SameRow
  <2>4. QED
    BY <2>2, <2>3
<1>2. QED
  BY <1>1

\* An applier's step leaves the other appliers alone, and it changes files in
\* the critical section only.
LEMMA ApplierStepIsLocal ==
  ASSUME IInv, NEW a \in Applier, ApplierNext(a)
  PROVE  /\ \A b \in Applier \ {a} : SameRow(b) /\ raced'[b] = raced[b]
         /\ disk' = disk \/ pc[a] \in Critical
<1>1. CASE \/ Plan(a) \/ Capture(a) \/ Approve(a) \/ Discard(a)
           \/ Enter(a) \/ LockTimesOut(a) \/ Kill(a)
  BY <1>1 DEF IInv, TypeOK, SameRow, Plan, Capture, Approve, Discard, Enter,
              LockTimesOut, Kill
<1>2. CASE \/ Refuse(a) \/ PreflightRefuse(a) \/ Finish(a) \/ UndoEnds(a)
           \/ InterruptUncaught(a)
  BY <1>2 DEF IInv, TypeOK, SameRow, Refuse, PreflightRefuse, Finish, UndoEnds,
              InterruptUncaught, EndApply
<1>3. CASE Conflict(a) \/ IoFails(a) \/ TmpUnlinkFails(a) \/ Interrupt(a)
  BY <1>3 DEF IInv, TypeOK, SameRow, Conflict, IoFails, TmpUnlinkFails,
              Interrupt, Fail
<1>4. CASE \/ Admit(a) \/ PreflightPass(a) \/ StartWriting(a) \/ Record(a)
           \/ UndoSkip(a) \/ RestoreFails(a)
  BY <1>4
     DEF IInv, TypeOK, SameRow, Admit, PreflightPass, StartWriting, Record,
              UndoSkip, RestoreFails
<1>5. CASE StageTemp(a) \/ Link(a) \/ FinalCheck(a) \/ Replace(a) \/ UndoCheck(a)
  BY <1>5 DEF IInv, TypeOK, SameRow, StageTemp, Link, FinalCheck, Replace,
              UndoCheck, Advance, Critical, Writing, Undoing
<1>6. CASE Restore(a)
  BY <1>6 DEF IInv, TypeOK, SameRow, Restore, Critical, Undoing
<1>7. QED
  BY <1>1, <1>2, <1>3, <1>4, <1>5, <1>6 DEF ApplierNext, ApplyStep

\* The steps that lead to a write check the file; the others lead elsewhere.
LEMMA SeesKeptByApplier ==
  ASSUME IInv, NEW a \in Applier, ApplierNext(a)
  PROVE  Sees(a)'
<1>1. CASE FinalCheck(a)
  <2>1. /\ manifest[a] = approved[a]
        /\ disk[NextTarget(a)] = approved[a].expect[NextTarget(a)]
    BY <1>1 DEF FinalCheck, AsExpected, IInv, Row, Preimage, Writing
  <2>2. QED
    BY <1>1, <2>1
       DEF FinalCheck, Advance, Sees, NextTarget, Batch, IInv, TypeOK
<1>2. CASE UndoCheck(a)
  BY <1>2 DEF UndoCheck, Advance, Sees, LastTarget, Batch, IInv, TypeOK
<1>3. CASE ~FinalCheck(a) /\ ~UndoCheck(a)
  <2>1. pc'[a] \notin {"replace", "restore"}
    <3>1. CASE \/ Plan(a) \/ Capture(a) \/ Approve(a) \/ Discard(a)
               \/ Enter(a) \/ LockTimesOut(a) \/ Kill(a)
      BY <3>1 DEF IInv, TypeOK, Plan, Capture, Approve, Discard, Enter,
                  LockTimesOut, Kill
    <3>2. CASE \/ Refuse(a) \/ PreflightRefuse(a) \/ Finish(a)
               \/ UndoEnds(a) \/ InterruptUncaught(a)
      BY <3>2 DEF IInv, TypeOK, Refuse, PreflightRefuse, Finish, UndoEnds,
                  InterruptUncaught, EndApply
    <3>3. CASE Conflict(a) \/ IoFails(a) \/ TmpUnlinkFails(a) \/ Interrupt(a)
      BY <3>3 DEF IInv, TypeOK, Conflict, IoFails, TmpUnlinkFails, Interrupt,
                  Fail
    <3>4. CASE \/ Admit(a) \/ PreflightPass(a) \/ StartWriting(a) \/ Record(a)
               \/ UndoSkip(a) \/ RestoreFails(a)
      BY <3>4 DEF IInv, TypeOK, Admit, PreflightPass, StartWriting, Record,
                  UndoSkip, RestoreFails
    <3>5. CASE StageTemp(a) \/ Link(a) \/ Replace(a) \/ Restore(a)
      BY <3>5 DEF IInv, TypeOK, StageTemp, Link, Replace, Restore, Advance
    <3>6. QED
      BY <1>3, <3>1, <3>2, <3>3, <3>4, <3>5 DEF ApplierNext, ApplyStep
  <2>2. QED
    BY <2>1 DEF Sees
<1>4. QED
  BY <1>1, <1>2, <1>3

\* Every step preserves what appliers see; an edit of the file at hand sets raced.
LEMMA SeesKept ==
  ASSUME IInv, IInv', \A b \in Applier : Sees(b), [Next]_vars
  PROVE  \A b \in Applier : Sees(b)'
<1>1. ASSUME NEW a \in Applier, ApplierNext(a)
      PROVE  \A b \in Applier : Sees(b)'
  BY <1>1, ApplierStepIsLocal, SeesKeptByApplier, SeesKeptElsewhere
<1>2. ASSUME NEW f \in File, NEW v \in Value, Edit(f, v)
      PROVE  \A b \in Applier : Sees(b)'
  <2>1. ASSUME NEW b \in Applier
        PROVE  Sees(b)'
    <3>1. /\ raced'[b] = (raced[b] \/ AtHand(b, f))
          /\ UNCHANGED <<pc, manifest, approved, count>>
          /\ disk' = [disk EXCEPT ![f] = v]
          /\ disk \in [File -> Value]
      BY <1>2 DEF Edit, IInv, TypeOK
    <3>2. /\ pc[b] = "replace" => NextTarget(b) \in File
          /\ pc[b] = "restore" => LastTarget(b) \in File
      BY BatchAtHand DEF IInv, Row, Progress
    <3>3. CASE raced'[b]
      BY <3>3 DEF Sees
    <3>4. CASE ~raced'[b]
      <4>1. ~raced[b] /\ ~AtHand(b, f)
        BY <3>1, <3>4
      <4>2. Sees(b)
        OBVIOUS
      <4>3. QED
        BY <4>1, <4>2, <3>1, <3>2
           DEF Sees, AtHand, NextTarget, LastTarget, Batch
    <3>5. QED
      BY <3>3, <3>4
  <2>2. QED
    BY <2>1
<1>3. CASE UNCHANGED vars
  BY <1>3 DEF vars, Sees, NextTarget, LastTarget, Batch
<1>4. QED
  BY <1>1, <1>2, <1>3 DEF Next

\* The steps that change a file on behalf of an applier are the link, the
\* replacement and the restoration.
LEMMA OnlyRacedEditsAreLostStep ==
  ASSUME IInv, \A b \in Applier : Sees(b), [Next]_vars,
         NEW a \in Applier, NEW f \in File,
         pc'[a] # pc[a], disk'[f] # disk[f]
  PROVE  \/ raced[a]
         \/ pc[a] \in Writing /\ disk[f] = approved[a].expect[f]
         \/ pc[a] \in Undoing /\ disk[f] = New[a]
<1>1. ASSUME NEW b \in Applier, ApplierNext(b)
      PROVE  ApplierNext(a)
  BY <1>1, ApplierStepIsLocal DEF SameRow
<1>2. ApplierNext(a)
  BY <1>1 DEF Next, Edit, vars
<1>3. disk \in [File -> Value] /\ New[a] \in Value
  BY ManifestAssumption DEF IInv, TypeOK, Value
<1>4. CASE Link(a)
  <2>1. f = NextTarget(a) /\ manifest[a] = approved[a]
    BY <1>4, <1>3 DEF Link, IInv, Row, Preimage, Writing
  <2>2. QED
    BY <1>4, <2>1 DEF Link, Writing
<1>5. CASE Replace(a)
  <2>1. f = NextTarget(a)
    BY <1>5, <1>3 DEF Replace
  <2>2. Sees(a)
    OBVIOUS
  <2>3. QED
    BY <1>5, <2>1, <2>2 DEF Replace, Writing, Sees
<1>6. CASE Restore(a)
  <2>1. f = LastTarget(a)
    BY <1>6, <1>3 DEF Restore
  <2>2. Sees(a)
    OBVIOUS
  <2>3. QED
    BY <1>6, <2>1, <2>2 DEF Restore, Undoing, Sees
<1>7. CASE ~Link(a) /\ ~Replace(a) /\ ~Restore(a)
  <2>1. disk' = disk
    <3>1. CASE \/ Plan(a) \/ Capture(a) \/ Approve(a) \/ Discard(a)
               \/ Enter(a) \/ LockTimesOut(a) \/ Kill(a)
      BY <3>1 DEF Plan, Capture, Approve, Discard, Enter, LockTimesOut, Kill
    <3>2. CASE \/ Refuse(a) \/ PreflightRefuse(a) \/ Finish(a)
               \/ UndoEnds(a) \/ InterruptUncaught(a)
      BY <3>2 DEF Refuse, PreflightRefuse, Finish, UndoEnds,
                  InterruptUncaught, EndApply
    <3>3. CASE Conflict(a) \/ IoFails(a) \/ TmpUnlinkFails(a) \/ Interrupt(a)
      BY <3>3 DEF Conflict, IoFails, TmpUnlinkFails, Interrupt, Fail
    <3>4. CASE \/ Admit(a) \/ PreflightPass(a) \/ StartWriting(a) \/ Record(a)
               \/ UndoSkip(a) \/ RestoreFails(a) \/ StageTemp(a)
               \/ FinalCheck(a) \/ UndoCheck(a)
      BY <3>4 DEF Admit, PreflightPass, StartWriting, Record, UndoSkip,
                  RestoreFails, StageTemp, FinalCheck, UndoCheck
    <3>5. QED
      BY <1>2, <1>7, <3>1, <3>2, <3>3, <3>4 DEF ApplierNext, ApplyStep
  <2>2. QED
    BY <2>1
<1>8. QED
  BY <1>4, <1>5, <1>6, <1>7

\* apply_manifest overwrites a user's edit only if it falls between the last
\* check of the file and the os.replace or restoration right after it.
THEOREM OnlyRacedEdits == Spec => OnlyRacedEditsAreLost
<1> DEFINE Inv == IInv /\ \A b \in Applier : Sees(b)
           Safe == \A a \in Applier, f \in File :
                     pc'[a] # pc[a] /\ disk'[f] # disk[f] =>
                       \/ raced[a]
                       \/ pc[a] \in Writing /\ disk[f] = approved[a].expect[f]
                       \/ pc[a] \in Undoing /\ disk[f] = New[a]
<1>1. Init => Inv
  <2>1. Init => \A b \in Applier : Sees(b)
    BY DEF Init, Sees
  <2>2. QED
    BY <2>1, InvariantInitially
<1>2. Inv /\ [Next]_vars => Inv'
  BY InvariantKept, SeesKept
<1>3. Inv /\ [Next]_vars => Safe
  BY OnlyRacedEditsAreLostStep
<1>4. QED
  <2>1. Inv /\ [Next]_vars => [Safe]_vars
    BY <1>3
  <2>2. QED
    BY <1>1, <1>2, <2>1, PTL DEF Spec, OnlyRacedEditsAreLost
-----------------------------------------------------------------------------
(* All or nothing                                                          *)
(*                                                                         *)
(* What the targets hold while a batch is written or rolled back: the new  *)
(* payload where it is in flight, and what the preflight saw elsewhere.    *)
(* This is so in a workspace whose user leaves it alone meanwhile, and     *)
(* whose applies may fail and die but are not interrupted: Undisturbed.    *)

Undisturbed == UserEdits = {} /\ Faults \subseteq {"io", "kill"}

\* What the preflight has seen is still there.
Seen(a) ==
  pc[a] = "preflight" =>
    \A i \in 1..count[a] : snap[a][Batch(a)[i]] = disk[Batch(a)[i]]

\* Payload in flight, old content elsewhere.
Placed(a) ==
  pc[a] \in Writing \union Undoing =>
    \A f \in Targets(Batch(a)) :
      disk[f] = IF f \in InFlight(a) THEN New[a] ELSE snap[a][f]

\* Rollback errors are about targets the rollback is past.
Reported(a) ==
  /\ pc[a] \notin Undoing => errors[a] = {}
  /\ \A f \in errors[a] :
       \E i \in 1..Len(Batch(a)) : i > count[a] /\ f = Batch(a)[i]

\* Whoever is about something is about a batch that was planned.
Planned(a) == pc[a] # "idle" => Batch(a) \in Batches

Whole(a) ==
  /\ Seen(a) /\ Placed(a) /\ Reported(a) /\ Planned(a)
  /\ cause[a] # "interrupt"

\* What a step of applier a does to its payload in flight.
StillFlying(a) == disk' = disk /\ InFlight(a)' = InFlight(a)

TakesOff(a) ==
  \E f \in Targets(Batch(a)) \ InFlight(a) :
    /\ disk' = [disk EXCEPT ![f] = New[a]]
    /\ InFlight(a)' = InFlight(a) \union {f}

Lands(a) ==
  \E f \in InFlight(a) :
    /\ disk' = [disk EXCEPT ![f] = snap[a][f]]
    /\ InFlight(a)' = InFlight(a) \ {f}

\* The steps of an apply that stay inside of it.
Inner(a) ==
  \/ Admit(a) \/ PreflightPass(a) \/ StartWriting(a)
  \/ StageTemp(a) \/ Link(a) \/ FinalCheck(a) \/ Replace(a) \/ Record(a)
  \/ Conflict(a) \/ IoFails(a)
  \/ UndoCheck(a) \/ Restore(a) \/ RestoreFails(a)

\* No target is twice in a batch.
LEMMA DistinctTargets ==
  ASSUME IInv, NEW a \in Applier, Planned(a), pc[a] # "idle"
  PROVE  \A i, j \in 1..Len(Batch(a)) : Batch(a)[i] = Batch(a)[j] => i = j
<1>1. Batch(a) \in Batches /\ Batch(a) \in Seq(File)
  BY ManifestAssumption DEF Planned
<1>2. DOMAIN Batch(a) = 1..Len(Batch(a))
  BY <1>1
<1>3. QED
  BY <1>1, <1>2, ManifestAssumption

\* What is in flight is among the targets, and only in the loops of an apply.
LEMMA FlightIsOfBatch ==
  ASSUME IInv, NEW a \in Applier, Reported(a)
  PROVE  /\ InFlight(a) \subseteq Targets(Batch(a))
         /\ InFlight(a) \subseteq File
         /\ pc[a] \notin Writing \union Undoing => InFlight(a) = {}
<1>1. /\ count[a] \in Nat /\ count[a] <= Len(Batch(a)) /\ Len(Batch(a)) \in Nat
      /\ Targets(Batch(a)) = {Batch(a)[i] : i \in 1..Len(Batch(a))}
      /\ \A i \in 1..Len(Batch(a)) : Batch(a)[i] \in File
  BY BatchAtHand
<1>2. {Batch(a)[i] : i \in 1..count[a]} \subseteq Targets(Batch(a))
  BY <1>1
<1>3. errors[a] \subseteq Targets(Batch(a))
  BY <1>1 DEF Reported
<1>4. pc[a] = "record" => NextTarget(a) \in Targets(Batch(a))
  BY <1>1 DEF NextTarget, MoreTargets, IInv, Row, Progress
<1>5. Targets(Batch(a)) \subseteq File
  BY <1>1
<1>6. InFlight(a) \subseteq Targets(Batch(a))
  BY <1>2, <1>3, <1>4 DEF InFlight
<1>7. QED
  BY <1>5, <1>6 DEF InFlight, Writing

\* Before the loops nothing is in flight, nor after the first step into them.
LEMMA QuietFlight ==
  ASSUME IInv, NEW a \in Applier, Whole(a),
         Admit(a) \/ PreflightPass(a) \/ StartWriting(a)
  PROVE  StillFlying(a)
<1>1. InFlight(a) = {}
  BY FlightIsOfBatch
     DEF Whole, Admit, PreflightPass, StartWriting, Writing, Undoing
<1>2. pc'[a] \in {"preflight", "write"} /\ disk' = disk
  BY DEF Admit, PreflightPass, StartWriting, IInv, TypeOK
<1>3. CASE pc'[a] = "preflight"
  BY <1>1, <1>2, <1>3 DEF StillFlying, InFlight, Writing, Undoing
<1>4. CASE pc'[a] = "write"
  <2>1. count'[a] = 0
    BY <1>4 DEF Admit, PreflightPass, StartWriting, IInv, TypeOK
  <2>2. {Batch(a)'[i] : i \in 1..count'[a]} = {}
    BY <2>1
  <2>3. QED
    BY <1>1, <1>2, <1>4, <2>2 DEF StillFlying, InFlight, Writing, Undoing
<1>5. QED
  BY <1>2, <1>3, <1>4

\* The checks of a write and of its undoing, and failing: nothing is written.
LEMMA CheckFlight ==
  ASSUME Undisturbed, IInv, NEW a \in Applier, Whole(a),
         StageTemp(a) \/ FinalCheck(a) \/ UndoCheck(a) \/ Conflict(a) \/ IoFails(a)
  PROVE  StillFlying(a)
<1>1. /\ disk' = disk /\ manifest' = manifest /\ count' = count
      /\ errors' = errors
  BY DEF StageTemp, FinalCheck, UndoCheck, Conflict, IoFails, Advance, Fail
<1>2. CASE StageTemp(a) \/ FinalCheck(a)
  <2>1. /\ pc[a] \in {"write", "swap"}
        /\ pc'[a] \in {"swap", "replace"}
    BY <1>2 DEF StageTemp, FinalCheck, Advance, IInv, TypeOK
  <2>2. QED
    BY <1>1, <2>1
       DEF StillFlying, InFlight, Batch, NextTarget, Writing, Undoing
<1>3. CASE UndoCheck(a)
  <2>1. pc[a] = "undo" /\ pc'[a] = "restore"
    BY <1>3 DEF UndoCheck, Advance, IInv, TypeOK
  <2>2. QED
    BY <1>1, <2>1 DEF StillFlying, InFlight, Batch, Undoing
<1>4. CASE Conflict(a) \/ IoFails(a)
  <2>1. pc[a] \in {"write", "swap", "replace"} /\ pc'[a] = "undo"
    BY <1>4 DEF Conflict, IoFails, Fail, IInv, TypeOK
  <2>2. errors[a] = {}
    BY <2>1 DEF Whole, Reported, Undoing
  <2>3. QED
    BY <1>1, <2>1, <2>2
       DEF StillFlying, InFlight, Batch, NextTarget, Writing, Undoing
<1>5. QED
  BY <1>2, <1>3, <1>4

\* os.link and os.replace bring the next payload in.
LEMMA WriteFlight ==
  ASSUME IInv, NEW a \in Applier, Whole(a), Link(a) \/ Replace(a)
  PROVE  TakesOff(a)
<1> DEFINE f == NextTarget(a)
<1>1. /\ pc[a] \in {"swap", "replace"} /\ pc'[a] = "record"
      /\ disk' = [disk EXCEPT ![f] = New[a]]
      /\ manifest' = manifest /\ count' = count /\ errors' = errors
  BY DEF Link, Replace, Advance, IInv, TypeOK
<1>2. /\ count[a] \in Nat /\ Len(Batch(a)) \in Nat
      /\ count[a] + 1 \in 1..Len(Batch(a))
      /\ f = Batch(a)[count[a] + 1]
  BY <1>1, BatchAtHand DEF IInv, Row, Progress, MoreTargets, NextTarget
<1>3. f \in Targets(Batch(a))
  BY <1>2, BatchAtHand
<1>4. InFlight(a) = {Batch(a)[i] : i \in 1..count[a]}
  BY <1>1 DEF InFlight, Writing, Undoing
<1>5. f \notin InFlight(a)
  <2>1. \A i, j \in 1..Len(Batch(a)) : Batch(a)[i] = Batch(a)[j] => i = j
    BY <1>1, DistinctTargets DEF Whole
  <2>2. \A i \in 1..count[a] : i \in 1..Len(Batch(a)) /\ i # count[a] + 1
    BY <1>2
  <2>3. QED
    BY <1>2, <1>4, <2>1, <2>2
<1>6. InFlight(a)' = InFlight(a) \union {f}
  BY <1>1, <1>4 DEF InFlight, Batch, NextTarget, Undoing
<1>7. QED
  BY <1>1, <1>3, <1>5, <1>6 DEF TakesOff

\* A recorded result was in flight already.
LEMMA RecordFlight ==
  ASSUME IInv, NEW a \in Applier, Record(a)
  PROVE  StillFlying(a)
<1>1. /\ pc[a] = "record" /\ pc'[a] = "write"
      /\ disk' = disk /\ manifest' = manifest
      /\ count'[a] = count[a] + 1 /\ count[a] \in Nat
  BY DEF Record, IInv, TypeOK
<1>2. 1..(count[a] + 1) = (1..count[a]) \union {count[a] + 1}
  BY <1>1
<1>3. InFlight(a) = {Batch(a)[i] : i \in 1..count[a]} \union {Batch(a)[count[a] + 1]}
  BY <1>1 DEF InFlight, NextTarget, Undoing
<1>4. InFlight(a)' = {Batch(a)[i] : i \in 1..(count[a] + 1)}
  BY <1>1 DEF InFlight, Batch, Writing, Undoing
<1>5. QED
  BY <1>1, <1>2, <1>3, <1>4 DEF StillFlying

\* The last of the results is undone, or reported.
LEMMA UndoFlight ==
  ASSUME IInv, NEW a \in Applier, Whole(a), Restore(a) \/ RestoreFails(a)
  PROVE  (Restore(a) => Lands(a)) /\ (RestoreFails(a) => StillFlying(a))
<1> DEFINE f == LastTarget(a)
           rest == {Batch(a)[i] : i \in 1..(count[a] - 1)}
<1>1. /\ pc[a] = "restore" /\ pc'[a] = "undo"
      /\ manifest' = manifest
      /\ count'[a] = count[a] - 1
  BY DEF Restore, RestoreFails, IInv, TypeOK
<1>2. /\ count[a] \in Nat /\ Len(Batch(a)) \in Nat
      /\ count[a] \in 1..Len(Batch(a))
      /\ f = Batch(a)[count[a]]
  BY <1>1, BatchAtHand DEF IInv, Row, Progress, LastTarget
<1>3. 1..count[a] = (1..(count[a] - 1)) \union {count[a]}
  BY <1>2
<1>4. InFlight(a) = rest \union {f} \union errors[a]
  BY <1>1, <1>2, <1>3 DEF InFlight, Undoing
<1>5. InFlight(a)' = rest \union errors'[a]
  BY <1>1 DEF InFlight, Batch, Undoing
<1>6. ASSUME Restore(a) PROVE Lands(a)
  <2>1. errors' = errors /\ disk' = [disk EXCEPT ![f] = snap[a][f]]
    BY <1>6 DEF Restore
  <2>2. f \notin rest \union errors[a]
    <3>1. \A i, j \in 1..Len(Batch(a)) : Batch(a)[i] = Batch(a)[j] => i = j
      BY <1>1, DistinctTargets DEF Whole
    <3>2. \A i \in 1..(count[a] - 1) : i \in 1..Len(Batch(a)) /\ i # count[a]
      BY <1>2
    <3>3. \A g \in errors[a] :
            \E i \in 1..Len(Batch(a)) : i > count[a] /\ g = Batch(a)[i]
      BY DEF Whole, Reported
    <3>4. f \notin rest
      BY <1>2, <3>1, <3>2
    <3>5. f \notin errors[a]
      BY <1>2, <3>1, <3>3
    <3>6. QED
      BY <3>4, <3>5
  <2>3. InFlight(a)' = InFlight(a) \ {f}
    BY <1>4, <1>5, <2>1, <2>2
  <2>4. f \in InFlight(a)
    BY <1>4
  <2>5. QED
    BY <2>1, <2>3, <2>4 DEF Lands
<1>7. ASSUME RestoreFails(a) PROVE StillFlying(a)
  <2>1. errors'[a] = errors[a] \union {f} /\ disk' = disk
    BY <1>7 DEF RestoreFails, IInv, TypeOK
  <2>2. InFlight(a)' = InFlight(a)
    BY <1>4, <1>5, <2>1
  <2>3. QED
    BY <2>1, <2>2 DEF StillFlying
<1>8. QED
  BY <1>6, <1>7

\* The steps by which an applier enters or leaves, or stays outside.
Outer(a) ==
  \/ Plan(a) \/ Capture(a) \/ Approve(a) \/ Discard(a)
  \/ Enter(a) \/ LockTimesOut(a)

Ending(a) ==
  Refuse(a) \/ PreflightRefuse(a) \/ Finish(a) \/ UndoEnds(a) \/ Kill(a)

\* The undisturbed steps: a rollback finds its payload where it has put it.
LEMMA UndisturbedSteps ==
  ASSUME Undisturbed, IInv, NEW a \in Applier, Whole(a), ApplierNext(a)
  PROVE  Inner(a) \/ Outer(a) \/ Ending(a)
<1>1. ~TmpUnlinkFails(a) /\ ~Interrupt(a) /\ ~InterruptUncaught(a)
  BY DEF Undisturbed, TmpUnlinkFails, Interrupt, InterruptUncaught
<1>2. ~UndoSkip(a)
  <2>1. SUFFICES ASSUME UndoSkip(a) PROVE FALSE
    OBVIOUS
  <2>2. /\ pc[a] \in Undoing /\ count[a] > 0
        /\ disk[LastTarget(a)] # New[a]
    BY <2>1 DEF UndoSkip, Undoing
  <2>3. /\ count[a] \in 1..count[a] /\ count[a] \in 1..Len(Batch(a))
        /\ Targets(Batch(a)) = {Batch(a)[i] : i \in 1..Len(Batch(a))}
    BY <2>2, BatchAtHand
  <2>4. LastTarget(a) \in InFlight(a) /\ LastTarget(a) \in Targets(Batch(a))
    BY <2>2, <2>3 DEF InFlight, LastTarget
  <2>5. QED
    BY <2>2, <2>4 DEF Whole, Placed
<1>3. QED
  BY <1>1, <1>2 DEF ApplierNext, ApplyStep, Inner, Outer, Ending

\* No step of applier a touches what others know, report or answer.
LEMMA AnswersAreLocal ==
  ASSUME IInv, NEW a \in Applier, Inner(a) \/ Outer(a) \/ Ending(a)
  PROVE  /\ \A b \in Applier \ {a} :
              errors'[b] = errors[b] /\ cause'[b] = cause[b]
         /\ outcome' \in [Applier -> Outcomes]
         /\ \A b \in Applier \ {a} : outcome'[b] = outcome[b]
<1>1. CASE Outer(a)
  BY <1>1 DEF Outer, Plan, Capture, Approve, Discard, Enter, LockTimesOut, IInv,
              TypeOK, Outcomes
<1>2. CASE Ending(a)
  <2>1. CASE Kill(a)
    BY <2>1 DEF Kill, IInv, TypeOK, Outcomes
  <2>2. CASE ~Kill(a)
    <3>1. PICK how \in Outcomes : EndApply(a, how)
      BY <1>2, <2>2
         DEF Ending, Refuse, PreflightRefuse, Finish, UndoEnds, Outcomes
    <3>2. QED
      BY <3>1 DEF EndApply, IInv, TypeOK
  <2>3. QED
    BY <2>1, <2>2
<1>3. CASE Inner(a)
  <2>1. outcome' = outcome
    BY <1>3 DEF Inner, Admit, PreflightPass, StartWriting, StageTemp, Link,
       FinalCheck, Replace, Record, Conflict, IoFails, UndoCheck, Restore,
       RestoreFails, Advance, Fail
  <2>2. /\ errors' = errors \/ RestoreFails(a)
        /\ cause' = cause \/ Conflict(a) \/ IoFails(a)
    BY <1>3 DEF Inner, Admit, PreflightPass, StartWriting, StageTemp, Link,
       FinalCheck, Replace, Record, Conflict, IoFails, UndoCheck, Restore,
       RestoreFails, Advance, Fail
  <2>3. QED
    BY <2>1, <2>2 DEF RestoreFails, Conflict, IoFails, Fail, IInv, TypeOK
<1>4. QED
  BY <1>1, <1>2, <1>3

\* What the steps inside of an apply keep.
LEMMA InnerFrame ==
  ASSUME Undisturbed, IInv, NEW a \in Applier, Whole(a), Inner(a)
  PROVE  /\ manifest' = manifest /\ outcome' = outcome
         /\ StillFlying(a) \/ TakesOff(a) \/ Lands(a)
         /\ StillFlying(a) \/ pc[a] \in Writing \union Undoing
         /\ pc[a] \in Writing \union Undoing =>
              snap' = snap /\ pc'[a] \in Writing \union Undoing
         /\ pc[a] \in Critical /\ pc'[a] \in Critical
<1>1. manifest' = manifest /\ outcome' = outcome
  BY DEF Inner, Admit, PreflightPass, StartWriting, StageTemp, Link,
     FinalCheck, Replace, Record, Conflict, IoFails, UndoCheck, Restore,
     RestoreFails, Advance, Fail
<1>2. CASE Admit(a) \/ PreflightPass(a) \/ StartWriting(a)
  <2>1. StillFlying(a)
    BY <1>2, QuietFlight
  <2>2. QED
    BY <1>1, <1>2, <2>1 DEF Admit, PreflightPass, StartWriting, Critical,
       Writing, Undoing, IInv, TypeOK
<1>3. CASE ~(Admit(a) \/ PreflightPass(a) \/ StartWriting(a))
  <2>1. pc[a] \in Writing \union Undoing /\ pc'[a] \in Writing \union Undoing
    BY <1>3 DEF Inner, StageTemp, Link, FinalCheck, Replace, Record, Conflict,
       IoFails, UndoCheck, Restore, RestoreFails, Advance, Fail, Writing,
       Undoing, IInv, TypeOK
  <2>2. snap' = snap
    BY <1>3 DEF Inner, StageTemp, Link, FinalCheck, Replace, Record, Conflict,
       IoFails, UndoCheck, Restore, RestoreFails, Advance, Fail
  <2>3. StillFlying(a) \/ TakesOff(a) \/ Lands(a)
    BY <1>3, CheckFlight, WriteFlight, RecordFlight, UndoFlight DEF Inner
  <2>4. QED
    BY <1>1, <2>1, <2>2, <2>3 DEF Critical
<1>4. QED
  BY <1>2, <1>3

\* Payload stays in flight or lands, and the other targets are as they were.
LEMMA InnerPlaced ==
  ASSUME Undisturbed, IInv, NEW a \in Applier, Whole(a), Inner(a)
  PROVE  Placed(a)'
<1>1. CASE pc[a] \in Writing \union Undoing
  <2>1. /\ manifest' = manifest /\ snap' = snap
        /\ StillFlying(a) \/ TakesOff(a) \/ Lands(a)
    BY <1>1, InnerFrame
  <2>2. /\ \A f \in Targets(Batch(a)) :
             disk[f] = IF f \in InFlight(a) THEN New[a] ELSE snap[a][f]
        /\ Targets(Batch(a)) \subseteq File
        /\ InFlight(a) \subseteq Targets(Batch(a))
    BY <1>1, BatchAtHand, FlightIsOfBatch DEF Whole, Placed
  <2>3. \A f \in Targets(Batch(a)) :
          disk'[f] = IF f \in InFlight(a)' THEN New[a] ELSE snap[a][f]
    <3>1. CASE StillFlying(a)
      BY <2>2, <3>1 DEF StillFlying
    <3>2. CASE TakesOff(a)
      <4>1. PICK g \in Targets(Batch(a)) :
              /\ disk' = [disk EXCEPT ![g] = New[a]]
              /\ InFlight(a)' = InFlight(a) \union {g}
        BY <3>2 DEF TakesOff
      <4>2. QED
        BY <2>2, <4>1 DEF IInv, TypeOK
    <3>3. CASE Lands(a)
      <4>1. PICK g \in InFlight(a) :
              /\ disk' = [disk EXCEPT ![g] = snap[a][g]]
              /\ InFlight(a)' = InFlight(a) \ {g}
        BY <3>3 DEF Lands
      <4>2. QED
        BY <2>2, <4>1 DEF IInv, TypeOK
    <3>4. QED
      BY <2>1, <3>1, <3>2, <3>3
  <2>4. Targets(Batch(a))' = Targets(Batch(a))
    BY <2>1 DEF Batch
  <2>5. QED
    BY <2>1, <2>3, <2>4 DEF Placed
<1>2. CASE StartWriting(a)
  <2>1. /\ count[a] = Len(Batch(a))
        /\ manifest' = manifest /\ snap' = snap /\ disk' = disk
    BY <1>2, BatchAtHand DEF StartWriting, MoreTargets
  <2>2. \A f \in Targets(Batch(a)) : disk[f] = snap[a][f]
    BY <1>2, <2>1, BatchAtHand DEF Whole, Seen, StartWriting
  <2>3. InFlight(a)' = {}
    BY <1>2, QuietFlight, FlightIsOfBatch
       DEF StillFlying, Whole, StartWriting, Writing, Undoing
  <2>4. Targets(Batch(a))' = Targets(Batch(a))
    BY <2>1 DEF Batch
  <2>5. QED
    BY <2>1, <2>2, <2>3, <2>4 DEF Placed
<1>3. CASE Admit(a) \/ PreflightPass(a)
  BY <1>3 DEF Admit, PreflightPass, Placed, Writing, Undoing, IInv, TypeOK
<1>4. QED
  BY <1>1, <1>2, <1>3, InnerFrame DEF Inner, StageTemp, Link, FinalCheck,
     Replace, Record, Conflict, IoFails, UndoCheck, Restore, RestoreFails,
     Advance, Fail, Writing, Undoing

\* Inside of an apply the loops keep track of what they have written.
LEMMA InnerWhole ==
  ASSUME Undisturbed, IInv, NEW a \in Applier, Whole(a), Inner(a)
  PROVE  Whole(a)'
<1>1. Seen(a)'
  <2>1. CASE PreflightPass(a)
    <3>1. /\ count[a] \in Nat /\ Len(Batch(a)) \in Nat
          /\ count[a] + 1 \in 1..Len(Batch(a))
          /\ NextTarget(a) = Batch(a)[count[a] + 1]
          /\ NextTarget(a) \in File
          /\ \A i \in 1..Len(Batch(a)) : Batch(a)[i] \in File
      BY <2>1, BatchAtHand DEF PreflightPass, MoreTargets, NextTarget
    <3>2. /\ snap'[a] = [snap[a] EXCEPT ![NextTarget(a)] = disk[NextTarget(a)]]
          /\ snap[a] \in [File -> Value]
          /\ count'[a] = count[a] + 1
          /\ disk' = disk /\ Batch(a)' = Batch(a)
          /\ pc[a] = "preflight"
      BY <2>1 DEF PreflightPass, IInv, TypeOK, Batch
    <3>3. ASSUME NEW i \in 1..(count[a] + 1)
          PROVE  snap'[a][Batch(a)[i]] = disk[Batch(a)[i]]
      <4>1. Batch(a)[i] \in File
        BY <3>1
      <4>2. CASE i = count[a] + 1
        BY <3>1, <3>2, <4>2
      <4>3. CASE i # count[a] + 1
        <5>1. i \in 1..count[a]
          BY <3>1, <4>3
        <5>2. snap[a][Batch(a)[i]] = disk[Batch(a)[i]]
          BY <3>2, <5>1 DEF Whole, Seen
        <5>3. QED
          BY <3>1, <3>2, <4>1, <5>2
      <4>4. QED
        BY <4>2, <4>3
    <3>4. QED
      BY <3>2, <3>3 DEF Seen
  <2>2. CASE Admit(a)
    <3>1. count'[a] = 0
      BY <2>2 DEF Admit, IInv, Row, Progress
    <3>2. QED
      BY <3>1 DEF Seen
  <2>3. CASE ~PreflightPass(a) /\ ~Admit(a)
    <3>1. pc'[a] # "preflight"
      BY <2>3, InnerFrame DEF Inner, StartWriting, StageTemp, Link, FinalCheck,
         Replace, Record, Conflict, IoFails, UndoCheck, Restore, RestoreFails,
         Advance, Fail, IInv, TypeOK
    <3>2. QED
      BY <3>1 DEF Seen
  <2>4. QED
    BY <2>1, <2>2, <2>3
<1>2. Reported(a)'
  <2>1. CASE RestoreFails(a)
    <3>1. /\ pc'[a] = "undo" /\ Batch(a)' = Batch(a)
          /\ count'[a] = count[a] - 1
          /\ errors'[a] = errors[a] \union {LastTarget(a)}
          /\ pc[a] = "restore"
      BY <2>1 DEF RestoreFails, IInv, TypeOK, Batch
    <3>2. /\ count[a] \in Nat /\ Len(Batch(a)) \in Nat
          /\ count[a] \in 1..Len(Batch(a))
          /\ LastTarget(a) = Batch(a)[count[a]]
      BY <3>1, BatchAtHand DEF IInv, Row, Progress, LastTarget
    <3>3. ASSUME NEW f \in errors'[a]
          PROVE  \E i \in 1..Len(Batch(a)) : i > count[a] - 1 /\ f = Batch(a)[i]
      <4>1. CASE f = LastTarget(a)
        BY <3>2, <4>1
      <4>2. CASE f \in errors[a]
        BY <3>2, <4>2 DEF Whole, Reported
      <4>3. QED
        BY <3>1, <3>3, <4>1, <4>2
    <3>4. QED
      BY <3>1, <3>3 DEF Reported, Undoing
  <2>2. CASE Restore(a)
    <3>1. /\ pc'[a] = "undo" /\ Batch(a)' = Batch(a)
          /\ count'[a] = count[a] - 1 /\ count[a] \in Nat
          /\ errors' = errors
      BY <2>2 DEF Restore, IInv, TypeOK, Batch
    <3>2. Len(Batch(a)) \in Nat
      BY BatchAtHand
    <3>3. QED
      BY <3>1, <3>2 DEF Whole, Reported, Undoing
  <2>3. CASE UndoCheck(a)
    BY <2>3 DEF UndoCheck, Advance, Whole, Reported, Undoing, Batch, IInv, TypeOK
  <2>4. CASE ~RestoreFails(a) /\ ~Restore(a) /\ ~UndoCheck(a)
    <3>1. errors' = errors /\ pc[a] \notin Undoing
      BY <2>4 DEF Inner, Admit, PreflightPass, StartWriting, StageTemp, Link,
         FinalCheck, Replace, Record, Conflict, IoFails, Advance, Fail, Undoing
    <3>2. QED
      BY <3>1 DEF Whole, Reported
  <2>5. QED
    BY <2>1, <2>2, <2>3, <2>4
<1>3. Planned(a)'
  BY InnerFrame DEF Whole, Planned, Batch, Critical, Writing, Undoing
<1>4. cause'[a] # "interrupt"
  <2>1. cause' = cause \/ cause' = [cause EXCEPT ![a] = "error"]
    BY DEF Inner, Admit, PreflightPass, StartWriting, StageTemp, Link,
       FinalCheck, Replace, Record, Conflict, IoFails, UndoCheck, Restore,
       RestoreFails, Advance, Fail
  <2>2. QED
    BY <2>1 DEF Whole, IInv, TypeOK
<1>5. QED
  BY <1>1, <1>2, <1>3, <1>4, InnerPlaced DEF Whole

\* Outside of an apply there is nothing to keep track of.
LEMMA OuterWhole ==
  ASSUME IInv, NEW a \in Applier, Whole(a), Outer(a)
  PROVE  Whole(a)' /\ pc[a] \in Before /\ pc'[a] \in Before \union {"check"}
<1>1. /\ pc[a] \in Before /\ pc'[a] \in Before \union {"check"}
      /\ errors' = errors /\ cause' = cause
  BY DEF Outer, Plan, Capture, Approve, Discard, Enter, LockTimesOut, Before,
     IInv, TypeOK
<1>2. errors[a] = {}
  BY <1>1 DEF Whole, Reported, Before, Undoing
<1>3. Seen(a)' /\ Placed(a)'
  BY <1>1 DEF Seen, Placed, Before, Writing, Undoing
<1>4. Reported(a)'
  BY <1>1, <1>2 DEF Reported
<1>5. Planned(a)'
  <2>1. CASE Plan(a)
    BY <2>1 DEF Plan, Planned, Batch, IInv, TypeOK
  <2>2. CASE Capture(a)
    BY <2>2 DEF Capture, Whole, Planned, Batch, IInv, TypeOK
  <2>3. CASE Approve(a) \/ Enter(a)
    BY <2>3 DEF Approve, Enter, Whole, Planned, Batch
  <2>4. CASE Discard(a) \/ LockTimesOut(a)
    BY <2>4 DEF Discard, LockTimesOut, Planned, IInv, TypeOK
  <2>5. QED
    BY <2>1, <2>2, <2>3, <2>4 DEF Outer
<1>6. QED
  BY <1>1, <1>3, <1>4, <1>5 DEF Whole

\* An apply that ends, in whatever way, starts the next one afresh.
LEMMA EndingWhole ==
  ASSUME IInv, NEW a \in Applier, Ending(a)
  PROVE  Whole(a)' /\ pc'[a] = "idle" /\ disk' = disk
<1>1. /\ pc'[a] = "idle" /\ errors'[a] = {} /\ cause'[a] = "none"
      /\ disk' = disk
  BY DEF Ending, Refuse, PreflightRefuse, Finish, UndoEnds, Kill, EndApply,
     IInv, TypeOK
<1>2. QED
  BY <1>1 DEF Whole, Seen, Placed, Reported, Planned, Writing, Undoing

\* Whoever is in its loops holds the lock, and nobody else writes.
LEMMA OthersWhole ==
  ASSUME IInv, NEW a \in Applier, ApplierNext(a),
         Inner(a) \/ Outer(a) \/ Ending(a),
         NEW b \in Applier \ {a}, Whole(b)
  PROVE  Whole(b)' /\ InFlight(b)' = InFlight(b)
<1>1. /\ SameRow(b) /\ errors'[b] = errors[b] /\ cause'[b] = cause[b]
      /\ disk' = disk \/ pc[a] \in Critical
  BY ApplierStepIsLocal, AnswersAreLocal
<1>2. InFlight(b)' = InFlight(b)
  BY <1>1 DEF SameRow, InFlight, Batch, NextTarget
<1>3. CASE disk' = disk
  BY <1>1, <1>2, <1>3
     DEF Whole, Seen, Placed, Reported, Planned, SameRow, Batch
<1>4. CASE pc[a] \in Critical
  <2>1. pc[b] \notin Critical
    BY <1>4 DEF IInv, CriticalHeld
  <2>2. QED
    BY <1>1, <1>2, <2>1
       DEF Whole, Seen, Placed, Reported, Planned, SameRow, Batch, Critical
<1>5. QED
  BY <1>1, <1>3, <1>4

\* Every undisturbed step keeps payloads in flight accounted for.
LEMMA WholeKept ==
  ASSUME Undisturbed, IInv, \A b \in Applier : Whole(b), [Next]_vars
  PROVE  \A b \in Applier : Whole(b)'
<1>1. ASSUME NEW a \in Applier, ApplierNext(a)
      PROVE  \A b \in Applier : Whole(b)'
  <2>1. Inner(a) \/ Outer(a) \/ Ending(a)
    BY <1>1, UndisturbedSteps
  <2>2. Whole(a)'
    BY <2>1, InnerWhole, OuterWhole, EndingWhole
  <2>3. \A b \in Applier \ {a} : Whole(b)'
    BY <1>1, <2>1, OthersWhole
  <2>4. QED
    BY <2>2, <2>3
<1>2. ASSUME NEW f \in File, NEW v \in Value, Edit(f, v)
      PROVE  FALSE
  BY <1>2 DEF Edit, Undisturbed
<1>3. CASE UNCHANGED vars
  BY <1>3 DEF vars, Whole, Seen, Placed, Reported, Planned, InFlight, Batch,
              NextTarget
<1>4. QED
  BY <1>1, <1>2, <1>3 DEF Next

\* Nothing is in flight when nobody has planned anything.
LEMMA WholeInitially == Init => \A b \in Applier : Whole(b)
BY DEF Init, Whole, Seen, Placed, Reported, Planned, Writing, Undoing

\* A rollback that ends without an error has put every target back, however
\* many writes it was past and wherever the failure was.
THEOREM RollbacksUndo ==
  ASSUME Undisturbed
  PROVE  Spec => FailedBatchIsUndone
<1> DEFINE Inv == IInv /\ \A b \in Applier : Whole(b)
           Undone == \A a \in Applier :
             pc[a] = "undo" /\ count[a] = 0 /\ pc'[a] = "idle" /\ errors[a] = {} =>
               \A f \in Targets(Batch(a)) : disk[f] = snap[a][f]
<1>1. Init => Inv
  BY InvariantInitially, WholeInitially
<1>2. Inv /\ [Next]_vars => Inv'
  BY InvariantKept, WholeKept
<1>3. Inv => Undone
  <2> SUFFICES ASSUME Inv, NEW a \in Applier,
                      pc[a] = "undo", count[a] = 0, errors[a] = {}
               PROVE  \A f \in Targets(Batch(a)) : disk[f] = snap[a][f]
    OBVIOUS
  <2>1. InFlight(a) = {}
    BY DEF InFlight, Undoing
  <2>2. QED
    BY <2>1 DEF Whole, Placed, Undoing
<1>4. QED
  <2>1. Inv /\ [Next]_vars => [Undone]_vars
    BY <1>3
  <2>2. QED
    BY <1>1, <1>2, <2>1, PTL DEF Spec, FailedBatchIsUndone

-----------------------------------------------------------------------------
(* What a rollback overlooks                                               *)
(*                                                                         *)
(* All faults and all edits are allowed here, but that the user does not   *)
(* write the payload of a batch himself: then it could not be told apart.  *)

PayloadIsOurs == \A a \in Applier, e \in UserEdits : e[2] # New[a]

\* Payload that the preflight comes upon is in its snapshot.
NoPayloadYet(a) ==
  pc[a] = "preflight" =>
    \A i \in 1..count[a] :
      disk[Batch(a)[i]] = New[a] => snap[a][Batch(a)[i]] = New[a]

\* While it writes, an applier knows where its payload is.
NoStrays(a) == pc[a] \in Writing => Strays(a) = {}

\* OnlyTheLastWriteStrays of one applier.
LastWriteStrays(a) ==
  pc[a] \in Undoing =>
    \A f \in Strays(a) :
      /\ cause[a] = "error" => snap[a][f] = Absent
      /\ \A g \in Strays(a) : f = g

Tidy(a) == NoPayloadYet(a) /\ NoStrays(a) /\ LastWriteStrays(a)

\* The steps that leave the loops or stay outside of them.
LEMMA LeavingIsTidy ==
  ASSUME IInv, NEW a \in Applier,
         \/ Outer(a) \/ Ending(a) \/ InterruptUncaught(a) \/ Admit(a)
  PROVE  Tidy(a)'
<1>1. CASE Outer(a) \/ Ending(a) \/ InterruptUncaught(a)
  <2>1. pc'[a] \in Before \union {"check"}
    BY <1>1 DEF Outer, Plan, Capture, Approve, Discard, Enter, LockTimesOut,
       Ending, Refuse, PreflightRefuse, Finish, UndoEnds, Kill,
       InterruptUncaught, EndApply, Before, IInv, TypeOK
  <2>2. QED
    BY <2>1 DEF Tidy, NoPayloadYet, NoStrays, LastWriteStrays, Before,
       Writing, Undoing
<1>2. CASE Admit(a)
  <2>1. pc'[a] = "preflight" /\ count'[a] = 0
    BY <1>2 DEF Admit, IInv, Row, Progress, TypeOK
  <2>2. QED
    BY <2>1 DEF Tidy, NoPayloadYet, NoStrays, LastWriteStrays, Writing, Undoing
<1>3. QED
  BY <1>1, <1>2

\* The preflight takes one more target into its snapshot, then it is complete.
LEMMA PreflightIsTidy ==
  ASSUME IInv, NEW a \in Applier, Tidy(a), PreflightPass(a) \/ StartWriting(a)
  PROVE  Tidy(a)'
<1>1. \A i \in 1..count[a] :
        disk[Batch(a)[i]] = New[a] => snap[a][Batch(a)[i]] = New[a]
  BY DEF PreflightPass, StartWriting, Tidy, NoPayloadYet
<1>2. CASE PreflightPass(a)
  <2>1. /\ count[a] \in Nat /\ Len(Batch(a)) \in Nat
        /\ count[a] + 1 \in 1..Len(Batch(a))
        /\ NextTarget(a) = Batch(a)[count[a] + 1]
        /\ \A i \in 1..Len(Batch(a)) : Batch(a)[i] \in File
    BY <1>2, BatchAtHand DEF PreflightPass, MoreTargets, NextTarget
  <2>2. /\ snap'[a] = [snap[a] EXCEPT ![NextTarget(a)] = disk[NextTarget(a)]]
        /\ snap[a] \in [File -> Value]
        /\ count'[a] = count[a] + 1
        /\ disk' = disk /\ Batch(a)' = Batch(a)
        /\ pc'[a] = "preflight"
    BY <1>2 DEF PreflightPass, IInv, TypeOK, Batch
  <2>3. ASSUME NEW i \in 1..(count[a] + 1), disk[Batch(a)[i]] = New[a]
        PROVE  snap'[a][Batch(a)[i]] = New[a]
    <3>1. Batch(a)[i] \in File
      BY <2>1
    <3>2. CASE i = count[a] + 1
      BY <2>1, <2>2, <2>3, <3>1, <3>2
    <3>3. CASE i \in 1..count[a]
      BY <1>1, <2>2, <2>3, <3>1, <3>3
    <3>4. QED
      BY <2>1, <3>2, <3>3
  <2>4. QED
    BY <2>2, <2>3
       DEF Tidy, NoPayloadYet, NoStrays, LastWriteStrays, Writing, Undoing
<1>3. CASE StartWriting(a)
  <2>1. /\ count[a] = Len(Batch(a))
        /\ manifest' = manifest /\ snap' = snap /\ disk' = disk
        /\ pc'[a] = "write"
    BY <1>3, BatchAtHand DEF StartWriting, MoreTargets, IInv, TypeOK
  <2>2. \A f \in Targets(Batch(a)) : disk[f] = New[a] => snap[a][f] = New[a]
    BY <1>1, <2>1, BatchAtHand
  <2>3. Strays(a)' = {}
    BY <2>1, <2>2 DEF Strays, Batch
  <2>4. QED
    BY <2>1, <2>3 DEF Tidy, NoPayloadYet, NoStrays, LastWriteStrays, Undoing
<1>4. QED
  BY <1>2, <1>3

\* Writing: a target that gets the payload is in flight.
LEMMA WritingIsTidy ==
  ASSUME IInv, NEW a \in Applier, Tidy(a),
         \/ StageTemp(a) \/ FinalCheck(a) \/ Link(a) \/ Replace(a)
         \/ Record(a)
  PROVE  Tidy(a)'
<1>1. /\ pc[a] \in Writing /\ pc'[a] \in Writing
      /\ manifest' = manifest /\ snap' = snap
  BY DEF StageTemp, FinalCheck, Link, Replace, Record, Advance, Writing, IInv,
     TypeOK
<1>2. /\ InFlight(a) \subseteq InFlight(a)'
      /\ \A f \in File \ InFlight(a)' : disk'[f] = disk[f]
  <2>1. CASE StageTemp(a) \/ FinalCheck(a)
    <3>1. /\ disk' = disk /\ count' = count
          /\ pc[a] \in {"write", "swap"} /\ pc'[a] \in {"swap", "replace"}
      BY <2>1 DEF StageTemp, FinalCheck, Advance, IInv, TypeOK
    <3>2. QED
      BY <1>1, <3>1 DEF InFlight, Batch, Writing, Undoing
  <2>2. CASE Link(a) \/ Replace(a)
    <3>1. /\ disk' = [disk EXCEPT ![NextTarget(a)] = New[a]]
          /\ count' = count
          /\ pc[a] \in {"swap", "replace"} /\ pc'[a] = "record"
      BY <2>2 DEF Link, Replace, Advance, IInv, TypeOK
    <3>2. NextTarget(a)' = NextTarget(a)
      BY <1>1, <3>1 DEF NextTarget, Batch
    <3>3. /\ InFlight(a) \subseteq InFlight(a)'
          /\ NextTarget(a) \in InFlight(a)'
      BY <1>1, <3>1, <3>2 DEF InFlight, Batch, Writing, Undoing
    <3>4. QED
      BY <3>1, <3>3
  <2>3. CASE Record(a)
    BY <2>3, RecordFlight DEF StillFlying
  <2>4. QED
    BY <2>1, <2>2, <2>3
<1>3. Strays(a) = {} /\ Targets(Batch(a)) \subseteq File
  BY <1>1, BatchAtHand DEF Tidy, NoStrays
<1>4. Targets(Batch(a))' = Targets(Batch(a))
  BY <1>1 DEF Batch
<1>5. Strays(a)' = {}
  BY <1>1, <1>2, <1>3, <1>4 DEF Strays
<1>6. QED
  BY <1>1, <1>5
     DEF Tidy, NoPayloadYet, NoStrays, LastWriteStrays, Writing, Undoing

\* A write fails: if it had taken effect, its target is the one that strays.
LEMMA FailingIsTidy ==
  ASSUME IInv, NEW a \in Applier, Tidy(a),
         Conflict(a) \/ IoFails(a) \/ TmpUnlinkFails(a) \/ Interrupt(a)
  PROVE  Tidy(a)'
<1> DEFINE written == {Batch(a)[i] : i \in 1..count[a]}
<1>1. /\ pc[a] \in Writing /\ pc'[a] = "undo"
      /\ UNCHANGED <<disk, manifest, approved, snap, count, errors>>
  BY DEF Conflict, IoFails, TmpUnlinkFails, Interrupt, Fail, Writing, IInv,
     TypeOK
<1>2. /\ InFlight(a) \subseteq written \union {NextTarget(a)}
      /\ pc[a] # "record" => InFlight(a) = written
      /\ InFlight(a)' = written \union errors[a]
  BY <1>1 DEF InFlight, Batch, Writing, Undoing
<1>3. Strays(a) = {} /\ Targets(Batch(a))' = Targets(Batch(a))
  BY <1>1 DEF Tidy, NoStrays, Batch
<1>4. \A f \in Strays(a)' :
        pc[a] = "record" /\ f = NextTarget(a) /\ f \in Targets(Batch(a))
  BY <1>1, <1>2, <1>3 DEF Strays
<1>5. ASSUME cause'[a] = "error", NEW f \in Strays(a)'
      PROVE  snap'[a][f] = Absent
  <2>1. pc[a] = "record" /\ f = NextTarget(a) /\ f \in Targets(Batch(a))
    BY <1>4, <1>5
  <2>2. TmpUnlinkFails(a)
    BY <2>1, <1>5
       DEF Conflict, IoFails, TmpUnlinkFails, Interrupt, Fail, IInv, TypeOK
  <2>3. manifest[a].expect[f] = Absent
    BY <2>1, <2>2 DEF TmpUnlinkFails
  <2>4. manifest[a] = approved[a] /\ snap[a][f] = approved[a].expect[f]
    BY <1>1, <2>1 DEF IInv, Row, Preimage
  <2>5. QED
    BY <1>1, <2>3, <2>4
<1>6. LastWriteStrays(a)'
  BY <1>4, <1>5 DEF LastWriteStrays
<1>7. QED
  BY <1>1, <1>6 DEF Tidy, NoPayloadYet, NoStrays, Writing

\* The rollback restores what it passes, or reports it.
LEMMA UndoingIsTidy ==
  ASSUME IInv, NEW a \in Applier, Tidy(a),
         UndoSkip(a) \/ UndoCheck(a) \/ Restore(a) \/ RestoreFails(a)
  PROVE  Tidy(a)'
<1>1. /\ pc[a] \in Undoing /\ pc'[a] \in Undoing
      /\ manifest' = manifest /\ snap' = snap /\ cause' = cause
      /\ Batch(a)' = Batch(a)
  BY DEF UndoSkip, UndoCheck, Restore, RestoreFails, Advance, Undoing, IInv,
     TypeOK, Batch
<1>2. /\ count[a] \in Nat /\ count[a] > 0 /\ Targets(Batch(a)) \subseteq File
      /\ LastTarget(a) \in File
  BY BatchAtHand
     DEF UndoSkip, UndoCheck, Restore, RestoreFails, IInv, Row, Progress
<1>3. /\ InFlight(a) = {Batch(a)[i] : i \in 1..count[a]} \union errors[a]
      /\ InFlight(a)' = {Batch(a)[i] : i \in 1..count'[a]} \union errors'[a]
  BY <1>1 DEF InFlight, Undoing
<1>4. 1..count[a] = (1..(count[a] - 1)) \union {count[a]}
  BY <1>2
<1>5. \/ /\ disk' = disk
         /\ InFlight(a) \subseteq InFlight(a)'
      \/ /\ disk' = [disk EXCEPT ![LastTarget(a)] = snap[a][LastTarget(a)]]
         /\ InFlight(a) \subseteq InFlight(a)' \union {LastTarget(a)}
  <2>1. CASE UndoCheck(a)
    BY <1>3, <2>1 DEF UndoCheck, Advance
  <2>2. CASE UndoSkip(a) \/ RestoreFails(a)
    <3>1. /\ disk' = disk /\ count'[a] = count[a] - 1
          /\ errors'[a] = errors[a] \union {LastTarget(a)}
      BY <2>2 DEF UndoSkip, RestoreFails, IInv, TypeOK
    <3>2. QED
      BY <1>3, <1>4, <3>1 DEF LastTarget
  <2>3. CASE Restore(a)
    <3>1. /\ disk' = [disk EXCEPT ![LastTarget(a)] = snap[a][LastTarget(a)]]
          /\ count'[a] = count[a] - 1 /\ errors' = errors
      BY <2>3 DEF Restore, IInv, TypeOK
    <3>2. QED
      BY <1>3, <1>4, <3>1 DEF LastTarget
  <2>4. QED
    BY <2>1, <2>2, <2>3
<1>6. disk \in [File -> Value]
  BY DEF IInv, TypeOK
<1>7. Strays(a)' \subseteq Strays(a)
  BY <1>1, <1>2, <1>5, <1>6 DEF Strays
<1>8. LastWriteStrays(a)'
  BY <1>1, <1>7 DEF Tidy, LastWriteStrays
<1>9. QED
  BY <1>1, <1>8 DEF Tidy, NoPayloadYet, NoStrays, Writing, Undoing

\* Every step keeps its own applier tidy.
LEMMA OwnStepIsTidy ==
  ASSUME IInv, NEW a \in Applier, Tidy(a), ApplierNext(a)
  PROVE  Tidy(a)'
BY LeavingIsTidy, PreflightIsTidy, WritingIsTidy, FailingIsTidy, UndoingIsTidy
   DEF ApplierNext, ApplyStep, Outer, Ending

\* No step of applier a touches what the rollback of another has reported.
LEMMA ReportsAreLocal ==
  ASSUME IInv, NEW a \in Applier, ApplierNext(a), NEW b \in Applier \ {a}
  PROVE  errors'[b] = errors[b] /\ cause'[b] = cause[b]
<1>1. CASE Inner(a) \/ Outer(a) \/ Ending(a)
  BY <1>1, AnswersAreLocal
<1>2. CASE TmpUnlinkFails(a) \/ Interrupt(a) \/ UndoSkip(a)
  BY <1>2 DEF TmpUnlinkFails, Interrupt, UndoSkip, Fail, IInv, TypeOK
<1>3. CASE InterruptUncaught(a)
  BY <1>3 DEF InterruptUncaught, EndApply, IInv, TypeOK
<1>4. QED
  BY <1>1, <1>2, <1>3 DEF ApplierNext, ApplyStep, Inner, Outer, Ending

\* Nobody else writes while an applier is in its loops.
LEMMA OthersStayTidy ==
  ASSUME IInv, NEW a \in Applier, ApplierNext(a), NEW b \in Applier \ {a},
         Tidy(b)
  PROVE  Tidy(b)'
<1>1. /\ SameRow(b) /\ errors'[b] = errors[b] /\ cause'[b] = cause[b]
      /\ disk' = disk \/ pc[a] \in Critical
  BY ApplierStepIsLocal, ReportsAreLocal
<1>2. CASE disk' = disk
  <2>1. Strays(b)' = Strays(b)
    BY <1>1, <1>2 DEF Strays, InFlight, SameRow, Batch, NextTarget
  <2>2. QED
    BY <1>1, <1>2, <2>1
       DEF Tidy, NoPayloadYet, NoStrays, LastWriteStrays, SameRow, Batch
<1>3. CASE pc[a] \in Critical
  <2>1. pc[b] \notin Critical
    BY <1>3 DEF IInv, CriticalHeld
  <2>2. QED
    BY <1>1, <2>1
       DEF Tidy, NoPayloadYet, NoStrays, LastWriteStrays, SameRow, Critical
<1>4. QED
  BY <1>1, <1>2, <1>3

\* The user's edits bring no payload.
LEMMA EditsAreTidy ==
  ASSUME PayloadIsOurs, IInv, NEW f \in File, NEW v \in Value, Edit(f, v),
         NEW b \in Applier, Tidy(b)
  PROVE  Tidy(b)'
<1>1. /\ UNCHANGED <<pc, manifest, snap, count, cause, errors>>
      /\ disk' = [disk EXCEPT ![f] = v] /\ disk \in [File -> Value]
  BY DEF Edit, IInv, TypeOK
<1>2. v # New[b]
  <2>1. <<f, v>> \in UserEdits /\ <<f, v>>[2] = v
    BY DEF Edit
  <2>2. QED
    BY <2>1 DEF PayloadIsOurs
<1>3. /\ Batch(b)' = Batch(b) /\ InFlight(b)' = InFlight(b)
      /\ Targets(Batch(b)) \subseteq File
      /\ \A i \in 1..Len(Batch(b)) : Batch(b)[i] \in File
      /\ count[b] \in Nat /\ count[b] <= Len(Batch(b)) /\ Len(Batch(b)) \in Nat
  <2>1. Batch(b)' = Batch(b) /\ InFlight(b)' = InFlight(b)
    BY <1>1 DEF Batch, InFlight, NextTarget
  <2>2. Targets(Batch(b)) = {Batch(b)[i] : i \in 1..Len(Batch(b))}
    BY BatchAtHand
  <2>3. QED
    BY <2>1, <2>2, BatchAtHand
<1>4. Strays(b)' \subseteq Strays(b)
  BY <1>1, <1>2, <1>3 DEF Strays
<1>5. NoPayloadYet(b)'
  <2>1. \A i \in 1..count[b] : Batch(b)[i] \in File
    BY <1>3
  <2>2. QED
    BY <1>1, <1>2, <1>3, <2>1 DEF Tidy, NoPayloadYet
<1>6. QED
  BY <1>1, <1>4, <1>5 DEF Tidy, NoStrays, LastWriteStrays

\* Whatever the faults, and whatever the user does but writing the payload
\* himself: a rollback overlooks at most the write that was under way, and after
\* an error no file that had been there before.
THEOREM RollbacksOverlookOneWrite ==
  ASSUME PayloadIsOurs
  PROVE  Spec => []OnlyTheLastWriteStrays
<1> DEFINE Inv == IInv /\ \A b \in Applier : Tidy(b)
<1>1. Init => Inv
  <2>1. Init => \A b \in Applier : Tidy(b)
    BY DEF Init, Tidy, NoPayloadYet, NoStrays, LastWriteStrays, Writing, Undoing
  <2>2. QED
    BY <2>1, InvariantInitially
<1>2. Inv /\ [Next]_vars => Inv'
  <2> SUFFICES ASSUME Inv, [Next]_vars PROVE \A b \in Applier : Tidy(b)'
    BY InvariantKept
  <2>1. ASSUME NEW a \in Applier, ApplierNext(a)
        PROVE  \A b \in Applier : Tidy(b)'
    BY <2>1, OwnStepIsTidy, OthersStayTidy
  <2>2. ASSUME NEW f \in File, NEW v \in Value, Edit(f, v)
        PROVE  \A b \in Applier : Tidy(b)'
    BY <2>2, EditsAreTidy
  <2>3. CASE UNCHANGED vars
    BY <2>3 DEF vars, Tidy, NoPayloadYet, NoStrays, LastWriteStrays, Strays,
                InFlight, Batch, NextTarget
  <2>4. QED
    BY <2>1, <2>2, <2>3 DEF Next
<1>3. Inv => OnlyTheLastWriteStrays
  BY DEF OnlyTheLastWriteStrays, Tidy, LastWriteStrays
<1>4. QED
  BY <1>1, <1>2, <1>3, PTL DEF Spec

-----------------------------------------------------------------------------
(* The end of an apply                                                     *)
(*                                                                         *)
(* ApplyEnds itself is about fairness and stays with the model checker.    *)
(* What it rests on is that an apply has finitely many steps before it:    *)
(* at most one per target in the preflight, four to write it and two to    *)
(* undo it, and three between the loops, however edits, errors and         *)
(* interrupts fall.                                                        *)

StepsLeft(a) ==
  LET n == Len(Batch(a)) IN
  CASE pc[a] = "check"     -> 7 * n + 3
    [] pc[a] = "preflight" -> 6 * n + 2 + (n - count[a])
    [] pc[a] = "write"     -> 2 * n + 1 + 4 * (n - count[a])
    [] pc[a] = "swap"      -> 2 * n + 4 * (n - count[a])
    [] pc[a] = "replace"   -> 2 * n + 4 * (n - count[a]) - 1
    [] pc[a] = "record"    -> 2 * n + 4 * (n - count[a]) - 2
    [] pc[a] = "undo"      -> 2 * count[a]
    [] pc[a] = "restore"   -> 2 * count[a] - 1
    [] OTHER               -> 0

\* An apply has never more than a number of steps before it that is known when
\* it starts, and each of its steps, failures included, takes one away.
StepsAreBounded == \A a \in Applier : StepsLeft(a) \in 0..(7 * Len(Batch(a)) + 3)

StepsRunOut ==
  \A a \in Applier : pc[a] \in Critical /\ pc'[a] \in Critical =>
    IF ApplierNext(a) THEN StepsLeft(a)' < StepsLeft(a)
    ELSE StepsLeft(a)' = StepsLeft(a)

\* The numbers that StepsLeft computes with.
LEMMA LoopBounds ==
  ASSUME IInv, NEW a \in Applier
  PROVE  /\ Len(Batch(a)) \in Nat /\ count[a] \in Nat
         /\ count[a] <= Len(Batch(a))
         /\ pc[a] = "check" => count[a] = 0
         /\ pc[a] \in {"swap", "replace", "record"} => count[a] < Len(Batch(a))
         /\ pc[a] = "restore" => count[a] > 0
BY BatchAtHand DEF IInv, Row, Progress, MoreTargets

\* No number of steps is negative.
LEMMA BoundsHold == IInv => StepsAreBounded
<1> SUFFICES ASSUME IInv, NEW a \in Applier
             PROVE  StepsLeft(a) \in 0..(7 * Len(Batch(a)) + 3)
  BY DEF StepsAreBounded
<1> DEFINE n == Len(Batch(a))
<1>1. /\ n \in Nat /\ count[a] \in Nat /\ count[a] <= n
      /\ pc[a] \in {"swap", "replace", "record"} => count[a] < n
      /\ pc[a] = "restore" => count[a] > 0
  BY LoopBounds
<1>2. \/ StepsLeft(a) = 7 * n + 3
      \/ StepsLeft(a) = 6 * n + 2 + (n - count[a])
      \/ StepsLeft(a) = 2 * n + 1 + 4 * (n - count[a])
      \/ /\ pc[a] \in {"swap", "replace", "record"}
         /\ \E k \in 0..2 : StepsLeft(a) = 2 * n + 4 * (n - count[a]) - k
      \/ StepsLeft(a) = 2 * count[a]
      \/ pc[a] = "restore" /\ StepsLeft(a) = 2 * count[a] - 1
      \/ StepsLeft(a) = 0
  <2>1. n \in Nat /\ count[a] \in Nat
    BY <1>1
  <2> HIDE DEF n
  <2>2. n = Len(Batch(a))
    BY DEF n
  <2>3. CASE pc[a] \in {"swap", "replace", "record"}
    <3>1. \/ StepsLeft(a) = 2 * n + 4 * (n - count[a]) - 0
          \/ StepsLeft(a) = 2 * n + 4 * (n - count[a]) - 1
          \/ StepsLeft(a) = 2 * n + 4 * (n - count[a]) - 2
      BY <2>1, <2>2, <2>3 DEF StepsLeft
    <3>2. QED
      BY <2>3, <3>1
  <2>4. CASE pc[a] \notin {"swap", "replace", "record"}
    BY <2>2, <2>4 DEF StepsLeft
  <2>5. QED
    BY <2>3, <2>4
<1> HIDE DEF n
<1>3. StepsLeft(a) \in 0..(7 * n + 3)
  BY <1>1, <1>2
<1>4. QED
  BY <1>3 DEF n

\* A step that stays inside of the apply takes a step away.
LEMMA StepTaken ==
  ASSUME IInv, NEW a \in Applier, ApplierNext(a),
         pc[a] \in Critical, pc'[a] \in Critical
  PROVE  StepsLeft(a)' < StepsLeft(a)
<1> DEFINE n == Len(Batch(a))
<1>1. /\ n \in Nat /\ count[a] \in Nat /\ count[a] <= n
      /\ pc[a] = "check" => count[a] = 0
      /\ pc[a] \in {"swap", "replace", "record"} => count[a] < n
      /\ pc[a] = "restore" => count[a] > 0
  BY LoopBounds
<1>2. CASE Admit(a)
  <2>1. /\ pc[a] = "check" /\ pc'[a] = "preflight"
        /\ count' = count /\ manifest' = manifest
    BY <1>2 DEF Admit, IInv, TypeOK
  <2>2. QED
    BY <1>1, <2>1 DEF StepsLeft, Batch
<1>3. CASE PreflightPass(a)
  <2>1. /\ pc[a] = "preflight" /\ pc'[a] = "preflight"
        /\ count'[a] = count[a] + 1 /\ manifest' = manifest /\ count[a] < n
    BY <1>3 DEF PreflightPass, MoreTargets, IInv, TypeOK
  <2>2. QED
    BY <1>1, <2>1 DEF StepsLeft, Batch
<1>4. CASE StartWriting(a)
  <2>1. /\ pc[a] = "preflight" /\ pc'[a] = "write"
        /\ count'[a] = 0 /\ manifest' = manifest
    BY <1>4 DEF StartWriting, IInv, TypeOK
  <2>2. QED
    BY <1>1, <2>1 DEF StepsLeft, Batch
<1>5. CASE StageTemp(a) \/ FinalCheck(a) \/ Link(a) \/ Replace(a)
  <2>1. /\ \/ pc[a] = "write" /\ pc'[a] = "swap"
           \/ pc[a] = "swap" /\ pc'[a] \in {"replace", "record"}
           \/ pc[a] = "replace" /\ pc'[a] = "record"
        /\ count' = count /\ manifest' = manifest
    BY <1>5 DEF StageTemp, FinalCheck, Link, Replace, Advance, IInv, TypeOK
  <2>2. n \in Nat /\ count[a] \in Nat /\ n' = n /\ count'[a] = count[a]
    BY <1>1, <2>1 DEF Batch
  <2> DEFINE m == 2 * n + 4 * (n - count[a])
  <2>3. m \in Nat /\ m' = m
    BY <1>1, <2>2
  <2>4. /\ pc[a] = "write" => StepsLeft(a) = 2 * n + 1 + 4 * (n - count[a])
        /\ pc[a] = "swap" => StepsLeft(a) = m
        /\ pc[a] = "replace" => StepsLeft(a) = m - 1
    BY <1>1, <2>1, <2>2 DEF StepsLeft
  <2>5. /\ pc'[a] = "swap" => StepsLeft(a)' = m
        /\ pc'[a] = "replace" => StepsLeft(a)' = m - 1
        /\ pc'[a] = "record" => StepsLeft(a)' = m - 2
    BY <2>1, <2>2 DEF StepsLeft
  <2>6. 2 * n + 1 + 4 * (n - count[a]) = m + 1
    BY <2>2
  <2> HIDE DEF m, n
  <2>7. QED
    BY <2>1, <2>3, <2>4, <2>5, <2>6
<1>6. CASE Record(a)
  <2>1. /\ pc[a] = "record" /\ pc'[a] = "write"
        /\ count'[a] = count[a] + 1 /\ manifest' = manifest
    BY <1>6 DEF Record, IInv, TypeOK
  <2>2. QED
    BY <1>1, <2>1 DEF StepsLeft, Batch
<1>7. CASE Conflict(a) \/ IoFails(a) \/ TmpUnlinkFails(a) \/ Interrupt(a)
  <2>1. /\ pc[a] \in Writing /\ pc'[a] = "undo"
        /\ count' = count /\ manifest' = manifest
    BY <1>7 DEF Conflict, IoFails, TmpUnlinkFails, Interrupt, Fail, Writing,
       IInv, TypeOK
  <2>2. StepsLeft(a)' = 2 * count[a]
    BY <2>1 DEF StepsLeft
  <2>3. \/ StepsLeft(a) = 2 * n + 1 + 4 * (n - count[a])
        \/ /\ count[a] < n
           /\ \/ StepsLeft(a) = 2 * n + 4 * (n - count[a])
              \/ StepsLeft(a) = 2 * n + 4 * (n - count[a]) - 1
              \/ StepsLeft(a) = 2 * n + 4 * (n - count[a]) - 2
    BY <1>1, <2>1 DEF StepsLeft, Writing
  <2> HIDE DEF n
  <2>4. QED
    BY <1>1, <2>2, <2>3
<1>8. CASE UndoCheck(a)
  <2>1. /\ pc[a] = "undo" /\ pc'[a] = "restore"
        /\ count' = count /\ manifest' = manifest
    BY <1>8 DEF UndoCheck, Advance, IInv, TypeOK
  <2>2. QED
    BY <1>1, <2>1 DEF StepsLeft, Batch
<1>9. CASE UndoSkip(a) \/ Restore(a) \/ RestoreFails(a)
  <2>1. /\ \/ pc[a] = "undo" /\ count[a] > 0
           \/ pc[a] = "restore"
        /\ pc'[a] = "undo"
        /\ count'[a] = count[a] - 1 /\ manifest' = manifest
    BY <1>9 DEF UndoSkip, Restore, RestoreFails, IInv, TypeOK
  <2>2. QED
    BY <1>1, <2>1 DEF StepsLeft, Batch
<1>10. CASE Outer(a)
  <2>1. pc[a] \notin Critical
    BY <1>10 DEF Outer, Plan, Capture, Approve, Discard, Enter, LockTimesOut,
       Critical, Writing, Undoing
  <2>2. QED
    BY <2>1
<1>11. CASE Ending(a) \/ InterruptUncaught(a)
  <2>1. pc'[a] = "idle"
    BY <1>11 DEF Ending, Refuse, PreflightRefuse, Finish, UndoEnds, Kill,
       InterruptUncaught, EndApply, IInv, TypeOK
  <2>2. QED
    BY <2>1 DEF Critical, Writing, Undoing
<1>12. QED
  BY <1>2, <1>3, <1>4, <1>5, <1>6, <1>7, <1>8, <1>9, <1>10, <1>11
     DEF ApplierNext, ApplyStep, Outer, Ending

\* An apply of n writes ends within 7n + 3 steps of its own, however writes
\* fail, users edit or interrupts arrive: nothing makes it start over.
THEOREM AppliesRunOut == Spec => []StepsAreBounded /\ [][StepsRunOut]_vars
<1>1. IInv /\ [Next]_vars => [StepsRunOut]_vars
  <2> SUFFICES ASSUME IInv, Next, NEW a \in Applier,
                      pc[a] \in Critical, pc'[a] \in Critical
               PROVE  IF ApplierNext(a) THEN StepsLeft(a)' < StepsLeft(a)
                      ELSE StepsLeft(a)' = StepsLeft(a)
    BY DEF StepsRunOut
  <2>1. CASE ApplierNext(a)
    BY <2>1, StepTaken
  <2>2. CASE ~ApplierNext(a)
    <3>1. ASSUME NEW b \in Applier, ApplierNext(b)
          PROVE  SameRow(a)
      BY <2>2, <3>1, ApplierStepIsLocal
    <3>2. pc'[a] = pc[a] /\ count'[a] = count[a] /\ manifest'[a] = manifest[a]
      BY <3>1 DEF Next, Edit, SameRow
    <3>3. QED
      BY <2>2, <3>2 DEF StepsLeft, Batch
  <2>3. QED
    BY <2>1, <2>2
<1>2. QED
  BY <1>1, BoundsHold, Invariance, PTL DEF Spec

-----------------------------------------------------------------------------
(* The refinement                                                          *)

\* The files and answers as AtomicBatch has them.
Store ==
  [f \in File |->
     IF \E a \in Applier : f \in InFlight(a)
     THEN snap[CHOOSE a \in Applier : f \in InFlight(a)][f]
     ELSE disk[f]]
Answer ==
  [a \in Applier |->
     IF outcome[a] \in {"refused", "rolledback"} THEN "unchanged"
     ELSE IF outcome[a] \in {"dirty", "interrupted", "killed"} THEN "unknown"
     ELSE outcome[a]]

Sound == IInv /\ \A b \in Applier : Whole(b)

\* One applier at most has payload in flight; beneath it is the old content.
StoreRule ==
  /\ \A a \in Applier : pc[a] \in Critical =>
       Store = [f \in File |-> IF f \in InFlight(a) THEN snap[a][f] ELSE disk[f]]
  /\ (\A b \in Applier : InFlight(b) = {}) => Store = [f \in File |-> disk[f]]

\* Reading the store when somebody, or nobody, has payload in flight.
LEMMA StoreRuleHolds == Sound => StoreRule
<1> SUFFICES ASSUME Sound PROVE StoreRule
  OBVIOUS
<1>1. ASSUME NEW a \in Applier, pc[a] \in Critical
      PROVE  Store = [f \in File |->
                        IF f \in InFlight(a) THEN snap[a][f] ELSE disk[f]]
  <2>1. ASSUME NEW b \in Applier, b # a
        PROVE  InFlight(b) = {}
    <3>1. pc[b] \notin Critical
      BY <1>1, <2>1 DEF Sound, IInv, CriticalHeld
    <3>2. QED
      BY <3>1, FlightIsOfBatch DEF Sound, Whole, Critical
  <2>2. ASSUME NEW f \in File, f \in InFlight(a)
        PROVE  (CHOOSE b \in Applier : f \in InFlight(b)) = a
    BY <2>1, <2>2
  <2>3. QED
    BY <2>1, <2>2 DEF Store
<1>2. ASSUME \A b \in Applier : InFlight(b) = {}
      PROVE  Store = [f \in File |-> disk[f]]
  BY <1>2 DEF Store
<1>3. QED
  BY <1>1, <1>2 DEF StoreRule

\* A batch in progress does not show in the store.
LEMMA InnerStore ==
  ASSUME Undisturbed, Sound, StoreRule, StoreRule', NEW a \in Applier, Inner(a)
  PROVE  Store' = Store /\ Answer' = Answer
<1>1. /\ outcome' = outcome
      /\ StillFlying(a) \/ TakesOff(a) \/ Lands(a)
      /\ StillFlying(a) \/ pc[a] \in Writing \union Undoing
      /\ pc[a] \in Writing \union Undoing => snap' = snap
      /\ pc[a] \in Critical /\ pc'[a] \in Critical
  BY InnerFrame DEF Sound
<1>2. Answer' = Answer
  BY <1>1 DEF Answer
<1>3. Store = [f \in File |-> IF f \in InFlight(a) THEN snap[a][f] ELSE disk[f]]
  BY <1>1 DEF StoreRule
<1>4. Store' = [f \in File |->
                  IF f \in InFlight(a)' THEN snap'[a][f] ELSE disk'[f]]
  BY <1>1 DEF StoreRule
<1>5. ASSUME pc[a] \in Writing \union Undoing PROVE Store' = Store
  <2>1. /\ \A f \in Targets(Batch(a)) :
             disk[f] = IF f \in InFlight(a) THEN New[a] ELSE snap[a][f]
        /\ Targets(Batch(a)) \subseteq File
        /\ InFlight(a) \subseteq Targets(Batch(a))
        /\ disk \in [File -> Value]
        /\ snap' = snap
    BY <1>1, <1>5, BatchAtHand, FlightIsOfBatch DEF Sound, Whole, Placed, IInv, TypeOK
  <2>2. CASE StillFlying(a)
    BY <1>3, <1>4, <2>1, <2>2 DEF StillFlying
  <2>3. CASE TakesOff(a)
    <3>1. PICK g \in Targets(Batch(a)) \ InFlight(a) :
            /\ disk' = [disk EXCEPT ![g] = New[a]]
            /\ InFlight(a)' = InFlight(a) \union {g}
      BY <2>3 DEF TakesOff
    <3>2. disk[g] = snap[a][g]
      BY <2>1, <3>1
    <3>3. ASSUME NEW f \in File
          PROVE  (IF f \in InFlight(a)' THEN snap'[a][f] ELSE disk'[f])
                   = (IF f \in InFlight(a) THEN snap[a][f] ELSE disk[f])
      BY <2>1, <3>1, <3>2
    <3>4. QED
      BY <1>3, <1>4, <3>3
  <2>4. CASE Lands(a)
    <3>1. PICK g \in InFlight(a) :
            /\ disk' = [disk EXCEPT ![g] = snap[a][g]]
            /\ InFlight(a)' = InFlight(a) \ {g}
      BY <2>4 DEF Lands
    <3>2. ASSUME NEW f \in File
          PROVE  (IF f \in InFlight(a)' THEN snap'[a][f] ELSE disk'[f])
                   = (IF f \in InFlight(a) THEN snap[a][f] ELSE disk[f])
      BY <2>1, <3>1
    <3>3. QED
      BY <1>3, <1>4, <3>2
  <2>5. QED
    BY <1>1, <2>2, <2>3, <2>4
<1>6. ASSUME pc[a] \notin Writing \union Undoing PROVE Store' = Store
  <2>1. StillFlying(a) /\ InFlight(a) = {}
    BY <1>1, <1>6, FlightIsOfBatch DEF Sound, Whole
  <2>2. QED
    BY <1>3, <1>4, <2>1 DEF StillFlying
<1>7. QED
  BY <1>2, <1>5, <1>6

\* A step outside of the critical section leaves every payload in flight.
LEMMA OutsideStore ==
  ASSUME Sound, StoreRule, StoreRule', NEW a \in Applier, ApplierNext(a),
         Outer(a) \/ Ending(a), pc[a] \notin Critical
  PROVE  Store' = Store
<1>1. /\ disk' = disk /\ pc'[a] \in Before \union {"check"}
      /\ Whole(a)
  BY OuterWhole, EndingWhole, ApplierStepIsLocal DEF Sound, Before
<1>2. InFlight(a) = {} /\ InFlight(a)' = {}
  BY <1>1, FlightIsOfBatch
     DEF Sound, Whole, InFlight, Before, Critical, Writing, Undoing
<1>3. ASSUME NEW b \in Applier, b # a
      PROVE  /\ InFlight(b)' = InFlight(b)
             /\ snap'[b] = snap[b] /\ pc'[b] = pc[b]
  BY <1>3, OthersWhole, ApplierStepIsLocal DEF Sound, SameRow
<1>4. CASE \E b \in Applier : pc[b] \in Critical
  <2>1. PICK b \in Applier : pc[b] \in Critical
    BY <1>4
  <2>2. b # a
    BY <2>1
  <2>3. Store = [f \in File |-> IF f \in InFlight(b) THEN snap[b][f] ELSE disk[f]]
    BY <2>1 DEF StoreRule
  <2>4. Store' = [f \in File |->
                    IF f \in InFlight(b)' THEN snap'[b][f] ELSE disk'[f]]
    BY <1>3, <2>1, <2>2 DEF StoreRule
  <2>5. QED
    BY <1>1, <1>3, <2>2, <2>3, <2>4
<1>5. CASE \A b \in Applier : pc[b] \notin Critical
  <2>1. \A b \in Applier : InFlight(b) = {} /\ InFlight(b)' = {}
    BY <1>2, <1>3, <1>5, FlightIsOfBatch DEF Sound, Whole, Critical
  <2>2. QED
    BY <1>1, <2>1 DEF StoreRule
<1>6. QED
  BY <1>4, <1>5

\* An apply that ends leaves in the store what it still has in flight.
LEMMA EndingStore ==
  ASSUME Sound, StoreRule, StoreRule', NEW a \in Applier, ApplierNext(a),
         Ending(a)
  PROVE  Store' = [f \in File |-> IF f \in InFlight(a) THEN New[a] ELSE Store[f]]
<1>1. CASE pc[a] \notin Critical
  <2>1. Store' = Store /\ InFlight(a) = {}
    BY <1>1, OutsideStore, FlightIsOfBatch DEF Sound, Whole, Critical
  <2>2. QED
    BY <2>1 DEF Store
<1>2. CASE pc[a] \in Critical
  <2>1. Store = [f \in File |-> IF f \in InFlight(a) THEN snap[a][f] ELSE disk[f]]
    BY <1>2 DEF StoreRule
  <2>2. disk' = disk /\ InFlight(a)' = {}
    BY EndingWhole DEF Sound, InFlight, Writing, Undoing
  <2>3. ASSUME NEW b \in Applier, b # a
        PROVE  InFlight(b)' = {}
    <3>1. pc[b] \notin Critical
      BY <1>2, <2>3 DEF Sound, IInv, CriticalHeld
    <3>2. InFlight(b) = {}
      BY <3>1, FlightIsOfBatch DEF Sound, Whole, Critical
    <3>3. QED
      BY <2>3, <3>2, OthersWhole DEF Sound
  <2>4. Store' = [f \in File |-> disk[f]]
    BY <2>2, <2>3 DEF StoreRule
  <2>5. ASSUME NEW f \in InFlight(a)
        PROVE  disk[f] = New[a]
    BY FlightIsOfBatch DEF Sound, Whole, Placed
  <2>6. QED
    BY <2>1, <2>4, <2>5
<1>3. QED
  BY <1>1, <1>2

\* An applier's answer is its own.
LEMMA AnswerOf ==
  ASSUME IInv, NEW a \in Applier, Inner(a) \/ Outer(a) \/ Ending(a)
  PROVE  Answer' = [Answer EXCEPT ![a] = Answer'[a]]
<1>1. \A b \in Applier \ {a} : Answer'[b] = Answer[b]
  BY AnswersAreLocal DEF Answer
<1>2. QED
  BY <1>1 DEF Answer

\* Finishing, giving up, failing to answer: one of AtomicBatch's steps each.
LEMMA EndingIsAtomic ==
  ASSUME Sound, StoreRule, StoreRule', NEW a \in Applier, ApplierNext(a),
         Ending(a)
  PROVE  Atomic!BatchNext
<1>1. /\ Store' = [f \in File |-> IF f \in InFlight(a) THEN New[a] ELSE Store[f]]
      /\ Answer' = [Answer EXCEPT ![a] = Answer'[a]]
      /\ outcome' \in [Applier -> Outcomes]
      /\ InFlight(a) = {} => Store' = Store
  <2>1. Store' = [f \in File |-> IF f \in InFlight(a) THEN New[a] ELSE Store[f]]
    BY EndingStore
  <2>2. Store = [f \in File |-> Store[f]]
    BY DEF Store
  <2>3. QED
    BY <2>1, <2>2, AnswerOf, AnswersAreLocal DEF Sound
<1>2. CASE Refuse(a) \/ PreflightRefuse(a)
  <2>1. InFlight(a) = {}
    BY <1>2, FlightIsOfBatch
       DEF Refuse, PreflightRefuse, Sound, Whole, Writing, Undoing
  <2>2. outcome'[a] = "refused"
    BY <1>2 DEF Refuse, PreflightRefuse, EndApply, Sound, IInv, TypeOK
  <2>3. Answer'[a] = "unchanged"
    BY <2>2 DEF Answer
  <2>4. Store' = Store /\ Answer' = [Answer EXCEPT ![a] = "unchanged"]
    BY <1>1, <2>1, <2>3
  <2>5. QED
    BY <2>4 DEF Atomic!BatchNext, Atomic!LeaveUnchanged, Store, Answer
<1>3. CASE Finish(a)
  <2>1. pc[a] = "write" /\ count[a] = Len(Batch(a))
    BY <1>3, BatchAtHand DEF Finish, MoreTargets, Sound
  <2>2. InFlight(a) = Targets(Batch(a)) /\ Batch(a) \in Batches
    BY <2>1, BatchAtHand DEF InFlight, Writing, Undoing, Sound, Whole, Planned
  <2>3. Answer'[a] = "applied"
    BY <1>3 DEF Finish, EndApply, Answer, Sound, IInv, TypeOK
  <2>4. /\ Store' = [f \in File |-> IF f \in Targets(Batch(a))
                                    THEN New[a] ELSE Store[f]]
        /\ Answer' = [Answer EXCEPT ![a] = "applied"]
    BY <1>1, <2>2, <2>3
  <2>5. QED
    BY <2>2, <2>4
       DEF Atomic!BatchNext, Atomic!CommitBatch, Atomic!RangeOf, Targets,
           Store, Answer
<1>4. CASE UndoEnds(a) /\ errors[a] = {}
  <2>1. InFlight(a) = {}
    BY <1>4 DEF UndoEnds, InFlight, Undoing
  <2>2. outcome'[a] = "rolledback"
    BY <1>4 DEF UndoEnds, EndApply, Sound, Whole, IInv, TypeOK
  <2>3. Answer'[a] = "unchanged"
    BY <2>2 DEF Answer
  <2>4. Store' = Store /\ Answer' = [Answer EXCEPT ![a] = "unchanged"]
    BY <1>1, <2>1, <2>3
  <2>5. QED
    BY <2>4 DEF Atomic!BatchNext, Atomic!LeaveUnchanged, Store, Answer
<1>5. CASE (UndoEnds(a) /\ errors[a] # {}) \/ (Kill(a) /\ pc[a] # "idle")
  <2>1. outcome'[a] \in {"dirty", "killed"}
    BY <1>5 DEF UndoEnds, EndApply, Kill, Sound, Whole, IInv, TypeOK
  <2>2. Answer'[a] = "unknown"
    BY <2>1 DEF Answer
  <2>3. Batch(a) \in Batches /\ InFlight(a) \subseteq Targets(Batch(a))
    BY <1>5, FlightIsOfBatch DEF UndoEnds, Sound, Whole, Planned
  <2>4. Answer' = [Answer EXCEPT ![a] = "unknown"]
    BY <1>1, <2>2
  <2>5. InFlight(a) \in SUBSET Targets(Batch(a))
    BY <2>3
  <2>6. \E targets \in Batches : \E torn \in SUBSET Targets(targets) :
          /\ Store' = [f \in File |-> IF f \in torn THEN New[a] ELSE Store[f]]
          /\ Answer' = [Answer EXCEPT ![a] = "unknown"]
    BY <1>1, <2>3, <2>4, <2>5
  <2>7. QED
    BY <2>6
       DEF Atomic!BatchNext, Atomic!Tear, Atomic!RangeOf, Targets, Store, Answer
<1>6. QED
  BY <1>2, <1>3, <1>4, <1>5 DEF Ending, Kill

\* Outside, an applier forgets its last answer or is refused the lock.
LEMMA OuterIsAtomic ==
  ASSUME Sound, StoreRule, StoreRule', NEW a \in Applier, ApplierNext(a),
         Outer(a)
  PROVE  Atomic!BatchNext \/ (Store' = Store /\ Answer' = Answer)
<1>1. Store' = Store
  BY OuterWhole, OutsideStore DEF Sound, Before, Critical, Writing, Undoing
<1>2. Answer' = [Answer EXCEPT ![a] = Answer'[a]]
  BY AnswerOf DEF Sound
<1>3. CASE Plan(a)
  <2>1. Answer'[a] = "none"
    BY <1>3 DEF Plan, Answer, Sound, IInv, TypeOK
  <2>2. Answer' = [Answer EXCEPT ![a] = "none"]
    BY <1>2, <2>1
  <2>3. QED
    BY <1>1, <2>2 DEF Atomic!BatchNext, Atomic!Forget, Store, Answer
<1>4. CASE LockTimesOut(a)
  <2>1. outcome'[a] = "refused"
    BY <1>4 DEF LockTimesOut, Sound, IInv, TypeOK
  <2>2. Answer'[a] = "unchanged"
    BY <2>1 DEF Answer
  <2>3. Answer' = [Answer EXCEPT ![a] = "unchanged"]
    BY <1>2, <2>2
  <2>4. QED
    BY <1>1, <2>3 DEF Atomic!BatchNext, Atomic!LeaveUnchanged, Store, Answer
<1>5. CASE ~Plan(a) /\ ~LockTimesOut(a)
  <2>1. outcome' = outcome
    BY <1>5 DEF Outer, Capture, Approve, Discard, Enter
  <2>2. QED
    BY <1>1, <2>1 DEF Answer
<1>6. QED
  BY <1>3, <1>4, <1>5

\* apply_manifest implements AtomicBatch: to whoever respects the write lock a
\* batch takes effect as a whole or not at all, and "applied", "refused" and
\* "rolled back" are true answers, for any appliers, batches, failures and kills.
THEOREM BatchesAreAtomic ==
  ASSUME Undisturbed
  PROVE  Spec => AllOrNothing
<1> DEFINE Step == Atomic!BatchNext \/ (Store' = Store /\ Answer' = Answer)
<1>1. Init => Sound
  BY InvariantInitially, WholeInitially DEF Sound
<1>2. Sound /\ [Next]_vars => Sound'
  BY InvariantKept, WholeKept DEF Sound
<1>3. Init => Atomic!BatchInit
  BY DEF Init, Atomic!BatchInit
<1>4. Sound => StoreRule
  BY StoreRuleHolds
<1>5. Sound /\ StoreRule /\ StoreRule' /\ [Next]_vars => Step
  <2> SUFFICES ASSUME Sound, StoreRule, StoreRule', [Next]_vars PROVE Step
    OBVIOUS
  <2>1. ASSUME NEW a \in Applier, ApplierNext(a)
        PROVE  Step
    <3>1. Inner(a) \/ Outer(a) \/ Ending(a)
      BY <2>1, UndisturbedSteps DEF Sound
    <3>2. QED
      BY <2>1, <3>1, InnerStore, OuterIsAtomic, EndingIsAtomic
  <2>2. ASSUME NEW f \in File, NEW v \in Value, Edit(f, v)
        PROVE  FALSE
    BY <2>2 DEF Edit, Undisturbed
  <2>3. CASE UNCHANGED vars
    BY <2>3 DEF vars, Store, Answer, InFlight, Batch, NextTarget
  <2>4. QED
    BY <2>1, <2>2, <2>3 DEF Next
<1>6. Step => [Atomic!BatchNext]_(Atomic!batchVars)
  BY DEF Atomic!batchVars, Store, Answer
<1>7. QED
  BY <1>1, <1>2, <1>3, <1>4, <1>5, <1>6, PTL
     DEF Spec, AllOrNothing, Atomic!BatchSpec
=============================================================================

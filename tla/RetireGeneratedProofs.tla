------------------------ MODULE RetireGeneratedProofs ------------------------
(***************************************************************************)
(* Proofs about RetireGenerated, for any retirers, files, edits and        *)
(* faults.                                                                 *)
(*                                                                         *)
(* Inside the lock nobody but the user changes a generated file, so what a *)
(* loop has established of the files behind it stays true except for the   *)
(* files in raced: they are as approved after the recheck, their snapshots *)
(* are as approved after the snapshots, they are gone after the deletion   *)
(* and back after the recovery.  The invariant says so loop by loop.       *)
(***************************************************************************)
EXTENDS RetireGenerated, TLAPS

\* File f is as the proposal of r lists it, or the user has changed it since.
Same(r, f) == disk[f] = checks[r][f] \/ f \in raced[r]

\* The snapshot that r has of f is what the proposal lists.
Kept(r, f) == snap[r][f] = checks[r][f] \/ f \in raced[r]

AfterRecheck(r) ==
  pc[r] = "recheck" =>
    \A f \in Listed(checks[r]) \ todo[r] : Same(r, f)

AfterSnapshot(r) ==
  pc[r] = "snapshot" =>
    \A f \in Listed(checks[r]) : Same(r, f) /\ (f \in todo[r] \/ Kept(r, f))

AfterUnlink(r) ==
  pc[r] = "unlink" =>
    \A f \in Listed(checks[r]) :
      /\ Kept(r, f)
      /\ IF f \in todo[r] THEN Same(r, f)
         ELSE disk[f] = Absent \/ f \in raced[r]

AfterRecover(r) ==
  pc[r] = "recover" =>
    \A f \in Listed(checks[r]) :
      /\ Kept(r, f)
      /\ IF f \in todo[r] \union failed[r] THEN Same(r, f) \/ disk[f] = Absent
         ELSE Same(r, f)

Row(r) ==
  AfterRecheck(r) /\ AfterSnapshot(r) /\ AfterUnlink(r) /\ AfterRecover(r)

\* The inductive invariant.
IInv == TypeOK /\ CriticalHeld /\ \A r \in Retirer : Row(r)

-----------------------------------------------------------------------------
(* Types                                                                   *)

\* Writing one file gives files again.
LEMMA FilesUpdate ==
  ASSUME NEW g \in Files, NEW f \in File, NEW v \in Value
  PROVE  [g EXCEPT ![f] = v] \in Files
BY DEF Files

\* Nothing is files, none of them there.
LEMMA NothingListed == Nothing \in Files /\ Listed(Nothing) = {}
BY DEF Nothing, Files, Value, Listed

\* Ending an invocation keeps its memory well typed.
LEMMA ForgetType ==
  ASSUME TypeOK, NEW r \in Retirer, Forget(r)
  PROVE  /\ pc' \in [Retirer -> {"idle", "proposed"} \union Critical]
         /\ checks' \in [Retirer -> Files]
         /\ seenTree' \in [Retirer -> Tree]
         /\ todo' \in [Retirer -> SUBSET File]
         /\ \A q \in Retirer :
              todo'[q] \subseteq
                IF pc'[q] \in Loops THEN Listed(checks'[q]) ELSE {}
         /\ snap' \in [Retirer -> Files]
         /\ raced' \in [Retirer -> SUBSET File]
         /\ failed' \in [Retirer -> SUBSET File]
BY NothingListed DEF Forget, TypeOK

\* A loop starts with the files of the proposal, and visits them.
LEMMA LoopType ==
  ASSUME TypeOK, NEW r \in Retirer, checks' = checks,
         \/ \E loop \in Loops : StartLoop(r, loop)
         \/ pc' = pc /\ \E f \in File : Visit(r, f)
  PROVE  /\ pc' \in [Retirer -> {"idle", "proposed"} \union Critical]
         /\ todo' \in [Retirer -> SUBSET File]
         /\ \A q \in Retirer :
              todo'[q] \subseteq
                IF pc'[q] \in Loops THEN Listed(checks'[q]) ELSE {}
BY DEF TypeOK, StartLoop, Visit, Critical, Listed

\* After an init nobody is inside, and everything is well formed.
LEMMA InitType == Init => TypeOK /\ CriticalHeld
<1>1. Init => TypeOK
  BY NothingListed DEF Init, TypeOK, MutexInit
<1>2. Init => CriticalHeld
  BY RetireAssumption
     DEF Init, CriticalHeld, MutexInit, Critical, Loops, RetireAssumption
<1> QED
  BY <1>1, <1>2

\* Every step of a retirer keeps its memory and the files well formed.
LEMMA RetirerType ==
  ASSUME TypeOK, NEW r \in Retirer, RetirerNext(r)
  PROVE  TypeOK'
<1>1. CASE Propose(r)
  BY <1>1 DEF Propose, TypeOK, Loops
<1>2. CASE Enter(r)
  BY <1>2 DEF Enter, Acquire, TypeOK, Critical, Loops
<1>3. CASE LockTimesOut(r)
  BY <1>3, ForgetType DEF LockTimesOut, TypeOK
<1>4. CASE TreeSame(r) \/ StartSnapshot(r) \/ StartUnlink(r) \/ UnlinkFails(r)
  <2>1. \E loop \in Loops : StartLoop(r, loop)
    BY <1>4 DEF TreeSame, StartSnapshot, StartUnlink, UnlinkFails, Loops
  <2>2. UNCHANGED <<disk, listed, registry, tree, holder, checks, seenTree,
                    approved, snap, raced, failed>>
    BY <1>4 DEF TreeSame, StartSnapshot, StartUnlink, UnlinkFails
  <2> QED
    BY <2>1, <2>2, LoopType DEF TypeOK
<1>5. CASE Refuse(r)
  BY <1>5, ForgetType DEF Refuse, Release, TypeOK
<1>6. CASE UnlinkRegistry(r)
  BY <1>6, ForgetType, NothingListed DEF UnlinkRegistry, Release, TypeOK
<1>7. CASE Stops(r)
  BY <1>7, ForgetType DEF Stops, Vanish, TypeOK
<1>8. ASSUME NEW f \in File,
             Recheck(r, f) \/ Snapshot(r, f) \/ Unlink(r, f) \/ Recover(r, f)
               \/ RecoverFails(r, f)
      PROVE  TypeOK'
  <2>1. pc' = pc /\ Visit(r, f) /\ checks' = checks
    BY <1>8 DEF Recheck, Snapshot, Unlink, Recover, RecoverFails
  <2>2. UNCHANGED <<listed, registry, tree, holder, seenTree, approved, raced>>
    BY <1>8 DEF Recheck, Snapshot, Unlink, Recover, RecoverFails
  <2>3. disk[f] \in Value /\ snap[r] \in Files /\ snap[r][f] \in Value
    BY DEF TypeOK, Files
  <2>4. disk' \in Files
    <3>1. \/ disk' = disk
          \/ disk' = [disk EXCEPT ![f] = Absent]
          \/ disk' = [disk EXCEPT ![f] = snap[r][f]]
      <4>1. disk = [disk EXCEPT ![f] = disk[f]]
        BY DEF TypeOK, Files
      <4> QED
        BY <1>8, <4>1 DEF Recheck, Snapshot, Unlink, Recover, RecoverFails
    <3>2. Absent \in Value
      BY DEF Value
    <3> QED
      BY <2>3, <3>1, <3>2, FilesUpdate DEF TypeOK
  <2>5. snap' \in [Retirer -> Files]
    BY <1>8, <2>3, FilesUpdate
       DEF TypeOK, Recheck, Snapshot, Unlink, Recover, RecoverFails
  <2>6. failed' \in [Retirer -> SUBSET File]
    BY <1>8 DEF TypeOK, Recheck, Snapshot, Unlink, Recover, RecoverFails
  <2> QED
    BY <2>1, <2>2, <2>4, <2>5, <2>6, LoopType DEF TypeOK
<1> QED
  BY <1>1, <1>2, <1>3, <1>4, <1>5, <1>6, <1>7, <1>8
     DEF RetirerNext, TreeChanged, RecheckFails, SnapshotFails, RecoverEnds

\* So does everything that happens around it.
LEMMA WorldType ==
  ASSUME TypeOK,
         \/ Approve
         \/ \E f \in File, v \in Value : Edit(f, v)
         \/ \E t \in Tree : EditTree(t)
         \/ \E batch \in Batches, c \in Content : Reconcile(batch, c)
  PROVE  TypeOK'
<1>1. CASE Approve
  BY <1>1 DEF Approve, TypeOK
<1>2. ASSUME NEW f \in File, NEW v \in Value, Edit(f, v) PROVE TypeOK'
  BY <1>2, FilesUpdate DEF Edit, TypeOK
<1>3. CASE \E t \in Tree : EditTree(t)
  BY <1>3 DEF EditTree, TypeOK
<1>4. CASE \E batch \in Batches, c \in Content : Reconcile(batch, c)
  BY <1>4 DEF Reconcile, TypeOK, Files, Value
<1> QED
  BY <1>1, <1>2, <1>3, <1>4

-----------------------------------------------------------------------------
(* The critical section                                                    *)

\* Only these three change who is inside.
LEMMA RetirerHeld ==
  ASSUME TypeOK, CriticalHeld, NEW r \in Retirer, RetirerNext(r)
  PROVE  CriticalHeld'
<1> USE RetireAssumption DEF RetireAssumption, TypeOK, CriticalHeld
<1>1. CASE Propose(r)
  BY <1>1 DEF Propose, Critical, Loops
<1>2. CASE Enter(r)
  BY <1>2 DEF Enter, Acquire, Critical
<1>3. CASE LockTimesOut(r)
  BY <1>3 DEF LockTimesOut, Forget, Critical, Loops
<1>4. CASE TreeSame(r) \/ StartSnapshot(r) \/ StartUnlink(r) \/ UnlinkFails(r)
  BY <1>4 DEF TreeSame, StartSnapshot, StartUnlink, UnlinkFails, StartLoop,
              Critical, Loops
<1>5. CASE Refuse(r) \/ UnlinkRegistry(r)
  BY <1>5 DEF Refuse, UnlinkRegistry, Release, Forget, Critical, Loops
<1>6. CASE Stops(r)
  BY <1>6 DEF Stops, Vanish, Forget, Critical, Loops
<1>7. CASE \E f \in File :
             \/ Recheck(r, f) \/ Snapshot(r, f) \/ Unlink(r, f)
             \/ Recover(r, f) \/ RecoverFails(r, f)
  BY <1>7 DEF Recheck, Snapshot, Unlink, Recover, RecoverFails
<1> QED
  BY <1>1, <1>2, <1>3, <1>4, <1>5, <1>6, <1>7
     DEF RetirerNext, TreeChanged, RecheckFails, SnapshotFails, RecoverEnds

-----------------------------------------------------------------------------
(* The rows                                                                *)

\* Outside of the loops there is nothing to show.
LEMMA RestingRow ==
  ASSUME NEW r \in Retirer, pc'[r] \notin Loops
  PROVE  Row(r)'
BY DEF Row, AfterRecheck, AfterSnapshot, AfterUnlink, AfterRecover, Loops

\* A loop starts with what the one before has established.
LEMMA LoopStarts ==
  ASSUME TypeOK, NEW r \in Retirer, Row(r),
         TreeSame(r) \/ StartSnapshot(r) \/ StartUnlink(r) \/ UnlinkFails(r)
  PROVE  Row(r)'
<1>1. todo'[r] = Listed(checks[r])
  BY DEF TypeOK, TreeSame, StartSnapshot, StartUnlink, UnlinkFails, StartLoop
<1>2. UNCHANGED <<disk, checks, snap, raced, failed>>
  BY DEF TreeSame, StartSnapshot, StartUnlink, UnlinkFails
<1> USE <1>1, <1>2
        DEF Row, AfterRecheck, AfterSnapshot, AfterUnlink, AfterRecover, Same,
            Kept
<1>3. CASE TreeSame(r)
  <2>1. pc'[r] = "recheck"
    BY <1>3 DEF TypeOK, TreeSame, StartLoop
  <2> QED
    BY <2>1
<1>4. CASE StartSnapshot(r)
  <2>1. pc'[r] = "snapshot" /\ pc[r] = "recheck" /\ todo[r] = {}
    BY <1>4 DEF TypeOK, StartSnapshot, StartLoop
  <2> QED
    BY <2>1
<1>5. CASE StartUnlink(r)
  <2>1. pc'[r] = "unlink" /\ pc[r] = "snapshot" /\ todo[r] = {}
    BY <1>5 DEF TypeOK, StartUnlink, StartLoop
  <2> QED
    BY <2>1
<1>6. CASE UnlinkFails(r)
  <2>1. pc'[r] = "recover" /\ pc[r] = "unlink"
    BY <1>6 DEF TypeOK, UnlinkFails, StartLoop
  <2> QED
    BY <2>1
<1> QED
  BY <1>3, <1>4, <1>5, <1>6

\* A loop goes on: what it does to the file it visits.
LEMMA LoopVisits ==
  ASSUME TypeOK, NEW r \in Retirer, Row(r), NEW f \in File,
         Recheck(r, f) \/ Snapshot(r, f) \/ Unlink(r, f) \/ Recover(r, f)
           \/ RecoverFails(r, f)
  PROVE  Row(r)'
<1>1. todo'[r] = todo[r] \ {f} /\ f \in todo[r] /\ todo[r] \subseteq File
  BY DEF TypeOK, Recheck, Snapshot, Unlink, Recover, RecoverFails, Visit
<1>2. UNCHANGED <<pc, checks, raced>>
  BY DEF Recheck, Snapshot, Unlink, Recover, RecoverFails
<1>3. Listed(checks[r]) \subseteq File /\ disk \in [File -> Value]
  BY DEF Listed, TypeOK, Files
<1> USE <1>1, <1>2, <1>3
        DEF Row, AfterRecheck, AfterSnapshot, AfterUnlink, AfterRecover, Same,
            Kept
<1>4. CASE Recheck(r, f)
  BY <1>4 DEF Recheck
<1>5. CASE Snapshot(r, f)
  <2>1. snap'[r] = [snap[r] EXCEPT ![f] = disk[f]] /\ disk' = disk
    BY <1>5 DEF Snapshot, TypeOK
  <2>2. snap[r] \in [File -> Value]
    BY DEF TypeOK, Files
  <2>3. \A g \in File : snap'[r][g] = IF g = f THEN disk[f] ELSE snap[r][g]
    BY <2>1, <2>2
  <2> QED
    BY <1>5, <2>1, <2>3 DEF Snapshot
<1>6. CASE Unlink(r, f)
  <2>1. \A g \in File : disk'[g] = IF g = f THEN Absent ELSE disk[g]
    BY <1>6 DEF Unlink
  <2> QED
    BY <1>6, <2>1 DEF Unlink
<1>7. CASE Recover(r, f)
  <2>1. \A g \in File :
          disk'[g] = IF g = f /\ disk[g] = Absent THEN snap[r][g] ELSE disk[g]
    BY <1>7 DEF Recover
  <2> QED
    BY <1>7, <2>1 DEF Recover
<1>8. CASE RecoverFails(r, f)
  <2>1. failed'[r] = failed[r] \union {f}
    BY <1>8 DEF RecoverFails, TypeOK
  <2> QED
    BY <1>8, <2>1 DEF RecoverFails
<1> QED
  BY <1>4, <1>5, <1>6, <1>7, <1>8

\* What a retirer knows of the files survives its own steps.
LEMMA OwnRow ==
  ASSUME TypeOK, NEW r \in Retirer, Row(r), RetirerNext(r)
  PROVE  Row(r)'
<1>1. CASE Propose(r) \/ Enter(r)
  <2>1. pc'[r] \notin Loops
    BY <1>1 DEF Propose, Enter, TypeOK, Loops
  <2> QED
    BY <2>1, RestingRow
<1>2. CASE Forget(r)
  <2>1. pc'[r] \notin Loops
    BY <1>2 DEF Forget, TypeOK, Loops
  <2> QED
    BY <2>1, RestingRow
<1> QED
  BY <1>1, <1>2, LoopStarts, LoopVisits
     DEF RetirerNext, LockTimesOut, TreeChanged, RecheckFails, SnapshotFails,
         RecoverEnds, Refuse, UnlinkRegistry, Stops

\* A step of r leaves the memory of the others alone.
LEMMA OthersMemory ==
  ASSUME TypeOK, NEW r \in Retirer, NEW q \in Retirer \ {r}, RetirerNext(r)
  PROVE  /\ pc'[q] = pc[q] /\ checks'[q] = checks[q] /\ todo'[q] = todo[q]
         /\ snap'[q] = snap[q] /\ raced'[q] = raced[q]
         /\ failed'[q] = failed[q]
         /\ pc[r] \notin Loops => disk' = disk
<1> USE DEF TypeOK
<1>1. CASE Propose(r) \/ Enter(r)
  BY <1>1 DEF Propose, Enter
<1>2. CASE Forget(r) /\ disk' = disk
  BY <1>2 DEF Forget
<1>3. CASE TreeSame(r) \/ StartSnapshot(r) \/ StartUnlink(r) \/ UnlinkFails(r)
  BY <1>3 DEF TreeSame, StartSnapshot, StartUnlink, UnlinkFails, StartLoop
<1>4. CASE \E f \in File :
             \/ Recheck(r, f) \/ Snapshot(r, f) \/ Unlink(r, f)
             \/ Recover(r, f) \/ RecoverFails(r, f)
  BY <1>4 DEF Recheck, Snapshot, Unlink, Recover, RecoverFails, Visit, Loops
<1> QED
  BY <1>1, <1>2, <1>3, <1>4
     DEF RetirerNext, LockTimesOut, TreeChanged, RecheckFails, SnapshotFails,
         RecoverEnds, Refuse, UnlinkRegistry, Stops

\* Inside the lock the steps of the others do not matter.
LEMMA OthersRow ==
  ASSUME TypeOK, CriticalHeld, NEW r \in Retirer, NEW q \in Retirer \ {r},
         Row(q), RetirerNext(r)
  PROVE  Row(q)'
<1>1. CASE pc[q] \in Loops
  <2>1. pc[r] \notin Loops
    BY <1>1 DEF CriticalHeld, Critical
  <2> QED
    BY <2>1, OthersMemory
       DEF Row, AfterRecheck, AfterSnapshot, AfterUnlink, AfterRecover, Same,
           Kept
<1>2. CASE pc[q] \notin Loops
  BY <1>2, OthersMemory, RestingRow
<1> QED
  BY <1>1, <1>2

\* The user's edits are recorded; other writers stay out.
LEMMA WorldRow ==
  ASSUME TypeOK, CriticalHeld, NEW q \in Retirer, Row(q),
         \/ Approve
         \/ \E f \in File, v \in Value : Edit(f, v)
         \/ \E t \in Tree : EditTree(t)
         \/ \E batch \in Batches, c \in Content : Reconcile(batch, c)
  PROVE  /\ Row(q)'
         /\ CriticalHeld'
<1> USE DEF Row, AfterRecheck, AfterSnapshot, AfterUnlink, AfterRecover, Same,
            Kept
<1>1. CASE Approve \/ \E t \in Tree : EditTree(t)
  BY <1>1 DEF Approve, EditTree, CriticalHeld
<1>2. ASSUME NEW f \in File, NEW v \in Value, Edit(f, v)
      PROVE  Row(q)' /\ CriticalHeld'
  <2>1. /\ UNCHANGED <<pc, holder, checks, todo, snap, failed>>
        /\ raced'[q] = raced[q] \union ({f} \intersect Rechecked(q))
        /\ \A g \in File \ {f} : disk'[g] = disk[g]
    BY <1>2 DEF Edit, TypeOK, Files
  <2>2. /\ Listed(checks[q]) \subseteq File
        /\ todo[q] \subseteq Listed(checks[q])
    BY DEF Listed, TypeOK
  <2>3. pc[q] \in Loops =>
          Rechecked(q) = IF pc[q] = "recheck" THEN Listed(checks[q]) \ todo[q]
                         ELSE Listed(checks[q])
    BY DEF Rechecked, Loops
  <2>4. Row(q)'
    BY <2>1, <2>2, <2>3 DEF Loops
  <2> QED
    BY <2>1, <2>4 DEF CriticalHeld
<1>3. CASE \E batch \in Batches, c \in Content : Reconcile(batch, c)
  <2>1. pc[q] \notin Loops /\ pc' = pc /\ holder' = holder
    BY <1>3, RetireAssumption
       DEF Reconcile, CriticalHeld, Critical, RetireAssumption
  <2> QED
    BY <2>1, RestingRow DEF CriticalHeld
<1> QED
  BY <1>1, <1>2, <1>3

-----------------------------------------------------------------------------
(* The theorems                                                            *)

\* A step that changes nothing keeps the invariant.
LEMMA Stuttering ==
  ASSUME IInv, UNCHANGED vars
  PROVE  IInv'
BY DEF IInv, TypeOK, CriticalHeld, Row, AfterRecheck, AfterSnapshot,
       AfterUnlink, AfterRecover, Same, Kept, vars

\* The invariant holds, whatever retirers, users and other commands do.
THEOREM Invariance == Spec => []IInv
<1>1. Init => IInv
  <2>1. Init => \A r \in Retirer : Row(r)
    BY DEF Init, Row, AfterRecheck, AfterSnapshot, AfterUnlink, AfterRecover
  <2> QED
    BY <2>1, InitType DEF IInv
<1>2. ASSUME IInv, [Next]_vars
      PROVE  IInv'
  <2>1. ASSUME NEW r \in Retirer, RetirerNext(r)
        PROVE  IInv'
    BY <1>2, <2>1, RetirerType, RetirerHeld, OwnRow, OthersRow DEF IInv
  <2>2. CASE \/ Approve
             \/ \E f \in File, v \in Value : Edit(f, v)
             \/ \E t \in Tree : EditTree(t)
             \/ \E batch \in Batches, c \in Content : Reconcile(batch, c)
    <3>1. pc' = pc /\ holder' = holder
      BY <2>2 DEF Approve, Edit, EditTree, Reconcile
    <3> QED
      BY <1>2, <2>2, <3>1, WorldType, WorldRow DEF IInv, CriticalHeld
  <2>3. CASE UNCHANGED vars
    BY <1>2, <2>3, Stuttering
  <2> QED
    BY <1>2, <2>1, <2>2, <2>3 DEF Next
<1> QED
  BY <1>1, <1>2, PTL DEF Spec

\* The state of a retire stays well formed: files, fingerprints, what is left
\* to visit.
THEOREM TypeCorrect == Spec => []TypeOK
<1>1. IInv => TypeOK
  BY DEF IInv
<1> QED
  BY <1>1, Invariance, PTL

\* Rechecking, deleting and recovering happen inside the lock, by one retirer.
THEOREM CriticalSectionHeld == Spec => []CriticalHeld
<1>1. IInv => CriticalHeld
  BY DEF IInv
<1> QED
  BY <1>1, Invariance, PTL

\* What is deleted was approved, or the user's edit fell behind its recheck.
THEOREM DeletedWasApproved == Spec => OnlyRacedEditsAreDeleted
<1>1. ASSUME IInv, NEW r \in Retirer, NEW f \in File,
             pc[r] = "unlink", f \in todo[r]
      PROVE  disk[f] = checks[r][f] \/ f \in raced[r]
  <2>1. f \in Listed(checks[r])
    BY <1>1 DEF IInv, TypeOK, Loops
  <2> QED
    BY <1>1, <2>1 DEF IInv, Row, AfterUnlink, Same
<1>2. IInv =>
        [\A r \in Retirer, f \in File :
           pc[r] = "unlink" /\ pc'[r] = "unlink" /\ f \in todo[r] \ todo'[r] =>
             disk[f] = checks[r][f] \/ f \in raced[r]]_vars
  BY <1>1
<1> QED
  BY <1>2, Invariance, PTL DEF OnlyRacedEditsAreDeleted

\* When a failed retire leaves the lock, its recovery has put back everything
\* that the user left alone and that could be written.
THEOREM RecoveryIsComplete == Spec => FailedRetireRestores
<1>1. ASSUME IInv, [Next]_vars, NEW r \in Retirer, NEW f \in File,
             pc[r] = "recover", todo[r] = {}, f \in Listed(checks[r]),
             f \notin raced[r] \union failed[r]
      PROVE  disk[f] = checks[r][f]
  BY <1>1 DEF IInv, Row, AfterRecover, Same
<1>2. IInv /\ [Next]_vars =>
        [\A r \in Retirer, f \in File :
           pc[r] = "recover" /\ todo[r] = {} /\ pc'[r] = "idle" =>
             \/ f \notin Listed(checks[r]) \/ f \in raced[r] \union failed[r]
             \/ disk[f] = checks[r][f]]_vars
  BY <1>1
<1> QED
  BY <1>2, Invariance, PTL DEF Spec, FailedRetireRestores

\* Only the retirer in the critical section takes the registry away, and only
\* when its loop is through.
LEMMA RegistryGoesLast ==
  ASSUME IInv, Next, NEW r \in Retirer, pc[r] = "unlink", registry, ~registry'
  PROVE  todo[r] = {} /\ disk' = disk
<1>1. PICK q \in Retirer : RetirerNext(q)
  BY DEF Next, Approve, Edit, EditTree, Reconcile
<1>2. UnlinkRegistry(q)
  BY <1>1
     DEF RetirerNext, Propose, Enter, LockTimesOut, TreeSame, TreeChanged,
         Recheck, RecheckFails, StartSnapshot, Snapshot, SnapshotFails,
         StartUnlink, Unlink, UnlinkFails, Recover, RecoverFails, RecoverEnds,
         Stops, Refuse
<1>3. holder = q /\ holder = r
  BY <1>2 DEF IInv, CriticalHeld, UnlinkRegistry, Critical, Loops
<1> QED
  BY <1>2, <1>3 DEF UnlinkRegistry

\* A file that a retire orphans was registered after its proposal, or is the
\* user's.
THEOREM OrphansAreLate == Spec => OnlyLateFilesAreOrphaned
<1>1. ASSUME IInv, [Next]_vars, NEW r \in Retirer, NEW f \in File,
             pc[r] = "unlink", registry, ~registry', disk'[f] # Absent,
             f \in Listed(checks[r])
      PROVE  f \in raced[r]
  <2>1. Next
    BY <1>1 DEF vars
  <2>2. todo[r] = {} /\ disk' = disk
    BY <1>1, <2>1, RegistryGoesLast
  <2> QED
    BY <1>1, <2>2 DEF IInv, Row, AfterUnlink
<1>2. IInv /\ [Next]_vars =>
        [\A r \in Retirer, f \in File :
           pc[r] = "unlink" /\ registry /\ ~registry' /\ disk'[f] # Absent =>
             f \notin Listed(checks[r]) \/ f \in raced[r]]_vars
  BY <1>1
<1> QED
  BY <1>2, Invariance, PTL DEF Spec, OnlyLateFilesAreOrphaned
-----------------------------------------------------------------------------
(* The end of a retire                                                     *)

\* The loops of the with-block in their order.
NextLoop ==
  {<<"tree", "recheck">>, <<"recheck", "snapshot">>, <<"snapshot", "unlink">>,
   <<"unlink", "recover">>}

\* Each step of a retire inside of the lock, failures included, starts the next
\* loop or takes a file from the current one; nothing else moves it, edits of
\* the user least of all.
RetiresRunOut ==
  \A r \in Retirer : pc[r] \in Critical /\ pc'[r] \in Critical =>
    IF RetirerNext(r)
    THEN \/ <<pc[r], pc'[r]>> \in NextLoop /\ todo'[r] = Listed(checks[r])
         \/ pc'[r] = pc[r] /\ \E f \in todo[r] : todo'[r] = todo[r] \ {f}
    ELSE pc'[r] = pc[r] /\ todo'[r] = todo[r]

\* A step that stays inside of the lock brings the end of the retire closer.
LEMMA RetireAdvances ==
  ASSUME TypeOK, NEW r \in Retirer, RetirerNext(r),
         pc[r] \in Critical, pc'[r] \in Critical
  PROVE  \/ <<pc[r], pc'[r]>> \in NextLoop /\ todo'[r] = Listed(checks[r])
         \/ pc'[r] = pc[r] /\ \E f \in todo[r] : todo'[r] = todo[r] \ {f}
<1> USE DEF TypeOK
<1>1. CASE Propose(r) \/ Enter(r) \/ LockTimesOut(r)
  BY <1>1 DEF Propose, Enter, LockTimesOut, Critical, Loops
<1>2. CASE Forget(r)
  BY <1>2 DEF Forget, Critical, Loops
<1>3. CASE TreeSame(r) \/ StartSnapshot(r) \/ StartUnlink(r) \/ UnlinkFails(r)
  BY <1>3 DEF TreeSame, StartSnapshot, StartUnlink, UnlinkFails, StartLoop,
              NextLoop
<1>4. CASE \E f \in File :
             \/ Recheck(r, f) \/ Snapshot(r, f) \/ Unlink(r, f)
             \/ Recover(r, f) \/ RecoverFails(r, f)
  BY <1>4 DEF Recheck, Snapshot, Unlink, Recover, RecoverFails, Visit
<1> QED
  BY <1>1, <1>2, <1>3, <1>4
     DEF RetirerNext, TreeChanged, RecheckFails, SnapshotFails, RecoverEnds,
         Refuse, UnlinkRegistry, Stops

\* A retire of a registry with n files leaves the lock after at most 4n + 5
\* steps of its own: it goes through at most four loops, each of them once.
THEOREM RetiresEnd == Spec => [][RetiresRunOut]_vars
<1>1. IInv /\ [Next]_vars => [RetiresRunOut]_vars
  <2> SUFFICES ASSUME IInv, Next, NEW r \in Retirer,
                      pc[r] \in Critical, pc'[r] \in Critical
               PROVE  IF RetirerNext(r)
                      THEN \/ /\ <<pc[r], pc'[r]>> \in NextLoop
                              /\ todo'[r] = Listed(checks[r])
                           \/ /\ pc'[r] = pc[r]
                              /\ \E f \in todo[r] : todo'[r] = todo[r] \ {f}
                      ELSE pc'[r] = pc[r] /\ todo'[r] = todo[r]
    BY DEF RetiresRunOut
  <2>1. CASE RetirerNext(r)
    BY <2>1, RetireAdvances DEF IInv
  <2>2. ASSUME ~RetirerNext(r), NEW q \in Retirer, RetirerNext(q)
        PROVE  pc'[r] = pc[r] /\ todo'[r] = todo[r]
    BY <2>2, OthersMemory DEF IInv
  <2>3. CASE \/ Approve
             \/ \E f \in File, v \in Value : Edit(f, v)
             \/ \E t \in Tree : EditTree(t)
             \/ \E batch \in Batches, c \in Content : Reconcile(batch, c)
    BY <2>1, <2>3 DEF Approve, Edit, EditTree, Reconcile
  <2> QED
    BY <2>1, <2>2, <2>3 DEF Next
<1> QED
  BY <1>1, Invariance, PTL DEF Spec
=============================================================================

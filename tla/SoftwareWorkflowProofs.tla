----------------------- MODULE SoftwareWorkflowProofs -----------------------
(***************************************************************************)
(* Proofs about SoftwareWorkflow, for any number of processes, versions of *)
(* the Plan, contracts, works, approvals and edits.                        *)
(*                                                                         *)
(* The verification record is the key: it names the contract it is of, or  *)
(* belongs to the work last delivered, and everything that changes the     *)
(* contract replaces it.  A submission binds it, and so binds the contract *)
(* it never mentions.                                                      *)
(***************************************************************************)
EXTENDS SoftwareWorkflow, TLAPS

\* What the records on file have to do with each other.
Consistent(f) ==
  /\ f.verification \in Work =>
       /\ f.delivery = f.verification
       /\ f.trace = f.verification
       /\ f.work = f.verification
  /\ f.delivery \in Work => f.verification = f.delivery
  /\ f.verification \in Contract => f.contract = f.verification
  /\ f.verification = None => f.contract = None
  /\ f.release # None => f.work # None

\* Delivered work is for the contract on file.
ForContract == ~raced /\ files.verification \in Work =>
                 files.contract = ContractFor[files.verification]

\* A verification record goes with contract c.
GoesWith(v, c) ==
  /\ v # None
  /\ v \in Work => ContractFor[v] = c
  /\ v \in Contract => v = c

\* A submission has bound the contract its work is for; the verification record
\* it has bound goes with that contract, and the ledgers it is going to write
\* hold the events of its work.
SubmitRow(p) ==
  /\ pc[p] \in {"submit", "merge"} => job[p] \in Work
  /\ pc[p] = "merge" => job[p] \in payload[p]
  /\ pc[p] = "submittable" =>
       /\ job[p] \in Work
       /\ job[p] \in payload[p]
       /\ ~raced /\ ~torn[p] =>
            GoesWith(base[p].verification, ContractFor[job[p]])

\* A reconcile has derived the contract of the Plan that it has then bound.
ReconcileRow(p) ==
  /\ pc[p] = "reconcile" => job[p] \in Contract
  /\ pc[p] = "reconcilable" =>
       /\ job[p] \in Contract
       /\ ~torn[p] => Derives(base[p]) /\ job[p] = ContractOf[base[p].plan]

ProcessRow(p) == SubmitRow(p) /\ ReconcileRow(p)

\* The inductive invariant.
IInv ==
  /\ TypeOK
  /\ Consistent(files)
  /\ ForContract
  /\ \A p \in Process : ProcessRow(p)

-----------------------------------------------------------------------------
(* What the batches write                                                  *)

\* The workspace after a submission is applied, file by file.
LEMMA SubmittedFiles ==
  ASSUME TypeOK, NEW p \in Process, job[p] \in Work, ApplySubmit(p)
  PROVE  /\ files' \in Workspace
         /\ files'.plan = files.plan
         /\ files'.approval = files.approval
         /\ files'.ledger = payload[p]
         /\ files'.contract = files.contract
         /\ files'.trace = job[p]
         /\ files'.verification = job[p]
         /\ files'.delivery = job[p]
         /\ files'.work = job[p]
         /\ files'.release \in {job[p], files.release}
BY DEF TypeOK, Workspace, ApplySubmit

\* The workspace after a reconcile is applied, file by file.
LEMMA ReconciledFiles ==
  ASSUME TypeOK, NEW p \in Process, job[p] \in Contract, ApplyReconcile(p)
  PROVE  /\ files' \in Workspace
         /\ files'.plan = files.plan
         /\ files'.approval = files.approval
         /\ files'.ledger = files.ledger
         /\ files'.contract = job[p]
         /\ files'.trace = RowsOf[job[p]]
         /\ files'.verification = job[p]
         /\ files'.delivery = Unresolved
         /\ files'.work = files.work
         /\ files'.release = files.release
BY WorkflowAssumption
   DEF WorkflowAssumption, TypeOK, Workspace, ApplyReconcile, DerivedRecords

\* An append writes the ledgers and leaves the rest alone.
LEMMA AppendedFiles ==
  ASSUME TypeOK, NEW p \in Process, ApplyAppend(p)
  PROVE  /\ files' \in Workspace
         /\ files'.plan = files.plan
         /\ files'.approval = files.approval
         /\ files'.ledger = payload[p]
         /\ files'.contract = files.contract
         /\ files'.trace = files.trace
         /\ files'.verification = files.verification
         /\ files'.delivery = files.delivery
         /\ files'.work = files.work
         /\ files'.release = files.release
BY DEF TypeOK, Workspace, ApplyAppend

\* What the user leaves alone.
LEMMA UserFiles ==
  ASSUME TypeOK, UserNext
  PROVE  /\ files' \in Workspace
         /\ files'.ledger = files.ledger
         /\ files'.contract = files.contract
         /\ files'.trace = files.trace
         /\ files'.verification = files.verification
         /\ files'.delivery = files.delivery
         /\ files'.work = files.work
         /\ files'.release = files.release
<1>1. CASE \E v \in Plan : EditPlan(v)
  BY <1>1 DEF EditPlan, TypeOK, Workspace
<1>2. CASE \E a \in PlanApproval : WriteApproval(a)
  BY <1>2 DEF WriteApproval, TypeOK, Workspace
<1> QED
  BY <1>1, <1>2 DEF UserNext

\* The command whose batch may end, by itself or by being given up.
LEMMA EndingCommand ==
  ASSUME TypeOK, NEW p \in Process, ProcessNext(p), NEW q \in Process,
         pc[q] # "idle", pc'[q] = "idle"
  PROVE  q = p
BY DEF TypeOK, ProcessNext, StartAppend, BindAppend, ApplyAppend, StartSubmit,
       MergeLedger, BindSubmit, ApplySubmit, StartReconcile, BindReconcile,
       ApplyReconcile, GiveUp, Forget

\* A ledger that is written holds what was on file, but for what the writer
\* drops.
LEMMA Kept ==
  ASSUME TypeOK, NEW p \in Process, ApplyAppend(p) \/ ApplySubmit(p),
         NEW X, ~Drops(X)
  PROVE  X \intersect files.ledger \subseteq payload[p]
<1>1. pc[p] \in {"appendable", "submittable"} /\ pc'[p] = "idle"
  BY DEF TypeOK, ApplyAppend, ApplySubmit, Forget
<1>2. files.ledger = base[p].ledger
  BY DEF ApplyAppend, ApplySubmit, TargetsOf
<1> QED
  BY <1>1, <1>2 DEF Drops

-----------------------------------------------------------------------------
(* Types                                                                   *)

\* An initialised workspace is well formed.
LEMMA InitType == Init => TypeOK
<1> SUFFICES ASSUME Init PROVE TypeOK
  OBVIOUS
<1>1. {} \in Ledger
  BY DEF Ledger
<1>2. files \in Workspace
  BY <1>1 DEF Init, Workspace
<1> QED
  BY <1>1, <1>2 DEF Init, TypeOK, Locations

\* Ending a command keeps the memory of all well formed.
LEMMA ForgetType ==
  ASSUME TypeOK, NEW p \in Process, Forget(p)
  PROVE  /\ pc' \in [Process -> Locations]
         /\ job' \in [Process -> Work \union Contract \union {None}]
         /\ release' \in [Process -> BOOLEAN]
         /\ payload' \in [Process -> Ledger]
         /\ base' \in [Process -> Workspace \union Targets
                                 \union [ledger : Ledger] \union {None}]
         /\ torn' \in [Process -> BOOLEAN]
BY DEF TypeOK, Forget, Locations, Ledger

\* What a submission binds is a record of targets.
LEMMA TargetsType ==
  ASSUME NEW f \in Workspace, NEW r \in BOOLEAN
  PROVE  TargetsOf(f, r) \in Targets
BY DEF Workspace, Targets, TargetsOf

\* Every step of a command keeps files, jobs and bindings well formed.
LEMMA StepType ==
  ASSUME TypeOK, NEW p \in Process, ProcessRow(p), ProcessNext(p)
  PROVE  TypeOK'
<1>0. files.ledger \in Ledger
  BY DEF TypeOK, Workspace
<1>1. CASE \E x \in Appended : StartAppend(p, x)
  <2>1. PICK x \in Appended : StartAppend(p, x)
    BY <1>1
  <2>2. files.ledger \union {x} \in Ledger
    BY <1>0, WorkflowAssumption DEF WorkflowAssumption, Ledger
  <2> QED
    BY <2>1, <2>2 DEF StartAppend, TypeOK, Locations
<1>2. CASE BindAppend(p)
  BY <1>0, <1>2 DEF BindAppend, TypeOK, Locations
<1>3. CASE ApplyAppend(p)
  BY <1>3, AppendedFiles, ForgetType DEF ApplyAppend, TypeOK
<1>4. CASE \E w \in Work : StartSubmit(p, w)
  BY <1>4 DEF StartSubmit, TypeOK, Locations
<1>5. CASE MergeLedger(p)
  <2>1. job[p] \in Work
    BY <1>5 DEF ProcessRow, SubmitRow, MergeLedger
  <2>2. files.ledger \union {job[p]} \in Ledger
    BY <1>0, <2>1 DEF Ledger
  <2> QED
    BY <1>5, <2>2 DEF MergeLedger, TypeOK, Locations
<1>6. CASE \E r \in BOOLEAN : BindSubmit(p, r)
  <2>1. PICK r \in BOOLEAN : BindSubmit(p, r)
    BY <1>6
  <2>2. TargetsOf(files, r) \in Targets
    BY TargetsType DEF TypeOK
  <2>3. torn' \in [Process -> BOOLEAN]
    BY <2>1, Zenon DEF BindSubmit, TypeOK, Fits
  <2> QED
    BY <2>1, <2>2, <2>3 DEF BindSubmit, TypeOK, Locations
<1>7. CASE ApplySubmit(p)
  <2>1. job[p] \in Work
    BY <1>7 DEF ProcessRow, SubmitRow, ApplySubmit
  <2>2. files' \in Workspace
    BY <1>7, <2>1, SubmittedFiles
  <2>3. raced' \in BOOLEAN
    BY <1>7 DEF ApplySubmit, TypeOK
  <2> QED
    BY <1>7, <2>2, <2>3, ForgetType DEF ApplySubmit, TypeOK
<1>8. CASE StartReconcile(p)
  <2>1. ContractOf[files.plan] \in Contract
    BY <1>8, WorkflowAssumption
       DEF WorkflowAssumption, StartReconcile, Derives, TypeOK, Workspace
  <2> QED
    BY <1>8, <2>1 DEF StartReconcile, TypeOK, Locations
<1>9. CASE BindReconcile(p)
  <2>1. torn' \in [Process -> BOOLEAN]
    BY <1>9, Zenon DEF BindReconcile, TypeOK
  <2> QED
    BY <1>9, <2>1 DEF BindReconcile, TypeOK, Locations
<1>10. CASE ApplyReconcile(p)
  <2>1. job[p] \in Contract
    BY <1>10 DEF ProcessRow, ReconcileRow, ApplyReconcile
  <2>2. files' \in Workspace
    BY <1>10, <2>1, ReconciledFiles
  <2> QED
    BY <1>10, <2>2, ForgetType DEF ApplyReconcile, TypeOK
<1>11. CASE GiveUp(p)
  BY <1>11, ForgetType DEF GiveUp, TypeOK
<1> QED
  BY <1>1, <1>2, <1>3, <1>4, <1>5, <1>6, <1>7, <1>8, <1>9, <1>10, <1>11
     DEF ProcessNext

\* So does the user.
LEMMA UserType ==
  ASSUME TypeOK, UserNext
  PROVE  TypeOK'
<1>1. files' \in Workspace
  BY UserFiles
<1>2. UNCHANGED <<pc, job, payload, release, base, torn, raced>>
  BY DEF UserNext, EditPlan, WriteApproval
<1> QED
  BY <1>1, <1>2 DEF TypeOK

-----------------------------------------------------------------------------
(* The files                                                               *)

\* Nothing is recorded yet that could disagree.
LEMMA InitConsistent == Init => Consistent(files) /\ ForContract
BY WorkflowAssumption DEF WorkflowAssumption, Init, Consistent, ForContract

\* A submission writes records that agree, for the contract on file unless it
\* was torn.
LEMMA SubmitConsistent ==
  ASSUME IInv, NEW p \in Process, ApplySubmit(p)
  PROVE  Consistent(files)' /\ ForContract'
<1>1. SubmitRow(p) /\ pc[p] = "submittable"
  BY DEF IInv, ProcessRow, ApplySubmit
<1>2. job[p] \in Work
  BY <1>1 DEF SubmitRow
<1>3. Consistent(files)'
  BY <1>2, SubmittedFiles, WorkflowAssumption
     DEF WorkflowAssumption, Consistent, IInv
<1>4. ASSUME ~raced' PROVE files.contract = ContractFor[job[p]]
  <2>1. ~raced /\ ~torn[p]
    BY <1>4 DEF ApplySubmit
  <2>2. GoesWith(files.verification, ContractFor[job[p]])
    BY <1>1, <2>1 DEF SubmitRow, ApplySubmit, TargetsOf
  <2>3. files.verification \in Contract \union Work \union {None}
    BY DEF IInv, TypeOK, Workspace
  <2>4. Consistent(files) /\ ForContract
    BY DEF IInv
  <2> QED
    BY <2>1, <2>2, <2>3, <2>4 DEF GoesWith, Consistent, ForContract
<1>5. ForContract'
  BY <1>2, <1>4, SubmittedFiles DEF ForContract, IInv
<1> QED
  BY <1>3, <1>5

\* A reconcile writes a contract with empty records of it.
LEMMA ReconcileConsistent ==
  ASSUME IInv, NEW p \in Process, ApplyReconcile(p)
  PROVE  Consistent(files)' /\ ForContract'
<1>1. job[p] \in Contract
  BY DEF IInv, ProcessRow, ReconcileRow, ApplyReconcile
<1>2. job[p] \notin Work /\ job[p] # None /\ Unresolved \notin Work
  BY <1>1, WorkflowAssumption DEF WorkflowAssumption
<1> QED
  BY <1>1, <1>2, ReconciledFiles DEF Consistent, ForContract, IInv

\* An append touches none of these records.
LEMMA AppendConsistent ==
  ASSUME IInv, NEW p \in Process, ApplyAppend(p)
  PROVE  Consistent(files)' /\ ForContract'
BY AppendedFiles DEF ApplyAppend, Consistent, ForContract, IInv

\* Neither does the user.
LEMMA UserConsistent ==
  ASSUME IInv, UserNext
  PROVE  Consistent(files)' /\ ForContract'
<1>1. raced' = raced
  BY DEF UserNext, EditPlan, WriteApproval
<1> QED
  BY <1>1, UserFiles DEF Consistent, ForContract, IInv

-----------------------------------------------------------------------------
(* The rows                                                                *)

\* A command at rest satisfies its row.
LEMMA RestingRow ==
  ASSUME NEW p \in Process, pc[p] = "idle"
  PROVE  ProcessRow(p)
BY DEF ProcessRow, SubmitRow, ReconcileRow

\* A command that ends has nothing left to be wrong about.
LEMMA ForgetRow ==
  ASSUME TypeOK, NEW p \in Process, Forget(p)
  PROVE  ProcessRow(p)'
BY DEF TypeOK, Forget, ProcessRow, SubmitRow, ReconcileRow

\* A command's own steps.
LEMMA OwnRow ==
  ASSUME IInv, NEW p \in Process, ProcessNext(p)
  PROVE  ProcessRow(p)'
<1> USE DEF IInv
<1>1. CASE \E x \in Appended : StartAppend(p, x)
  BY <1>1 DEF StartAppend, TypeOK, ProcessRow, SubmitRow, ReconcileRow
<1>2. CASE BindAppend(p)
  BY <1>2 DEF BindAppend, TypeOK, ProcessRow, SubmitRow, ReconcileRow
<1>3. CASE ApplyAppend(p)
  BY <1>3, ForgetRow DEF ApplyAppend
<1>4. CASE \E w \in Work : StartSubmit(p, w)
  BY <1>4 DEF StartSubmit, TypeOK, ProcessRow, SubmitRow, ReconcileRow
<1>5. CASE MergeLedger(p)
  BY <1>5 DEF MergeLedger, TypeOK, ProcessRow, SubmitRow, ReconcileRow
<1>6. CASE \E r \in BOOLEAN : BindSubmit(p, r)
  <2>1. PICK r \in BOOLEAN : BindSubmit(p, r)
    BY <1>6
  <2>2. /\ pc[p] = "merge" /\ pc'[p] = "submittable" /\ job' = job
        /\ torn'[p] = (files.contract # ContractFor[job[p]])
        /\ raced' = raced /\ payload' = payload
        /\ base'[p].verification = files.verification
    BY <2>1 DEF BindSubmit, TypeOK, TargetsOf, Fits
  <2>3. job[p] \in Work /\ job[p] \in payload[p]
    BY <2>2 DEF ProcessRow, SubmitRow
  <2>4. ContractFor[job[p]] # None
    BY <2>3, WorkflowAssumption DEF WorkflowAssumption
  <2>5. ~raced /\ ~torn'[p] =>
          GoesWith(files.verification, ContractFor[job[p]])
    BY <2>2, <2>4 DEF GoesWith, Consistent, ForContract
  <2> QED
    BY <2>2, <2>3, <2>5 DEF ProcessRow, SubmitRow, ReconcileRow
<1>7. CASE ApplySubmit(p)
  BY <1>7, ForgetRow DEF ApplySubmit
<1>8. CASE StartReconcile(p)
  <2>1. ContractOf[files.plan] \in Contract
    BY <1>8, WorkflowAssumption
       DEF WorkflowAssumption, StartReconcile, Derives, TypeOK, Workspace
  <2> QED
    BY <1>8, <2>1 DEF StartReconcile, TypeOK, ProcessRow, SubmitRow,
                      ReconcileRow
<1>9. CASE BindReconcile(p)
  <2>1. /\ pc[p] = "reconcile" /\ pc'[p] = "reconcilable" /\ job' = job
        /\ ~torn'[p] => Derives(files) /\ job[p] = ContractOf[files.plan]
        /\ base'[p] = files
    BY <1>9 DEF BindReconcile, TypeOK
  <2>2. job[p] \in Contract
    BY <2>1 DEF ProcessRow, ReconcileRow
  <2>3. Derives(files) => Derives(base'[p])
    BY <2>1 DEF Derives, PlanApproved
  <2> QED
    BY <2>1, <2>2, <2>3 DEF ProcessRow, SubmitRow, ReconcileRow,
                            Derives, PlanApproved
<1>10. CASE ApplyReconcile(p)
  BY <1>10, ForgetRow DEF ApplyReconcile
<1>11. CASE GiveUp(p)
  BY <1>11, ForgetRow DEF GiveUp
<1> QED
  BY <1>1, <1>2, <1>3, <1>4, <1>5, <1>6, <1>7, <1>8, <1>9, <1>10, <1>11
     DEF ProcessNext

\* A step that is not q's leaves alone what q has in memory, and its row is
\* about nothing else.
LEMMA OthersRow ==
  ASSUME NEW q \in Process, ProcessRow(q),
         pc'[q] = pc[q], job'[q] = job[q], base'[q] = base[q],
         torn'[q] = torn[q], payload'[q] = payload[q], raced => raced'
  PROVE  ProcessRow(q)'
BY DEF ProcessRow, SubmitRow, ReconcileRow, Derives, PlanApproved

\* The steps of another command.
LEMMA OtherProcessRow ==
  ASSUME IInv, NEW p \in Process, ProcessNext(p), NEW q \in Process, q # p
  PROVE  ProcessRow(q)'
<1>1. /\ pc'[q] = pc[q] /\ job'[q] = job[q] /\ base'[q] = base[q]
      /\ torn'[q] = torn[q] /\ payload'[q] = payload[q]
      /\ raced => raced'
  BY DEF IInv, ProcessNext, StartAppend, BindAppend, ApplyAppend, StartSubmit,
         MergeLedger, BindSubmit, ApplySubmit, StartReconcile, BindReconcile,
         ApplyReconcile, GiveUp, Forget, TypeOK
<1> QED
  BY <1>1, OthersRow DEF IInv

\* The steps of the user.
LEMMA UserRow ==
  ASSUME IInv, UserNext, NEW q \in Process
  PROVE  ProcessRow(q)'
<1>1. UNCHANGED <<pc, job, payload, base, torn, raced>>
  BY DEF UserNext, EditPlan, WriteApproval
<1> QED
  BY <1>1, OthersRow DEF IInv

-----------------------------------------------------------------------------
(* The invariant                                                           *)

\* The invariant holds of an initialised workspace.
LEMMA Initially == Init => IInv
<1> SUFFICES ASSUME Init PROVE IInv
  OBVIOUS
<1>1. \A p \in Process : pc[p] = "idle"
  BY DEF Init
<1> QED
  BY <1>1, InitType, InitConsistent, RestingRow DEF IInv

\* A step that changes nothing keeps the invariant.
LEMMA StutterPreserves ==
  ASSUME IInv, UNCHANGED vars
  PROVE  IInv'
BY DEF vars, IInv, TypeOK, Consistent, ForContract, ProcessRow, SubmitRow,
       ReconcileRow, Derives, PlanApproved

\* Every step keeps the invariant.
LEMMA NextPreserves ==
  ASSUME IInv, Next
  PROVE  IInv'
<1>1. CASE UserNext
  <2>1. TypeOK'
    BY <1>1, UserType DEF IInv
  <2>2. \A q \in Process : ProcessRow(q)'
    BY <1>1, UserRow
  <2> QED
    BY <1>1, <2>1, <2>2, UserConsistent DEF IInv
<1>2. ASSUME NEW p \in Process, ProcessNext(p) PROVE IInv'
  <2>1. TypeOK'
    BY <1>2, StepType DEF IInv
  <2>2. \A q \in Process : ProcessRow(q)'
    BY <1>2, OwnRow, OtherProcessRow
  <2>3. Consistent(files)' /\ ForContract'
    <3>1. CASE files' = files /\ raced' = raced
      BY <3>1 DEF IInv, Consistent, ForContract
    <3> QED
      BY <1>2, <3>1, AppendConsistent, SubmitConsistent, ReconcileConsistent
         DEF ProcessNext, StartAppend, BindAppend, StartSubmit, MergeLedger,
             BindSubmit, StartReconcile, BindReconcile, GiveUp
  <2> QED
    BY <2>1, <2>2, <2>3 DEF IInv
<1> QED
  BY <1>1, <1>2 DEF Next

\* The invariant holds whatever is submitted, reconciled and edited.
THEOREM Invariance == Spec => []IInv
<1>1. IInv /\ [Next]_vars => IInv'
  BY NextPreserves, StutterPreserves
<1> QED
  BY Initially, <1>1, PTL DEF Spec

-----------------------------------------------------------------------------
(* The results                                                             *)

\* Workspace, commands and manifests keep their types.
THEOREM TypeCorrect == Spec => []TypeOK
BY Invariance, PTL DEF IInv

\* Whatever Plans, approvals and contracts come and go, work that status calls
\* approved is what the delivery and traceability records hold.
THEOREM ApprovedWorkIsDelivered == Spec => []ApprovedIsDelivered
<1>1. IInv => ApprovedIsDelivered
  BY DEF IInv, Consistent, ApprovedIsDelivered, WorkApproved
<1> QED
  BY <1>1, Invariance, PTL

\* A delivery on file is valid to status while the ledgers hold its events,
\* since the verification record, which every submission binds, changes with the
\* contract.
THEOREM DeliveredWorkIsApproved == Spec => []DeliveredIsApproved
<1>1. IInv => DeliveredIsApproved
  BY DEF IInv, Consistent, ForContract, DeliveredIsApproved, WorkApproved
<1> QED
  BY <1>1, Invariance, PTL

\* Between them, these steps change the files; the others leave them alone.
LEMMA FileSteps ==
  ASSUME NEW p \in Process, ProcessNext(p), files' # files
  PROVE  ApplyAppend(p) \/ ApplySubmit(p) \/ ApplyReconcile(p)
BY DEF ProcessNext, StartAppend, BindAppend, StartSubmit, MergeLedger,
       BindSubmit, StartReconcile, BindReconcile, GiveUp

\* One step that is not a reconcile and drops nothing of the work on file keeps
\* approved work approved.
LEMMA StepApproved ==
  ASSUME IInv, IInv', Next, WorkApproved(files), ~raced', ~Reconciled,
         ~Drops({files.work})
  PROVE  WorkApproved(files')
<1>1. CASE UserNext
  BY <1>1, UserFiles DEF IInv, WorkApproved
<1>2. ASSUME NEW p \in Process, ProcessNext(p) PROVE WorkApproved(files')
  <2>1. CASE ApplyAppend(p)
    <3>1. files.work \in payload[p]
      BY <2>1, Kept DEF IInv, WorkApproved
    <3> QED
      BY <2>1, <3>1, AppendedFiles DEF IInv, WorkApproved
  <2>2. CASE ApplySubmit(p)
    <3>1. job[p] \in Work
      BY <2>2 DEF IInv, ProcessRow, SubmitRow, ApplySubmit
    <3>2. files'.verification \in Work /\ files'.work = job[p]
      BY <2>2, <3>1, SubmittedFiles DEF IInv
    <3>3. job[p] \in payload[p]
      BY <2>2 DEF IInv, ProcessRow, SubmitRow, ApplySubmit
    <3> QED
      BY <2>2, <3>1, <3>2, <3>3, SubmittedFiles
         DEF IInv, Consistent, ForContract, WorkApproved
  <2>3. CASE ApplyReconcile(p)
    BY <2>3 DEF IInv, TypeOK, ApplyReconcile, Forget, Reconciled
  <2>4. CASE files' = files
    BY <2>4
  <2> QED
    BY <1>2, <2>1, <2>2, <2>3, <2>4, FileSteps
<1> QED
  BY <1>1, <1>2 DEF Next

\* Approved work stays approved or is replaced by approved work, until a
\* reconcile is applied or a stale write of the ledgers drops its events.
THEOREM ApprovalLasts == Spec => ApprovedUntilReconciled
<1>1. IInv /\ IInv' /\ [Next]_vars =>
        [WorkApproved(files) /\ ~raced' =>
           \/ WorkApproved(files')
           \/ Reconciled
           \/ Drops({files.work})]_vars
  BY StepApproved
<1> QED
  BY <1>1, Invariance, PTL DEF Spec, ApprovedUntilReconciled

\* Doctor on one step that is neither an edit of Plan or approval nor a
\* reconcile, and drops nothing that the approvals rest on.
LEMMA StepSatisfies ==
  ASSUME IInv, IInv', Next, DoctorAccepts(files), ~raced',
         files'.plan = files.plan, files'.approval = files.approval,
         ~Reconciled,
         ~Drops(EvidenceOf[files.approval] \union {files.work}),
         files'.work # files.work => files'.release \in {None, files'.work}
  PROVE  DoctorAccepts(files')
<1>1. CASE UserNext
  <2>1. PlanApproved(files) => PlanApproved(files')
    BY <1>1, UserFiles DEF IInv, PlanApproved
  <2>2. WorkApproved(files) => WorkApproved(files')
    BY <1>1, UserFiles DEF IInv, WorkApproved
  <2> QED
    BY <1>1, <2>1, <2>2, UserFiles DEF IInv, DoctorAccepts, ReleaseApproved
<1>2. ASSUME NEW p \in Process, ApplyAppend(p)
      PROVE  DoctorAccepts(files')
  <2>1. /\ files'.ledger = payload[p]
        /\ files'.contract = files.contract
        /\ files'.trace = files.trace
        /\ files'.verification = files.verification
        /\ files'.delivery = files.delivery
        /\ files'.work = files.work /\ files'.release = files.release
    BY <1>2, AppendedFiles DEF IInv
  <2>2. (EvidenceOf[files.approval] \union {files.work}) \intersect files.ledger
          \subseteq payload[p]
    BY <1>2, Kept DEF IInv
  <2>3. PlanApproved(files) => PlanApproved(files')
    BY <2>1, <2>2 DEF PlanApproved
  <2>4. WorkApproved(files) => WorkApproved(files')
    BY <2>1, <2>2 DEF WorkApproved
  <2> QED
    BY <2>1, <2>3, <2>4 DEF DoctorAccepts, ReleaseApproved
<1>3. ASSUME NEW p \in Process, ApplySubmit(p)
      PROVE  DoctorAccepts(files')
  <2>1. job[p] \in Work
    BY <1>3 DEF IInv, ProcessRow, SubmitRow, ApplySubmit
  <2>2. /\ files'.ledger = payload[p]
        /\ files'.contract = files.contract
        /\ files'.trace = job[p] /\ files'.verification = job[p]
        /\ files'.work = job[p]
        /\ files'.release \in {job[p], files.release}
    BY <1>3, <2>1, SubmittedFiles DEF IInv
  <2>3. PlanApproved(files) => PlanApproved(files')
    <3>1. (EvidenceOf[files.approval] \union {files.work})
            \intersect files.ledger \subseteq payload[p]
      BY <1>3, Kept DEF IInv
    <3> QED
      BY <2>2, <3>1 DEF PlanApproved
  <2>4. WorkApproved(files')
    <3>1. job[p] \in payload[p]
      BY <1>3 DEF IInv, ProcessRow, SubmitRow, ApplySubmit
    <3> QED
      BY <2>1, <2>2, <3>1 DEF IInv, Consistent, ForContract, WorkApproved
  <2>5. files'.release # None /\ files.plan \in Declared =>
          files'.release = files'.work
    <3>1. CASE files'.work # files.work
      BY <3>1
    <3>2. CASE files'.work = files.work
      BY <2>2, <3>2 DEF DoctorAccepts, ReleaseApproved
    <3> QED
      BY <3>1, <3>2
  <2>6. files'.work # None
    BY <2>1, <2>2, WorkflowAssumption DEF WorkflowAssumption
  <2> QED
    BY <2>1, <2>2, <2>3, <2>4, <2>5, <2>6 DEF DoctorAccepts, ReleaseApproved
<1>4. ASSUME NEW p \in Process, ProcessNext(p), ~ApplyAppend(p),
             ~ApplySubmit(p)
      PROVE  DoctorAccepts(files')
  <2>1. ~ApplyReconcile(p)
    BY DEF IInv, TypeOK, ApplyReconcile, Forget, Reconciled
  <2>2. files' = files
    BY <1>4, <2>1, FileSteps
  <2> QED
    BY <2>2
<1> QED
  BY <1>1, <1>2, <1>3, <1>4 DEF Next

\* No append or submission makes doctor find an error, in whatever state it is
\* applied, unless it drops events the approvals rest on, or leaves the release
\* of other work behind.
THEOREM SubmissionsPleaseDoctor == Spec => SubmissionsSatisfyDoctor
<1>1. IInv /\ IInv' /\ [Next]_vars =>
        [DoctorAccepts(files) /\ ~DoctorAccepts(files') /\ ~raced' =>
           \/ files'.plan # files.plan \/ files'.approval # files.approval
           \/ Reconciled
           \/ Drops(EvidenceOf[files.approval] \union {files.work})
           \/ /\ files'.work # files.work
              /\ files'.release \notin {None, files'.work}]_vars
  BY StepSatisfies
<1> QED
  BY <1>1, Invariance, PTL DEF Spec, SubmissionsSatisfyDoctor

\* What the reconcile that is applied has derived is still what the Plan says.
LEMMA StepSettles ==
  ASSUME IInv, Next, NEW p \in Process, pc[p] = "reconcilable",
         pc'[p] = "idle", files' # files, ~torn[p]
  PROVE  ~Drift(files') /\ (DoctorAccepts(files') <=> files'.work = None)
<1>1. ApplyReconcile(p)
  <2>1. ~UserNext
    BY DEF UserNext, EditPlan, WriteApproval
  <2>2. PICK q \in Process : ProcessNext(q)
    BY <2>1 DEF Next
  <2>3. q = p
    BY <2>2, EndingCommand DEF IInv
  <2> QED
    BY <2>2, <2>3, FileSteps DEF ApplyAppend, ApplySubmit
<1>2. /\ job[p] \in Contract
      /\ Derives(files)
      /\ job[p] = ContractOf[files.plan]
  BY <1>1 DEF IInv, ProcessRow, ReconcileRow, ApplyReconcile,
              WorkspaceUnchanged
<1> DEFINE g == files'
<1>3. /\ g.plan = files.plan /\ g.approval = files.approval
      /\ g.ledger = files.ledger
      /\ g.contract = ContractOf[g.plan]
      /\ g.trace = RowsOf[g.contract]
      /\ g.verification = g.contract /\ g.verification \in Contract
      /\ g.delivery = Unresolved
      /\ g.work = files.work /\ g.release = files.release
  BY <1>1, <1>2, ReconciledFiles DEF IInv
<1> HIDE DEF g
<1>4. g.plan \in Declared /\ PlanApproved(g)
  BY <1>2, <1>3 DEF Derives, PlanApproved
<1>5. ~Drift(g)
  BY <1>3, <1>4, WorkflowAssumption DEF Drift, WorkflowAssumption
<1>6. ~WorkApproved(g)
  BY <1>3, WorkflowAssumption DEF WorkApproved, WorkflowAssumption
<1>7. g.work = None => g.release = None
  BY <1>3 DEF IInv, Consistent
<1>8. DoctorAccepts(g) <=> g.work = None
  BY <1>3, <1>4, <1>6, <1>7 DEF DoctorAccepts
<1> QED
  BY <1>5, <1>8 DEF g

\* A reconcile repairs what diff sees, and what doctor sees unless it has just
\* written empty records over those of approved work.
THEOREM ReconcileRepairs == Spec => ReconcileSettles
<1>1. IInv /\ [Next]_vars =>
        [\A p \in Process :
           pc[p] = "reconcilable" /\ pc'[p] = "idle" /\ files' # files
             /\ ~torn[p] =>
               ~Drift(files') /\ (DoctorAccepts(files') <=> files'.work = None)]_vars
  BY StepSettles
<1> QED
  BY <1>1, Invariance, PTL DEF Spec, ReconcileSettles
=============================================================================

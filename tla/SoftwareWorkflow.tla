-------------------------- MODULE SoftwareWorkflow --------------------------
(***************************************************************************)
(* core/lifecycle.py: the software workflow (H4).                          *)
(*                                                                         *)
(* From an approved Plan, reconcile derives a contract with empty records  *)
(* of traceability, verification and delivery; submit_software_workflow    *)
(* replaces these by the records of work that was approved for the         *)
(* contract; status, doctor and diff judge what they find.  All of these   *)
(* are files.  reconcile and submit read them, build a manifest and apply  *)
(* it later, in one batch, if what the manifest has bound is unchanged     *)
(* (see ManifestApply).  Only applying takes the write lock.               *)
(*                                                                         *)
(* A fingerprint is what it is taken of.  Work stands for all records of   *)
(* one submission: artifacts, evidence, review, verifications and the      *)
(* approval that binds them to one contract.  The two event ledgers are    *)
(* one set here, with a work in it if both hold all its events.  A command *)
(* writes a ledger from one reading of it and binds another, so that what  *)
(* comes in between is dropped; see EventLedger.                           *)
(*                                                                         *)
(* Plans are without evidence governance: the H6 views are left to         *)
(* EventLedger and WorkspaceLifecycle.                                     *)
(***************************************************************************)
CONSTANTS Process,
          Plan,          \* the contents the Plan may have; all of them
                         \* enable the software-engineering pack
          Declared,      \* those with approval_state "approved"
          PlanApproval,  \* approval records that may be written for a Plan
          PlanOf,        \* plan_fingerprint of an approval
          Standing,      \* approvals with decision, scope, owner, parties and
                         \* own fingerprint in order
          EvidenceOf,    \* evidence_refs of an approval
          Evidence,      \* evidence records about the Plan
          Contract,
          ContractOf,    \* the contract derived from a Plan
          Row,           \* sets of requirement and acceptance rows
          RowsOf,        \* the rows of a contract
          Work,
          ContractFor,   \* the contract the work was made and approved for
          Appended,      \* what append_h6_events is called with
          None,          \* no such file
          Unresolved     \* the delivery record of no work

ASSUME WorkflowAssumption ==
  /\ Declared \subseteq Plan
  /\ Standing \subseteq PlanApproval
  /\ PlanOf \in [PlanApproval -> Plan]
  /\ EvidenceOf \in [PlanApproval -> SUBSET Evidence]
  /\ ContractOf \in [Plan -> Contract]
  /\ RowsOf \in [Contract -> Row]
  /\ ContractFor \in [Work -> Contract]
  /\ Appended \subseteq Work \union Evidence
  /\ Work \intersect (Contract \union Row \union {None, Unresolved}) = {}
  /\ None \notin Plan \union PlanApproval \union Contract \union Row
  /\ Unresolved # None

VARIABLES files,   \* the workspace
          pc,      \* where each process is
          job,     \* the work it submits, or the contract it has derived
          payload, \* the event ledgers as it is going to write them
          release, \* whether its submission carries a release approval
          base,    \* base[p]: the files p has bound, as they were then
          torn,    \* torn[p]: p bound other files than its job is made for
          raced    \* a torn submission has been applied

vars == <<files, pc, job, payload, release, base, torn, raced>>

Ledger == SUBSET (Work \union Evidence)

Workspace ==
  [plan : Plan, approval : PlanApproval \union {None},
   ledger : Ledger,
   contract : Contract \union {None},
   trace : Row \union Work \union {None},
   verification : Contract \union Work \union {None}, \* of a contract: not run
   delivery : Work \union {Unresolved, None},
   work : Work \union {None},     \* review, approval and task of the work
   release : Work \union {None}]  \* external release approval of the work

Targets ==
  [ledger : Ledger, trace : Row \union Work \union {None},
   verification : Contract \union Work \union {None},
   delivery : Work \union {Unresolved, None}, work : Work \union {None},
   release : Work \union {None}]

\* append_h6_events: "append", "appendable"; submit: "submit", "merge",
\* "submittable"; reconcile: "reconcile", "reconcilable".
Locations == {"idle", "append", "appendable", "submit", "merge", "submittable",
              "reconcile", "reconcilable"}

TypeOK ==
  /\ files \in Workspace
  /\ pc \in [Process -> Locations]
  /\ job \in [Process -> Work \union Contract \union {None}]
  /\ payload \in [Process -> Ledger]
  /\ release \in [Process -> BOOLEAN]
  /\ base \in [Process -> Workspace \union Targets \union [ledger : Ledger]
                          \union {None}]
  /\ torn \in [Process -> BOOLEAN]
  /\ raced \in BOOLEAN

\* An initialised workspace: a proposed Plan, and nothing derived from it.
Init ==
  /\ files \in [plan : Plan \ Declared, approval : {None}, ledger : {{}},
                contract : {None}, trace : {None}, verification : {None},
                delivery : {None}, work : {None}, release : {None}]
  /\ pc = [p \in Process |-> "idle"]
  /\ job = [p \in Process |-> None]
  /\ payload = [p \in Process |-> {}]
  /\ release = [p \in Process |-> FALSE]
  /\ base = [p \in Process |-> None]
  /\ torn = [p \in Process |-> FALSE]
  /\ raced = FALSE

\* The command ends; what it had in memory is gone.
Forget(p) ==
  /\ pc' = [pc EXCEPT ![p] = "idle"]
  /\ job' = [job EXCEPT ![p] = None]
  /\ payload' = [payload EXCEPT ![p] = {}]
  /\ release' = [release EXCEPT ![p] = FALSE]
  /\ base' = [base EXCEPT ![p] = None]
  /\ torn' = [torn EXCEPT ![p] = FALSE]

-----------------------------------------------------------------------------
(* What the readers make of the files                                      *)

\* validate_plan_approval.  It does not look at the Plan's approval_state.
PlanApproved(f) ==
  /\ f.approval \in Standing
  /\ PlanOf[f.approval] = f.plan
  /\ EvidenceOf[f.approval] \subseteq f.ledger

\* A contract can be derived, and is.
Derives(f) == f.plan \in Declared /\ PlanApproved(f)

\* status: work_product_approval_state and external_release_state, "approved".
WorkApproved(f) ==
  /\ f.work \in Work
  /\ f.contract = ContractFor[f.work]
  /\ f.verification = f.work
  /\ f.work \in f.ledger

ReleaseApproved(f) == WorkApproved(f) /\ f.release = f.work

\* diff: the files are not what would be derived now.  Of verification and
\* delivery, any will do.
Drift(f) ==
  /\ f.plan \in Declared
  /\ \/ ~PlanApproved(f)
     \/ f.contract # ContractOf[f.plan]
     \/ f.trace # RowsOf[ContractOf[f.plan]]
     \/ f.verification = None
     \/ f.delivery = None

\* doctor: once there is approved work, it takes the place of the empty records.
DoctorAccepts(f) ==
  f.plan \in Declared =>
    /\ PlanApproved(f)
    /\ f.contract = ContractOf[f.plan]
    /\ f.work = None =>
         /\ f.trace = RowsOf[f.contract]
         /\ f.verification = f.contract
         /\ f.delivery = Unresolved
    /\ f.work # None => WorkApproved(f) /\ f.trace \in Work
    /\ f.release # None => ReleaseApproved(f)

-----------------------------------------------------------------------------
(* append_h6_events                                                        *)

\* The ledgers are read and merged with an event, or with all of a work.
StartAppend(p, x) ==
  /\ pc[p] = "idle"
  /\ pc' = [pc EXCEPT ![p] = "append"]
  /\ payload' = [payload EXCEPT ![p] = files.ledger \union {x}]
  /\ UNCHANGED <<files, job, release, base, torn, raced>>

\* The ledgers are read once more, for their fingerprints.
BindAppend(p) ==
  /\ pc[p] = "append"
  /\ pc' = [pc EXCEPT ![p] = "appendable"]
  /\ base' = [base EXCEPT ![p] = [ledger |-> files.ledger]]
  /\ UNCHANGED <<files, job, payload, release, torn, raced>>

ApplyAppend(p) ==
  /\ pc[p] = "appendable"
  /\ files.ledger = base[p].ledger
  /\ files' = [files EXCEPT !.ledger = payload[p]]
  /\ Forget(p)
  /\ UNCHANGED raced

-----------------------------------------------------------------------------
(* submit_software_workflow                                                *)

\* Faulty variant: the approval's contract fingerprint is not compared.
FitsAnyContract(w) == files.contract # None

\* The work was approved for the contract on file, and fills its rows.
Fits(w) == files.contract = ContractFor[w]

\* Plan, approval, evidence and contract are read and validated.
StartSubmit(p, w) ==
  /\ pc[p] = "idle"
  /\ PlanApproved(files)
  /\ Fits(w)
  /\ pc' = [pc EXCEPT ![p] = "submit"]
  /\ job' = [job EXCEPT ![p] = w]
  /\ UNCHANGED <<files, payload, release, base, torn, raced>>

\* The ledgers are read and merged with the events of the work.
MergeLedger(p) ==
  /\ pc[p] = "submit"
  /\ pc' = [pc EXCEPT ![p] = "merge"]
  /\ payload' = [payload EXCEPT ![p] = files.ledger \union {job[p]}]
  /\ UNCHANGED <<files, job, release, base, torn, raced>>

\* Faulty variant: the verification record is written without a fingerprint.
TargetsButVerification(f, r) ==
  [ledger |-> f.ledger, trace |-> f.trace, verification |-> None,
   delivery |-> f.delivery, work |-> f.work,
   release |-> IF r THEN f.release ELSE None]

\* The files a submission writes, with a release approval (r) or without one.
TargetsOf(f, r) ==
  [ledger |-> f.ledger, trace |-> f.trace, verification |-> f.verification,
   delivery |-> f.delivery, work |-> f.work,
   release |-> IF r THEN f.release ELSE None]

\* The targets are fingerprinted, the ledgers among them; a release approval
\* that comes with the work (r) is looked at last.  The workspace snapshot
\* leaves the metadata directory out, and with it Plan, approval and contract.
BindSubmit(p, r) ==
  /\ pc[p] = "merge"
  /\ pc' = [pc EXCEPT ![p] = "submittable"]
  /\ release' = [release EXCEPT ![p] = r]
  /\ base' = [base EXCEPT ![p] = TargetsOf(files, r)]
  /\ torn' = [torn EXCEPT ![p] = ~Fits(job[p])]
  /\ UNCHANGED <<files, job, payload, raced>>

ApplySubmit(p) ==
  /\ pc[p] = "submittable"
  /\ TargetsOf(files, release[p]) = base[p]
  /\ files' = [files EXCEPT !.ledger = payload[p],
                            !.trace = job[p], !.verification = job[p],
                            !.delivery = job[p], !.work = job[p],
                            !.release = IF release[p] THEN job[p] ELSE @]
  /\ raced' = (raced \/ torn[p])
  /\ Forget(p)

-----------------------------------------------------------------------------
(* reconcile                                                               *)

\* Plan, approval and evidence are read and the contract derived.  (Without
\* one, reconcile writes none of these files.)
StartReconcile(p) ==
  /\ pc[p] = "idle"
  /\ Derives(files)
  /\ pc' = [pc EXCEPT ![p] = "reconcile"]
  /\ job' = [job EXCEPT ![p] = ContractOf[files.plan]]
  /\ UNCHANGED <<files, payload, release, base, torn, raced>>

\* The workspace is fingerprinted, with its metadata directory.
BindReconcile(p) ==
  /\ pc[p] = "reconcile"
  /\ pc' = [pc EXCEPT ![p] = "reconcilable"]
  /\ base' = [base EXCEPT ![p] = files]
  /\ torn' = [torn EXCEPT ![p] =
                ~(Derives(files) /\ job[p] = ContractOf[files.plan])]
  /\ UNCHANGED <<files, job, payload, release, raced>>

\* Faulty variant: here, too, the snapshot leaves the metadata directory out.
OutputsUnchanged(p) ==
  /\ files.contract = base[p].contract
  /\ TargetsOf(files, FALSE) = TargetsOf(base[p], FALSE)

WorkspaceUnchanged(p) == files = base[p]

\* Faulty variant: verification is kept once there is one, as diff takes it.
DerivedKeepingVerification(f, c) ==
  [f EXCEPT !.contract = c, !.trace = RowsOf[c],
            !.verification = IF @ = None THEN c ELSE @,
            !.delivery = Unresolved]

\* The contract and its empty records, in place of any that there are.
DerivedRecords(f, c) ==
  [f EXCEPT !.contract = c, !.trace = RowsOf[c], !.verification = c,
            !.delivery = Unresolved]

ApplyReconcile(p) ==
  /\ pc[p] = "reconcilable"
  /\ WorkspaceUnchanged(p)
  /\ files' = DerivedRecords(files, job[p])
  /\ Forget(p)
  /\ UNCHANGED raced

-----------------------------------------------------------------------------
(* The user, and every command                                             *)

EditPlan(v) ==
  /\ v # files.plan
  /\ files' = [files EXCEPT !.plan = v]
  /\ UNCHANGED <<pc, job, payload, release, base, torn, raced>>

WriteApproval(a) ==
  /\ a # files.approval
  /\ files' = [files EXCEPT !.approval = a]
  /\ UNCHANGED <<pc, job, payload, release, base, torn, raced>>

\* The command ends without effect: its manifest is not approved or no longer
\* fits the workspace, the dry run is discarded, the process is killed.
GiveUp(p) ==
  /\ pc[p] # "idle"
  /\ Forget(p)
  /\ UNCHANGED <<files, raced>>

ProcessNext(p) ==
  \/ \E x \in Appended : StartAppend(p, x)
  \/ BindAppend(p) \/ ApplyAppend(p)
  \/ \E w \in Work : StartSubmit(p, w)
  \/ MergeLedger(p)
  \/ \E r \in BOOLEAN : BindSubmit(p, r)
  \/ ApplySubmit(p)
  \/ StartReconcile(p) \/ BindReconcile(p) \/ ApplyReconcile(p)
  \/ GiveUp(p)

UserNext ==
  \/ \E v \in Plan : EditPlan(v)
  \/ \E a \in PlanApproval : WriteApproval(a)

Next == UserNext \/ \E p \in Process : ProcessNext(p)

Spec == Init /\ [][Next]_vars

-----------------------------------------------------------------------------
(* Properties                                                              *)

\* What status calls approved is what the delivery and traceability records
\* say was delivered, although status reads neither of them.
ApprovedIsDelivered ==
  WorkApproved(files) =>
    files.delivery = files.work /\ files.trace = files.work

\* A delivery on file is of the work whose approval is on file, and status
\* finds that approval valid as long as the ledgers hold the events of the work
\* (which an append or submission that was read before them and fingerprinted
\* after them drops), whatever became of the Plan; unless the contract changed
\* between a submission's reading and fingerprinting.
DeliveredIsApproved ==
  files.delivery \in Work /\ ~raced =>
    /\ files.delivery = files.work
    /\ files.work \in files.ledger => WorkApproved(files)

\* A reconcile ends, with its batch applied or not.
Reconciled == \E p \in Process : pc[p] = "reconcilable" /\ pc'[p] = "idle"

\* An append or submission ends; its payload is older than what it has bound,
\* and lacks one of the events in X.
Drops(X) ==
  \E p \in Process : /\ pc[p] \in {"appendable", "submittable"}
                     /\ pc'[p] = "idle"
                     /\ ~(X \intersect base[p].ledger \subseteq payload[p])

\* Approved work stays approved, or is replaced by approved work, until a
\* reconcile replaces its records, which it always does (see ReconcileSettles),
\* or a stale write of the ledgers drops its events.
ApprovedUntilReconciled ==
  [][WorkApproved(files) /\ ~raced' =>
       \/ WorkApproved(files')
       \/ Reconciled
       \/ Drops({files.work})]_vars

\* As long as nobody edits Plan or approval or applies a reconcile, what doctor
\* accepts stays acceptable under all appends and submissions, but for two: a
\* stale write of the ledgers that drops evidence of the Plan's approval or
\* events of the work; and new work that comes without a release over work that
\* was released.  The old release stays on file, and doctor takes it for an
\* error.
SubmissionsSatisfyDoctor ==
  [][DoctorAccepts(files) /\ ~DoctorAccepts(files') /\ ~raced' =>
       \/ files'.plan # files.plan \/ files'.approval # files.approval
       \/ Reconciled
       \/ Drops(EvidenceOf[files.approval] \union {files.work})
       \/ files'.work # files.work /\ files'.release \notin {None, files'.work}]_vars

\* After a reconcile, diff sees no drift in these files, and doctor no error
\* exactly if there never was approved work; unless the Plan, its approval or
\* the evidence it rests on was no longer what the contract is derived from
\* when the workspace was fingerprinted.
ReconcileSettles ==
  [][\A p \in Process :
       pc[p] = "reconcilable" /\ pc'[p] = "idle" /\ files' # files
         /\ ~torn[p] =>
           ~Drift(files') /\ (DoctorAccepts(files') <=> files'.work = None)]_vars

\* "Before applying, Plan, brief and contract are validated again": a submission
\* is applied under a valid approval of the Plan and the contract it is for.
PlanHoldsAtDelivery ==
  [][\A p \in Process :
       pc[p] = "submittable" /\ pc'[p] = "idle" /\ files' # files =>
         PlanApproved(files) /\ files.contract = ContractFor[job[p]]]_vars
=============================================================================

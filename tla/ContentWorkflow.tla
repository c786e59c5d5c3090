--------------------------- MODULE ContentWorkflow ---------------------------
(***************************************************************************)
(* core/lifecycle.py and core/content_domain.py: the content workflow (H5).*)
(*                                                                         *)
(* From an approved Plan, reconcile derives a brief, the variants written  *)
(* for it and a review of the selected one; the review cites the evidence  *)
(* on file about the brief or a variant.  An approval binds brief, variant *)
(* and review.  submit_content_workflow records it once, with a delivery   *)
(* record, and takes the brief through its lifecycle; later it may add a   *)
(* release.  As in SoftwareWorkflow, commands read first, build a manifest *)
(* and apply it later, if the files it has bound are unchanged, and a      *)
(* ledger is written from one reading and bound by another.                *)
(*                                                                         *)
(* A fingerprint is what it is taken of; a reference to a brief or variant *)
(* holds for every version with the same identity.                         *)
(*                                                                         *)
(* Plans are without evidence governance: the H6 views are left to         *)
(* EventLedger and WorkspaceLifecycle.                                     *)
(***************************************************************************)
EXTENDS Naturals, Sequences

CONSTANTS Process,
          Plan,          \* the contents the Plan may have; all of them
                         \* enable the content-script pack
          Declared,      \* those with approval_state "approved"
          PlanApproval, PlanOf, Standing, EvidenceOf,  \* as in SoftwareWorkflow
          Brief,         \* contents of briefs, without lifecycle bookkeeping
          BriefOf,       \* the brief a Plan describes
          Variant,       \* variants, with their status
          VariantsOf,    \* the variants a Plan describes
          Selected,      \* the one it selects, or None
          Finding,       \* what the checks of a review observe
          FindingOf,     \* what they observe of a Plan's brief and variants
          Passed,        \* findings of which every check has passed
          Check,         \* claims with their sources, and named checks
          ChecksOf,      \* those a brief asks for
          Evidence,
          Supports,      \* supporting_refs of an evidence record
          Brought,       \* what evidence may come with a submission
          Approval,      \* work-product approvals, canonical in themselves
          BriefFor,      \* the brief an approval binds
          ReviewFor,     \* the review it binds, and with it the variant
          Release,       \* external-release approvals, canonical in themselves
          ReleaseFor,    \* the work-product approval such a one binds
          None

BriefFile == [content : Brief, state : {"brief", "approved"}]

Delivery == [work : Approval, released : BOOLEAN]

Review ==
  [finding : Finding, variant : Variant \union {None}, refs : SUBSET Evidence]

ASSUME ContentAssumption ==
  /\ Declared \subseteq Plan
  /\ Standing \subseteq PlanApproval
  /\ PlanOf \in [PlanApproval -> Plan]
  /\ EvidenceOf \in [PlanApproval -> SUBSET Evidence]
  /\ BriefOf \in [Plan -> Brief]
  /\ VariantsOf \in [Plan -> SUBSET Variant]
  /\ Selected \in [Plan -> Variant \union {None}]
  /\ FindingOf \in [Plan -> Finding]
  /\ ChecksOf \in [Brief -> SUBSET Check]
  /\ Supports \in [Evidence -> SUBSET (Brief \union Variant \union Check)]
  /\ Brought \subseteq SUBSET Evidence
  /\ BriefFor \in [Approval -> Brief]
  /\ ReviewFor \in [Approval -> Review]
  /\ ReleaseFor \in [Release -> Approval]
  /\ None \notin PlanApproval \union Approval \union Release
  /\ None \notin BriefFile \union Delivery \union Review

\* A review lists every variant and the one that is selected.
ASSUME ReviewShowsVariants ==
  \A v, w \in Plan : FindingOf[v] = FindingOf[w] /\ Selected[v] = Selected[w]
                       => VariantsOf[v] = VariantsOf[w]

VARIABLES files,   \* the workspace
          pc,      \* where each process is
          job,     \* what it submits, or the records it has derived
          payload, \* the evidence ledger as it is going to write it
          base,    \* base[p]: the files p has bound, as they were then
          torn,    \* torn[p]: what p read was out of date when p bound the files
          raced    \* a torn submission has been applied

vars == <<files, pc, job, payload, base, torn, raced>>

Workspace ==
  [plan : Plan, approval : PlanApproval \union {None}, ledger : SUBSET Evidence,
   brief : BriefFile \union {None},
   variants : {None} \union (SUBSET Variant),
   review : Review \union {None},
   work : Approval \union {None},
   delivery : Delivery \union {None},
   release : Release \union {None}]

Submission ==
  [work : Approval, release : Release \union {None},
   adds : Brought \union {{}}]

Derivation ==
  [brief : Brief, variants : SUBSET Variant, review : Review]

\* append_h6_events: "append", "appendable"; submit: "submit", with evidence
\* "merge" and "merged", "submittable"; submit that adds a release: "release",
\* "releasable"; reconcile: "reconcile", "reconcilable".
Locations == {"idle", "append", "appendable", "submit", "merge", "merged",
              "submittable", "release", "releasable", "reconcile",
              "reconcilable"}

\* An initialised workspace: a proposed Plan, and nothing derived from it.
Init ==
  /\ files \in [plan : Plan \ Declared, approval : {None}, ledger : {{}},
                brief : {None}, variants : {None}, review : {None},
                work : {None}, delivery : {None}, release : {None}]
  /\ pc = [p \in Process |-> "idle"]
  /\ job = [p \in Process |-> None]
  /\ payload = [p \in Process |-> {}]
  /\ base = [p \in Process |-> None]
  /\ torn = [p \in Process |-> FALSE]
  /\ raced = FALSE

\* The command ends; what it had in memory is gone.
Forget(p) ==
  /\ pc' = [pc EXCEPT ![p] = "idle"]
  /\ job' = [job EXCEPT ![p] = None]
  /\ payload' = [payload EXCEPT ![p] = {}]
  /\ base' = [base EXCEPT ![p] = None]
  /\ torn' = [torn EXCEPT ![p] = FALSE]

-----------------------------------------------------------------------------
(* The content lifecycle                                                   *)

CONTENT_TRANSITIONS ==
  [brief |-> {"outline", "paused", "failed"},
   outline |-> {"draft", "paused", "failed"},
   draft |-> {"variants", "paused", "failed"},
   variants |-> {"review", "paused", "partial_success", "failed"},
   review |-> {"awaiting_approval", "paused", "failed"},
   awaiting_approval |-> {"approved", "paused", "failed"},
   approved |-> {},
   paused |-> {"outline", "draft", "variants", "review", "failed"},
   partial_success |-> {"review", "paused", "failed"},
   failed |-> {"brief", "outline", "draft", "variants", "review"}]

\* The states one submission takes the brief through.
Stages == <<"outline", "draft", "variants", "review", "awaiting_approval", "approved">>

MayBeApproved(state) ==
  LET walk == <<state>> \o Stages
  IN  \A i \in 1..Len(Stages) : walk[i + 1] \in CONTENT_TRANSITIONS[walk[i]]

-----------------------------------------------------------------------------
(* What the readers make of the files                                      *)

\* validate_plan_approval.  It does not look at the Plan's approval_state.
PlanApproved(f) ==
  /\ f.approval \in Standing
  /\ PlanOf[f.approval] = f.plan
  /\ EvidenceOf[f.approval] \subseteq f.ledger

Derives(f) == f.plan \in Declared /\ PlanApproved(f)

\* The evidence on file that mentions the Plan's brief or one of its variants.
Cited(f) ==
  {e \in f.ledger :
     Supports[e] \intersect ({BriefOf[f.plan]} \union VariantsOf[f.plan]) # {}}

Derived(f) ==
  [brief |-> BriefOf[f.plan], variants |-> VariantsOf[f.plan],
   review |-> [finding |-> FindingOf[f.plan], variant |-> Selected[f.plan],
               refs |-> Cited(f)]]

\* Faulty variant: a review must cite all evidence about its variant.
SupportedByAll(review, brief, ledger) ==
  review.refs = {e \in ledger : review.variant \in Supports[e]}

\* The evidence a review cites is on file, is all about its variant, and covers
\* the checks of the brief.
Supported(review, brief, ledger) ==
  /\ review.refs # {}
  /\ review.refs \subseteq ledger
  /\ \A e \in review.refs : review.variant \in Supports[e]
  /\ \A c \in ChecksOf[brief] : \E e \in review.refs : c \in Supports[e]

\* validate_content_approval of a, for a review, with the brief and variants on
\* file and the given evidence.
Accepts(f, review, a, ledger) ==
  /\ f.brief # None /\ f.brief.content = BriefFor[a]
  /\ f.variants # None /\ review.variant \in f.variants
  /\ review = ReviewFor[a]
  /\ review.finding \in Passed
  /\ Supported(review, f.brief.content, ledger)

\* The approval on file is valid, given the evidence that its review cites.
Sound(f) ==
  /\ f.work # None
  /\ f.review # None
  /\ Accepts(f, f.review, f.work, f.ledger \union f.review.refs)

\* status: work_product_approval_state and external_release_state, "approved".
WorkApproved(f) ==
  /\ f.work # None
  /\ f.review # None
  /\ Accepts(f, f.review, f.work, f.ledger)

ReleaseApproved(f) ==
  WorkApproved(f) /\ f.release # None /\ ReleaseFor[f.release] = f.work

\* Faulty variant: the review is left out of the comparison.
AsDerivedButReview(f) ==
  /\ f.brief # None /\ f.brief.content = Derived(f).brief
  /\ f.variants = Derived(f).variants

\* The generated records are those that would be derived now.  Where the brief
\* is in its lifecycle does not matter.
AsDerived(f) ==
  /\ f.brief # None /\ f.brief.content = Derived(f).brief
  /\ f.variants = Derived(f).variants
  /\ f.review = Derived(f).review

\* diff: the files are not what would be derived now, or nothing can be.
Drift(f) == f.plan \in Declared /\ ~(PlanApproved(f) /\ AsDerived(f))

DoctorAccepts(f) ==
  f.plan \in Declared =>
    /\ PlanApproved(f)
    /\ AsDerived(f)
    /\ f.work # None => WorkApproved(f) /\ f.delivery # None
    /\ f.release # None => ReleaseApproved(f)

-----------------------------------------------------------------------------
(* submit_content_workflow                                                 *)

\* A submission of approval, release and evidence is valid, and the first.  Its
\* review is the one on file or comes with it.
Submittable(f, s) ==
  /\ Accepts(f, ReviewFor[s.work], s.work, f.ledger \union s.adds)
  /\ f.work = None /\ f.delivery = None
  /\ MayBeApproved(f.brief.state)
  /\ s.release # None => ReleaseFor[s.release] = s.work

StartSubmit(p, s) ==
  /\ pc[p] = "idle"
  /\ PlanApproved(files)
  /\ Submittable(files, s)
  /\ pc' = [pc EXCEPT ![p] = "submit"]
  /\ job' = [job EXCEPT ![p] = s]
  /\ UNCHANGED <<files, payload, base, torn, raced>>

\* Faulty variants: files to be created are not bound; the review is not.
ExistingTargets(f, s) == <<f.brief, f.review>>

TargetsButReview(f, s) ==
  <<f.brief, f.work, f.delivery, IF s.release # None THEN f.release ELSE None>>

\* The files submission s writes, but for the ledger.  It writes no variants.
TargetsOf(f, s) ==
  <<f.brief, f.review, f.work, f.delivery,
    IF s.release # None THEN f.release ELSE None>>

\* The targets are fingerprinted.  The workspace snapshot leaves the metadata
\* directory out, and with it Plan, approval and variants.  Evidence that comes
\* with the submission is left to append_h6_events.
BindSubmit(p) ==
  /\ pc[p] = "submit"
  /\ pc' = [pc EXCEPT ![p] = IF job[p].adds # {} THEN "merge" ELSE "submittable"]
  /\ base' = [base EXCEPT ![p] = [targets |-> TargetsOf(files, job[p]),
                                  ledger |-> {}]]
  /\ torn' = [torn EXCEPT ![p] = ~Submittable(files, job[p])]
  /\ UNCHANGED <<files, job, payload, raced>>

\* It reads the ledger and merges it with the evidence ...
MergeEvidence(p) ==
  /\ pc[p] = "merge"
  /\ pc' = [pc EXCEPT ![p] = "merged"]
  /\ payload' = [payload EXCEPT ![p] = files.ledger \union job[p].adds]
  /\ UNCHANGED <<files, job, base, torn, raced>>

\* ... and reads it once more, for its fingerprint.
BindLedger(p) ==
  /\ pc[p] = "merged"
  /\ pc' = [pc EXCEPT ![p] = "submittable"]
  /\ base' = [base EXCEPT ![p].ledger = files.ledger]
  /\ UNCHANGED <<files, job, payload, torn, raced>>

ApplySubmit(p) ==
  /\ pc[p] = "submittable"
  /\ TargetsOf(files, job[p]) = base[p].targets
  /\ job[p].adds # {} => files.ledger = base[p].ledger
  /\ LET s == job[p] IN
     files' = [files EXCEPT
                 !.ledger = IF s.adds # {} THEN payload[p] ELSE @,
                 !.brief = [content |-> BriefFor[s.work], state |-> "approved"],
                 !.review = ReviewFor[s.work],
                 !.work = s.work,
                 !.delivery = [work |-> s.work, released |-> s.release # None],
                 !.release = IF s.release # None THEN s.release ELSE @]
  /\ raced' = (raced \/ torn[p])
  /\ Forget(p)

\* A release can be added to the approved work, or one that is on file be entered
\* in the delivery record, by a call that brings the given evidence.  (Repeating
\* what is on file writes nothing; any other submission is refused.)
Releasable(f, r, evidence) ==
  /\ PlanApproved(f)
  /\ f.work = ReleaseFor[r]
  /\ Accepts(f, ReviewFor[f.work], f.work, f.ledger \union evidence)
  /\ f.delivery # None /\ f.delivery.work = f.work
  /\ f.brief.state = "approved"
  /\ ~f.delivery.released
  /\ f.release \in {None, r}

\* Evidence that comes with a release is used to validate it and not written.
StartRelease(p, r, evidence) ==
  /\ pc[p] = "idle"
  /\ Releasable(files, r, evidence)
  /\ pc' = [pc EXCEPT ![p] = "release"]
  /\ job' = [job EXCEPT ![p] = [work |-> ReleaseFor[r], release |-> r, adds |-> {}]]
  /\ UNCHANGED <<files, payload, base, torn, raced>>

\* The release file is read again, and the delivery record fingerprinted.
BindRelease(p) ==
  /\ pc[p] = "release"
  /\ files.release \in {None, job[p].release}
  /\ pc' = [pc EXCEPT ![p] = "releasable"]
  /\ base' = [base EXCEPT ![p] = [delivery |-> files.delivery,
                                  release |-> files.release]]
  /\ UNCHANGED <<files, job, payload, torn, raced>>

\* Faulty variant: with the condition inverted.
ReleaseRewritten(p) ==
  IF base[p].release # None THEN job[p].release ELSE files.release

\* A release that was on file is neither written nor bound.
ReleaseFile(p) ==
  IF base[p].release = None THEN job[p].release ELSE files.release

ApplyRelease(p) ==
  /\ pc[p] = "releasable"
  /\ files.delivery = base[p].delivery
  /\ base[p].release = None => files.release = None
  /\ files' = [files EXCEPT !.release = ReleaseFile(p),
                            !.delivery = [work |-> job[p].work, released |-> TRUE]]
  /\ Forget(p)
  /\ UNCHANGED raced

-----------------------------------------------------------------------------
(* reconcile                                                               *)

\* Plan, approval and evidence are read and the records derived.
StartReconcile(p) ==
  /\ pc[p] = "idle"
  /\ Derives(files)
  /\ pc' = [pc EXCEPT ![p] = "reconcile"]
  /\ job' = [job EXCEPT ![p] = Derived(files)]
  /\ UNCHANGED <<files, payload, base, torn, raced>>

\* The workspace is fingerprinted, with its metadata directory.
BindReconcile(p) ==
  /\ pc[p] = "reconcile"
  /\ pc' = [pc EXCEPT ![p] = "reconcilable"]
  /\ base' = [base EXCEPT ![p] = files]
  /\ torn' = [torn EXCEPT ![p] = ~(Derives(files) /\ job[p] = Derived(files))]
  /\ UNCHANGED <<files, job, payload, raced>>

\* Faulty variant: here, too, the snapshot leaves the metadata directory out.
OutputsUnchanged(p) ==
  /\ files.brief = base[p].brief
  /\ files.variants = base[p].variants
  /\ files.review = base[p].review

WorkspaceUnchanged(p) == files = base[p]

\* The derived records, in place of any that there are; approval, delivery and
\* release stay.
DerivedRecords(f, d) ==
  [f EXCEPT !.brief = [content |-> d.brief, state |-> "brief"],
            !.variants = d.variants, !.review = d.review]

ApplyReconcile(p) ==
  /\ pc[p] = "reconcilable"
  /\ WorkspaceUnchanged(p)
  /\ files' = DerivedRecords(files, job[p])
  /\ Forget(p)
  /\ UNCHANGED raced

-----------------------------------------------------------------------------
(* append_h6_events                                                        *)

\* The ledger is read and merged with an event, ...
StartAppend(p, e) ==
  /\ pc[p] = "idle"
  /\ pc' = [pc EXCEPT ![p] = "append"]
  /\ payload' = [payload EXCEPT ![p] = files.ledger \union {e}]
  /\ UNCHANGED <<files, job, base, torn, raced>>

\* ... and read once more, for its fingerprint.
BindAppend(p) ==
  /\ pc[p] = "append"
  /\ pc' = [pc EXCEPT ![p] = "appendable"]
  /\ base' = [base EXCEPT ![p] = [ledger |-> files.ledger]]
  /\ UNCHANGED <<files, job, payload, torn, raced>>

ApplyAppend(p) ==
  /\ pc[p] = "appendable"
  /\ files.ledger = base[p].ledger
  /\ files' = [files EXCEPT !.ledger = payload[p]]
  /\ Forget(p)
  /\ UNCHANGED raced

-----------------------------------------------------------------------------
(* The user, and every command                                             *)

Write(f) == files' = f /\ UNCHANGED <<pc, job, payload, base, torn, raced>>

EditPlan(v) == v # files.plan /\ Write([files EXCEPT !.plan = v])

WriteApproval(a) ==
  a # files.approval /\ Write([files EXCEPT !.approval = a])

\* The command ends without effect: its manifest is not approved or no longer
\* fits the workspace, the dry run is discarded, the process is killed.
GiveUp(p) ==
  /\ pc[p] # "idle"
  /\ Forget(p)
  /\ UNCHANGED <<files, raced>>

ProcessNext(p) ==
  \/ \E s \in Submission : StartSubmit(p, s)
  \/ BindSubmit(p) \/ MergeEvidence(p) \/ BindLedger(p) \/ ApplySubmit(p)
  \/ \E r \in Release, E \in Brought \union {{}} : StartRelease(p, r, E)
  \/ BindRelease(p) \/ ApplyRelease(p)
  \/ StartReconcile(p) \/ BindReconcile(p) \/ ApplyReconcile(p)
  \/ \E e \in Evidence : StartAppend(p, e)
  \/ BindAppend(p) \/ ApplyAppend(p)
  \/ GiveUp(p)

UserNext ==
  \/ \E v \in Plan : EditPlan(v)
  \/ \E a \in PlanApproval : WriteApproval(a)

Next == UserNext \/ \E p \in Process : ProcessNext(p)

Spec == Init /\ [][Next]_vars

-----------------------------------------------------------------------------
(* Properties                                                              *)

TypeOK ==
  /\ files \in Workspace
  /\ pc \in [Process -> Locations]
  /\ DOMAIN job = Process /\ DOMAIN base = Process
  /\ \A p \in Process :
       /\ pc[p] = "idle" => job[p] = None
       /\ pc[p] \in {"submit", "merge", "merged", "submittable", "release",
                     "releasable"} => job[p] \in Submission
       /\ pc[p] \in {"reconcile", "reconcilable"} => job[p] \in Derivation
       /\ pc[p] = "reconcilable" => base[p] \in Workspace
  /\ payload \in [Process -> SUBSET Evidence]
  /\ torn \in [Process -> BOOLEAN]
  /\ raced \in BOOLEAN

\* Approval, delivery record and release, which come from up to two submissions,
\* agree on what was approved; unless a submission that had found none of them
\* was bound after another one had written them.
RecordsAgree ==
  ~raced =>
  /\ files.delivery = None <=> files.work = None
  /\ files.delivery # None =>
       /\ files.delivery.work = files.work
       /\ files.delivery.released <=> files.release # None
  /\ files.release # None => ReleaseFor[files.release] = files.work

\* Of several approvals and releases submitted at once, one is recorded, and it
\* is never replaced or withdrawn, whatever happens to Plan, brief and review;
\* with the exception of RecordsAgree.
ApprovalIsFinal ==
  [][~raced' =>
       /\ files.work # None => files'.work = files.work
       /\ files.release # None => files'.release = files.release]_vars

\* A brief at the end of its lifecycle has a recorded approval that status finds
\* valid as long as the evidence its review cites is on file (an append that was
\* read before it and fingerprinted after it takes it off); unless what a
\* submission validated had changed before it was bound.
ApprovedBriefIsValid ==
  files.brief # None /\ ~raced =>
    (files.brief.state = "approved" =>
       /\ Sound(files)
       /\ files.review.refs \subseteq files.ledger => WorkApproved(files))

\* After a reconcile, diff sees no drift in these files; if Plan, approval and
\* evidence were bound as they were read.
ReconcileSettles ==
  [][\A p \in Process :
       pc[p] = "reconcilable" /\ pc'[p] = "idle" /\ files' # files /\ ~torn[p]
         => ~Drift(files')]_vars

\* A reconcile of files in which diff sees no drift changes neither what status
\* says of approved work and release nor doctor's answer; with the exception of
\* ReconcileSettles, and but for ReleasableUntilReconciled.
HarmlessReconcile ==
  [][\A p \in Process :
       pc[p] = "reconcilable" /\ pc'[p] = "idle" /\ ~torn[p] /\ ~Drift(files) =>
         /\ WorkApproved(files') <=> WorkApproved(files)
         /\ ReleaseApproved(files') <=> ReleaseApproved(files)
         /\ DoctorAccepts(files') <=> DoctorAccepts(files)]_vars

\* An append or submission ends; its payload is older than what it has bound,
\* and lacks some of the evidence in X.
Drops(X) ==
  \E p \in Process : /\ pc[p] \in {"appendable", "submittable"}
                     /\ pc'[p] = "idle"
                     /\ ~(X \intersect base[p].ledger \subseteq payload[p])

\* Once a release can be added to approved work, it can be, by the same call,
\* until one is, the Plan's approval is lost, a reconcile takes the brief back
\* to its start, or a stale write of the ledger drops evidence that the review
\* cites and the call does not bring; with the exception of RecordsAgree.
ReleasableUntilReconciled ==
  [][\A r \in Release, E \in Brought \union {{}} :
       ~raced' /\ Releasable(files, r, E) /\ ~Releasable(files', r, E) =>
         \/ files'.release # None
         \/ ~PlanApproved(files')
         \/ \E p \in Process : pc[p] = "reconcilable" /\ pc'[p] = "idle"
         \/ Drops(files.review.refs \ E)]_vars

\* What the delivery record says was approved and released.
RecordedWork == IF files.delivery = None THEN None ELSE files.delivery.work
RecordedRelease == files.delivery # None /\ files.delivery.released

\* Readers of delivery record, release and review see an approval recorded once,
\* at most one release of it added, and an approval whose validity, given the
\* evidence it cites, only reconciles change: an edited Plan, an append or
\* another submission do not.  (Status says "approved" if it is valid and that
\* evidence is on file.)
Seen == INSTANCE ApprovalRecord WITH
  work <- RecordedWork,
  release <- files.release,
  released <- RecordedRelease,
  valid <- Sound(files),
  reconciling <- {p \in Process : pc[p] = "reconcilable"},
  spoilt <- raced

RecordRefined == Seen!RecordSpec
=============================================================================

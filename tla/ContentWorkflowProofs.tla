------------------------ MODULE ContentWorkflowProofs ------------------------
(***************************************************************************)
(* Proofs about ContentWorkflow, for any number of processes, versions of  *)
(* the Plan, briefs, variants, evidence records, approvals and releases.   *)
(*                                                                         *)
(* A submission binds brief and review, and no variants.  While the brief  *)
(* is at the start of its lifecycle, all three are as a Plan describes     *)
(* them, so that the review on file, which lists the variants, stands for  *)
(* them.  For releases, what counts is that an approval is never replaced. *)
(***************************************************************************)
EXTENDS ContentWorkflow, TLAPS

\* Brief, variants and review on file are those of one Plan.
OfOnePlan(f) ==
  f.brief # None /\ f.brief.state = "brief" =>
    \E v \in Plan :
      /\ f.variants = VariantsOf[v]
      /\ f.review # None
      /\ f.review.finding = FindingOf[v]
      /\ f.review.variant = Selected[v]

\* A submission that was valid and the first when it was bound has bound files
\* of one Plan.
SubmitRow(p) ==
  pc[p] \in {"merge", "merged", "submittable"} /\ ~torn[p] =>
    \E g \in Workspace :
      /\ base[p] = [targets |-> TargetsOf(g, job[p]), ledger |-> base[p].ledger]
      /\ Submittable(g, job[p])
      /\ OfOnePlan(g)

\* A release is for the approval on file; if it found itself on file, it still is.
ReleaseRow(p) ==
  pc[p] \in {"release", "releasable"} =>
    /\ job[p].release # None
    /\ ReleaseFor[job[p].release] = job[p].work
    /\ ~raced =>
         /\ files.work = job[p].work
         /\ pc[p] = "releasable" /\ base[p].release # None =>
              files.release = job[p].release

\* A reconcile has derived its records from one Plan; unless torn, from the one
\* that it has then bound.
ReconcileRow(p) ==
  /\ pc[p] \in {"reconcile", "reconcilable"} =>
       \E v \in Plan :
         /\ job[p].variants = VariantsOf[v]
         /\ job[p].review.finding = FindingOf[v]
         /\ job[p].review.variant = Selected[v]
  /\ pc[p] = "reconcilable" /\ ~torn[p] =>
       Derives(base[p]) /\ job[p] = Derived(base[p])

ProcessRow(p) == SubmitRow(p) /\ ReleaseRow(p) /\ ReconcileRow(p)

\* The inductive invariant.
IInv ==
  /\ TypeOK
  /\ RecordsAgree
  /\ ApprovedBriefIsValid
  /\ OfOnePlan(files)
  /\ \A p \in Process : ProcessRow(p)

-----------------------------------------------------------------------------
(* What the batches write                                                  *)

\* The workspace after a submission is applied, file by file.
LEMMA SubmittedFiles ==
  ASSUME TypeOK, NEW p \in Process, ApplySubmit(p)
  PROVE  /\ job[p] \in Submission
         /\ files' \in Workspace
         /\ files'.plan = files.plan
         /\ files'.approval = files.approval
         /\ files'.ledger = IF job[p].adds # {} THEN payload[p] ELSE files.ledger
         /\ files'.brief = [content |-> BriefFor[job[p].work], state |-> "approved"]
         /\ files'.variants = files.variants
         /\ files'.review = ReviewFor[job[p].work]
         /\ files'.work = job[p].work
         /\ files'.delivery = [work |-> job[p].work,
                               released |-> job[p].release # None]
         /\ files'.release = IF job[p].release # None THEN job[p].release
                                                      ELSE files.release
<1>1. job[p] \in Submission
  BY DEF TypeOK, ApplySubmit
<1>2. /\ BriefFor[job[p].work] \in Brief
      /\ ReviewFor[job[p].work] \in Review
  BY <1>1, ContentAssumption DEF ContentAssumption, Submission
<1>3. /\ [content |-> BriefFor[job[p].work], state |-> "approved"] \in BriefFile
      /\ [work |-> job[p].work, released |-> job[p].release # None] \in Delivery
  BY <1>1, <1>2 DEF BriefFile, Delivery, Submission
<1> DEFINE brief == [content |-> BriefFor[job[p].work], state |-> "approved"]
           delivery == [work |-> job[p].work, released |-> job[p].release # None]
           review == ReviewFor[job[p].work]
           release == IF job[p].release # None THEN job[p].release ELSE files.release
           work == job[p].work
           ledger == IF job[p].adds # {} THEN payload[p] ELSE files.ledger
<1>4. files' = [files EXCEPT !.ledger = ledger, !.brief = brief,
                             !.review = review, !.work = work,
                             !.delivery = delivery, !.release = release]
  BY DEF ApplySubmit
<1>5. /\ brief \in BriefFile /\ delivery \in Delivery /\ review \in Review
      /\ work \in Approval /\ ledger \in SUBSET Evidence
      /\ release \in Release \union {None}
  BY <1>1, <1>2, <1>3 DEF Submission, TypeOK, Workspace
<1>6. /\ files' \in Workspace
      /\ files'.plan = files.plan /\ files'.approval = files.approval
      /\ files'.ledger = ledger /\ files'.brief = brief
      /\ files'.variants = files.variants /\ files'.review = review
      /\ files'.work = work /\ files'.delivery = delivery
      /\ files'.release = release
  <2> HIDE DEF brief, delivery, review, release, work, ledger
  <2> QED
    BY <1>4, <1>5 DEF TypeOK, Workspace
<1> QED
  BY <1>1, <1>6

\* The workspace after a release is added, file by file.
LEMMA ReleasedFiles ==
  ASSUME TypeOK, NEW p \in Process, ApplyRelease(p)
  PROVE  /\ job[p] \in Submission
         /\ files' \in Workspace
         /\ files'.plan = files.plan
         /\ files'.approval = files.approval
         /\ files'.ledger = files.ledger
         /\ files'.brief = files.brief
         /\ files'.variants = files.variants
         /\ files'.review = files.review
         /\ files'.work = files.work
         /\ files'.delivery = [work |-> job[p].work, released |-> TRUE]
         /\ files'.release = IF base[p].release = None THEN job[p].release
                                                      ELSE files.release
         /\ base[p].release = None => files.release = None
<1>1. job[p] \in Submission
  BY DEF TypeOK, ApplyRelease
<1> DEFINE delivery == [work |-> job[p].work, released |-> TRUE]
           release == IF base[p].release = None THEN job[p].release
                                                ELSE files.release
<1>2. delivery \in Delivery
  BY <1>1 DEF Delivery, Submission
<1>3. release \in Release \union {None}
  BY <1>1 DEF Submission, TypeOK, Workspace
<1>4. /\ files' = [files EXCEPT !.release = release, !.delivery = delivery]
      /\ base[p].release = None => files.release = None
  BY DEF ApplyRelease, ReleaseFile
<1>5. /\ files' \in Workspace
      /\ files'.plan = files.plan /\ files'.approval = files.approval
      /\ files'.ledger = files.ledger /\ files'.brief = files.brief
      /\ files'.variants = files.variants /\ files'.review = files.review
      /\ files'.work = files.work /\ files'.delivery = delivery
      /\ files'.release = release
  <2> HIDE DEF delivery, release
  <2> QED
    BY <1>2, <1>3, <1>4 DEF TypeOK, Workspace
<1> QED
  BY <1>1, <1>4, <1>5

\* The workspace after a reconcile is applied, file by file.
LEMMA ReconciledFiles ==
  ASSUME TypeOK, NEW p \in Process, ApplyReconcile(p)
  PROVE  /\ job[p] \in Derivation
         /\ files' \in Workspace
         /\ files'.plan = files.plan
         /\ files'.approval = files.approval
         /\ files'.ledger = files.ledger
         /\ files'.brief = [content |-> job[p].brief, state |-> "brief"]
         /\ files'.variants = job[p].variants
         /\ files'.review = job[p].review
         /\ files'.work = files.work
         /\ files'.delivery = files.delivery
         /\ files'.release = files.release
<1>1. job[p] \in Derivation
  BY DEF TypeOK, ApplyReconcile
<1>2. [content |-> job[p].brief, state |-> "brief"] \in BriefFile
  BY <1>1 DEF BriefFile, Derivation
<1> QED
  BY <1>1, <1>2 DEF TypeOK, Workspace, ApplyReconcile, DerivedRecords, Derivation

\* An append writes the ledger and leaves the rest alone.
LEMMA AppendedFiles ==
  ASSUME TypeOK, NEW p \in Process, ApplyAppend(p)
  PROVE  /\ files' \in Workspace
         /\ files'.plan = files.plan
         /\ files'.approval = files.approval
         /\ files'.ledger = payload[p]
         /\ files'.brief = files.brief
         /\ files'.variants = files.variants
         /\ files'.review = files.review
         /\ files'.work = files.work
         /\ files'.delivery = files.delivery
         /\ files'.release = files.release
BY DEF TypeOK, Workspace, ApplyAppend

\* What the user leaves alone.
LEMMA UserFiles ==
  ASSUME TypeOK, UserNext
  PROVE  /\ files' \in Workspace
         /\ files'.ledger = files.ledger
         /\ files'.brief = files.brief
         /\ files'.variants = files.variants
         /\ files'.review = files.review
         /\ files'.work = files.work
         /\ files'.delivery = files.delivery
         /\ files'.release = files.release
         /\ UNCHANGED <<pc, job, payload, base, torn, raced>>
<1>1. CASE \E v \in Plan : EditPlan(v)
  BY <1>1 DEF EditPlan, Write, TypeOK, Workspace
<1>2. CASE \E a \in PlanApproval : WriteApproval(a)
  BY <1>2 DEF WriteApproval, Write, TypeOK, Workspace
<1> QED
  BY <1>1, <1>2 DEF UserNext

\* What is derived from a Plan is well-formed.
LEMMA DerivedType ==
  ASSUME NEW f \in Workspace
  PROVE  Derived(f) \in Derivation
BY ContentAssumption
   DEF ContentAssumption, Workspace, Derived, Derivation, Review, Cited

\* An approval that is accepted is so by all evidence that has what its review
\* cites.
LEMMA AcceptsCiting ==
  ASSUME NEW f, NEW g, NEW review, NEW a, NEW L, NEW M, review.refs \subseteq M,
         g.brief # None, g.brief.content = f.brief.content,
         g.variants = f.variants, Accepts(f, review, a, L)
  PROVE  Accepts(g, review, a, M)
BY DEF Accepts, Supported

\* Whether the approval on file is sound is not a matter of the ledger.
LEMMA SoundSame ==
  ASSUME NEW f, NEW g, g.brief = f.brief, g.variants = f.variants,
         g.review = f.review, g.work = f.work
  PROVE  Sound(g) <=> Sound(f)
<1>1. f.review.refs \subseteq f.ledger \union f.review.refs
  OBVIOUS
<1>2. f.review.refs \subseteq g.ledger \union f.review.refs
  OBVIOUS
<1> HIDE <1>1, <1>2
<1>3. Sound(f) => Sound(g)
  BY <1>2 DEF Sound, Accepts, Supported
<1>4. Sound(g) => Sound(f)
  BY <1>1 DEF Sound, Accepts, Supported
<1> QED
  BY <1>3, <1>4

\* Sound work is approved while the evidence its review cites is on file.
LEMMA SoundApproved ==
  ASSUME NEW f, Sound(f), f.review.refs \subseteq f.ledger
  PROVE  WorkApproved(f)
<1>1. Accepts(f, f.review, f.work, f.ledger \union f.review.refs)
  BY DEF Sound
<1>2. Accepts(f, f.review, f.work, f.ledger)
  BY <1>1, AcceptsCiting DEF Accepts
<1> QED
  BY <1>2 DEF Sound, WorkApproved

\* Only the start of the lifecycle leads to approval in one submission.
LEMMA OnlyFromStart ==
  ASSUME MayBeApproved("approved")
  PROVE  FALSE
<1>1. CONTENT_TRANSITIONS["approved"] = {}
  BY DEF CONTENT_TRANSITIONS
<1>2. /\ Len(Stages) = 6
      /\ (<<"approved">> \o Stages)[1] = "approved"
  BY DEF Stages
<1> QED
  BY <1>1, <1>2 DEF MayBeApproved

-----------------------------------------------------------------------------
(* Types                                                                   *)

\* An initialised workspace is well formed.
LEMMA InitType == Init => TypeOK
<1> SUFFICES ASSUME Init PROVE TypeOK
  OBVIOUS
<1>1. files \in Workspace
  BY DEF Init, Workspace
<1> QED
  BY <1>1 DEF Init, TypeOK, Locations

\* Ending a command keeps the memory of all well formed.
LEMMA ForgetType ==
  ASSUME TypeOK, NEW p \in Process, Forget(p), files' \in Workspace,
         raced' \in BOOLEAN
  PROVE  TypeOK'
BY DEF Forget, TypeOK, Locations

\* Every step of a command keeps files, jobs and bindings well formed.
LEMMA StepType ==
  ASSUME TypeOK, NEW p \in Process, ProcessNext(p)
  PROVE  TypeOK'
<1>0. files.ledger \in SUBSET Evidence
  BY DEF TypeOK, Workspace
<1>1. CASE \E s \in Submission : StartSubmit(p, s)
  BY <1>1 DEF StartSubmit, TypeOK, Locations
<1>2. CASE BindSubmit(p)
  BY <1>2 DEF BindSubmit, TypeOK, Locations
<1>3. CASE MergeEvidence(p)
  <2>1. job[p].adds \in SUBSET Evidence
    BY <1>3, ContentAssumption
       DEF ContentAssumption, MergeEvidence, TypeOK, Submission
  <2>2. files.ledger \union job[p].adds \in SUBSET Evidence
    BY <1>0, <2>1
  <2> QED
    BY <1>3, <2>2 DEF MergeEvidence, TypeOK, Locations
<1>4. CASE BindLedger(p)
  BY <1>4 DEF BindLedger, TypeOK, Locations
<1>5. CASE ApplySubmit(p)
  <2>1. raced' \in BOOLEAN
    BY <1>5 DEF ApplySubmit, TypeOK
  <2> QED
    BY <1>5, <2>1, SubmittedFiles, ForgetType DEF ApplySubmit
<1>6. CASE \E r \in Release, E \in Brought \union {{}} : StartRelease(p, r, E)
  <2>1. PICK r \in Release, E \in Brought \union {{}} : StartRelease(p, r, E)
    BY <1>6
  <2>2. [work |-> ReleaseFor[r], release |-> r, adds |-> {}] \in Submission
    BY ContentAssumption DEF ContentAssumption, Submission
  <2> QED
    BY <2>1, <2>2 DEF StartRelease, TypeOK, Locations
<1>7. CASE BindRelease(p)
  BY <1>7 DEF BindRelease, TypeOK, Locations
<1>8. CASE ApplyRelease(p)
  BY <1>8, ReleasedFiles, ForgetType DEF ApplyRelease, TypeOK
<1>9. CASE StartReconcile(p)
  <2>1. Derived(files) \in Derivation
    BY DerivedType DEF TypeOK
  <2> QED
    BY <1>9, <2>1 DEF StartReconcile, TypeOK, Locations
<1>10. CASE BindReconcile(p)
  BY <1>10 DEF BindReconcile, TypeOK, Locations
<1>11. CASE ApplyReconcile(p)
  BY <1>11, ReconciledFiles, ForgetType DEF ApplyReconcile, TypeOK
<1>12. CASE \E e \in Evidence : StartAppend(p, e)
  <2>1. PICK e \in Evidence : StartAppend(p, e)
    BY <1>12
  <2>2. files.ledger \union {e} \in SUBSET Evidence
    BY <1>0
  <2> QED
    BY <2>1, <2>2 DEF StartAppend, TypeOK, Locations
<1>13. CASE BindAppend(p)
  BY <1>13 DEF BindAppend, TypeOK, Locations
<1>14. CASE ApplyAppend(p)
  BY <1>14, AppendedFiles, ForgetType DEF ApplyAppend, TypeOK
<1>15. CASE GiveUp(p)
  BY <1>15, ForgetType DEF GiveUp, TypeOK
<1> QED
  BY <1>1, <1>2, <1>3, <1>4, <1>5, <1>6, <1>7, <1>8, <1>9, <1>10, <1>11, <1>12,
     <1>13, <1>14, <1>15 DEF ProcessNext

\* So does the user.
LEMMA UserType ==
  ASSUME TypeOK, UserNext
  PROVE  TypeOK'
BY UserFiles DEF TypeOK

-----------------------------------------------------------------------------
(* A submission that is not torn                                           *)

\* The files a submission has bound are still there when it is applied.
LEMMA TargetsSame ==
  ASSUME NEW f, NEW g, NEW s, TargetsOf(f, s) = TargetsOf(g, s)
  PROVE  /\ f.brief = g.brief
         /\ f.review = g.review
         /\ f.work = g.work
         /\ f.delivery = g.delivery
         /\ s.release # None => f.release = g.release
BY DEF TargetsOf

\* What it had validated holds, of the files it finds.
LEMMA SubmissionStillValid ==
  ASSUME IInv, NEW p \in Process, ApplySubmit(p), ~torn[p]
  PROVE  /\ files.work = None
         /\ files.delivery = None
         /\ job[p].release # None => ReleaseFor[job[p].release] = job[p].work
         /\ \A M : ReviewFor[job[p].work].refs \subseteq M =>
                    Accepts(files, ReviewFor[job[p].work], job[p].work, M)
<1> DEFINE s == job[p]
<1>1. PICK g \in Workspace :
        /\ base[p] = [targets |-> TargetsOf(g, s), ledger |-> base[p].ledger]
        /\ Submittable(g, s)
        /\ OfOnePlan(g)
  BY DEF IInv, ProcessRow, SubmitRow, ApplySubmit
<1>2. TargetsOf(files, s) = TargetsOf(g, s)
  <2>1. base[p].targets = TargetsOf(g, s)
    BY <1>1
  <2> QED
    BY <2>1 DEF ApplySubmit
<1>3. /\ files.brief = g.brief /\ files.review = g.review
      /\ files.work = g.work /\ files.delivery = g.delivery
  BY <1>2, TargetsSame
<1> HIDE DEF s
<1>4. /\ g.work = None /\ g.delivery = None
      /\ s.release # None => ReleaseFor[s.release] = s.work
      /\ Accepts(g, ReviewFor[s.work], s.work, g.ledger \union s.adds)
      /\ MayBeApproved(g.brief.state)
  BY <1>1 DEF Submittable
<1>5. g.brief # None /\ g.brief.state = "brief"
  <2>1. g.brief # None
    BY <1>4 DEF Accepts
  <2>2. g.brief.state \in {"brief", "approved"}
    BY <2>1 DEF Workspace, BriefFile
  <2> QED
    BY <1>4, <2>1, <2>2, OnlyFromStart
<1>6. files.variants = g.variants
  <2>1. OfOnePlan(files)
    BY DEF IInv
  <2>2. PICK v \in Plan : /\ g.variants = VariantsOf[v]
                          /\ g.review.finding = FindingOf[v]
                          /\ g.review.variant = Selected[v]
    BY <1>1, <1>5 DEF OfOnePlan
  <2>3. PICK w \in Plan : /\ files.variants = VariantsOf[w]
                          /\ files.review.finding = FindingOf[w]
                          /\ files.review.variant = Selected[w]
    BY <1>3, <1>5, <2>1 DEF OfOnePlan
  <2> QED
    BY <1>3, <2>2, <2>3, ReviewShowsVariants
<1>7. ASSUME NEW M, ReviewFor[s.work].refs \subseteq M
      PROVE  Accepts(files, ReviewFor[s.work], s.work, M)
  BY <1>3, <1>4, <1>5, <1>6, <1>7, AcceptsCiting
<1> QED
  BY <1>3, <1>4, <1>7 DEF s

-----------------------------------------------------------------------------
(* The files                                                               *)

\* What the invariant says of the files.
Consistent == RecordsAgree /\ ApprovedBriefIsValid /\ OfOnePlan(files)

\* Nothing is recorded yet that could disagree.
LEMMA InitConsistent == Init => Consistent
BY DEF Init, Consistent, RecordsAgree, ApprovedBriefIsValid, OfOnePlan

\* A release is of approved work.
LEMMA NothingReleased ==
  ASSUME IInv, ~raced, files.work = None
  PROVE  files.release = None
<1>1. files.release \in Release \union {None}
  BY DEF IInv, TypeOK, Workspace
<1>2. files.release \in Release => ReleaseFor[files.release] # None
  BY ContentAssumption DEF ContentAssumption
<1> QED
  BY <1>1, <1>2 DEF IInv, RecordsAgree

\* A submission writes records that agree.
LEMMA SubmitConsistent ==
  ASSUME IInv, NEW p \in Process, ApplySubmit(p)
  PROVE  Consistent'
<1> DEFINE s == job[p]
           g == files'
<1>1. /\ s \in Submission
      /\ g.brief = [content |-> BriefFor[s.work], state |-> "approved"]
      /\ g.variants = files.variants
      /\ g.review = ReviewFor[s.work]
      /\ g.work = s.work
      /\ g.delivery = [work |-> s.work, released |-> s.release # None]
      /\ g.release = IF s.release # None THEN s.release ELSE files.release
  BY SubmittedFiles DEF IInv
<1>2. /\ s.work \in Approval /\ s.work # None
      /\ ReviewFor[s.work] \in Review /\ ReviewFor[s.work] # None
      /\ g.brief # None /\ g.delivery # None
  <2>1. s.work \in Approval
    BY <1>1 DEF Submission
  <2>2. g.brief \in BriefFile /\ g.delivery \in Delivery
    BY <1>1, <2>1, ContentAssumption DEF ContentAssumption, BriefFile, Delivery
  <2> QED
    BY <2>1, <2>2, ContentAssumption DEF ContentAssumption
<1>3. ASSUME ~raced'
      PROVE  /\ ~raced
             /\ files.work = None
             /\ files.delivery = None
             /\ s.release # None => ReleaseFor[s.release] = s.work
             /\ \A M : ReviewFor[s.work].refs \subseteq M =>
                        Accepts(files, ReviewFor[s.work], s.work, M)
  <2>1. ~raced /\ ~torn[p]
    BY <1>3 DEF ApplySubmit
  <2> QED
    BY <2>1, SubmissionStillValid
<1> HIDE DEF s, g
<1>4. ASSUME ~raced' PROVE files.release = None
  BY <1>3, <1>4, NothingReleased
<1>5. RecordsAgree'
  <2>1. g.delivery.work = g.work /\ g.delivery.released = (s.release # None)
    BY <1>1
  <2>2. ~raced' => (g.release # None <=> s.release # None)
    BY <1>1, <1>4
  <2>3. ~raced' =>
          /\ g.delivery = None <=> g.work = None
          /\ g.delivery # None =>
               /\ g.delivery.work = g.work
               /\ g.delivery.released <=> g.release # None
          /\ g.release # None => ReleaseFor[g.release] = g.work
    <3>1. g.delivery = None <=> g.work = None
      BY <1>1, <1>2
    <3>2. ~raced' => (g.delivery.released <=> g.release # None)
      BY <2>1, <2>2
    <3>3. ~raced' /\ g.release # None => ReleaseFor[g.release] = g.work
      BY <1>1, <1>3, <2>2
    <3> QED
      BY <2>1, <3>1, <3>2, <3>3
  <2> QED
    BY <2>3 DEF RecordsAgree, g
<1>6. ApprovedBriefIsValid'
  <2>1. ASSUME ~raced' PROVE Sound(g)
    <3> DEFINE cited == ReviewFor[s.work].refs
               M == g.ledger \union cited
    <3>1. cited \subseteq M
      OBVIOUS
    <3>2. Accepts(files, ReviewFor[s.work], s.work, M)
      BY <1>3, <2>1, <3>1
    <3>3. g.brief.content = files.brief.content
      BY <1>1, <3>2 DEF Accepts
    <3>4. Accepts(g, ReviewFor[s.work], s.work, M)
      BY <1>1, <1>2, <3>1, <3>2, <3>3, AcceptsCiting
    <3> QED
      BY <1>1, <1>2, <3>4 DEF Sound
  <2> QED
    BY <2>1, SoundApproved DEF ApprovedBriefIsValid, g
<1>7. OfOnePlan(g)
  BY <1>1 DEF OfOnePlan
<1> QED
  BY <1>5, <1>6, <1>7 DEF Consistent, g

\* Adding a release keeps the records in agreement.
LEMMA ReleaseConsistent ==
  ASSUME IInv, NEW p \in Process, ApplyRelease(p)
  PROVE  Consistent'
<1> DEFINE s == job[p]
           g == files'
<1>1. /\ s \in Submission
      /\ g.ledger = files.ledger
      /\ g.brief = files.brief
      /\ g.variants = files.variants
      /\ g.review = files.review
      /\ g.work = files.work
      /\ g.delivery = [work |-> s.work, released |-> TRUE]
      /\ g.release = IF base[p].release = None THEN s.release ELSE files.release
  BY ReleasedFiles DEF IInv
<1>2. /\ raced' = raced
      /\ s.release # None
      /\ ReleaseFor[s.release] = s.work
      /\ ~raced => /\ files.work = s.work
                   /\ base[p].release # None => files.release = s.release
  BY DEF IInv, ProcessRow, ReleaseRow, ApplyRelease
<1> HIDE DEF s, g
<1>3. s.work # None /\ g.delivery # None
  <2>1. s.work \in Approval
    BY <1>1 DEF Submission
  <2>2. g.delivery \in Delivery
    BY <1>1, <2>1 DEF Delivery
  <2> QED
    BY <2>1, <2>2, ContentAssumption DEF ContentAssumption
<1>4. RecordsAgree'
  <2>1. ~raced' =>
          /\ g.delivery = None <=> g.work = None
          /\ g.delivery # None =>
               /\ g.delivery.work = g.work
               /\ g.delivery.released <=> g.release # None
          /\ g.release # None => ReleaseFor[g.release] = g.work
    BY <1>1, <1>2, <1>3
  <2> QED
    BY <2>1 DEF RecordsAgree, g
<1>5. ApprovedBriefIsValid'
  <2>1. Sound(g) <=> Sound(files)
    BY <1>1, SoundSame
  <2> QED
    BY <1>1, <1>2, <2>1, SoundApproved DEF IInv, ApprovedBriefIsValid, g
<1>6. OfOnePlan(g)
  BY <1>1 DEF IInv, OfOnePlan
<1> QED
  BY <1>4, <1>5, <1>6 DEF Consistent, g

\* A reconcile leaves approval, delivery and release alone.
LEMMA ReconcileConsistent ==
  ASSUME IInv, NEW p \in Process, ApplyReconcile(p)
  PROVE  Consistent'
<1>1. raced' = raced
  BY DEF ApplyReconcile
<1>2. RecordsAgree'
  BY <1>1, ReconciledFiles DEF IInv, RecordsAgree
<1>3. ApprovedBriefIsValid'
  <2>1. files'.brief = [content |-> job[p].brief, state |-> "brief"]
    BY ReconciledFiles DEF IInv
  <2> QED
    BY <2>1 DEF ApprovedBriefIsValid
<1>4. OfOnePlan(files')
  <2>1. /\ files'.variants = job[p].variants
        /\ files'.review = job[p].review
        /\ job[p] \in Derivation
    BY ReconciledFiles DEF IInv
  <2>2. files'.review # None
    BY <2>1, ContentAssumption DEF ContentAssumption, Derivation
  <2> QED
    BY <2>1, <2>2 DEF IInv, ProcessRow, ReconcileRow, ApplyReconcile, OfOnePlan
<1> QED
  BY <1>2, <1>3, <1>4 DEF Consistent

\* A step that leaves these records alone keeps them in agreement.
LEMMA UntouchedConsistent ==
  ASSUME IInv, raced' = raced,
         files'.brief = files.brief, files'.variants = files.variants,
         files'.review = files.review, files'.work = files.work,
         files'.delivery = files.delivery, files'.release = files.release
  PROVE  Consistent'
<1>1. RecordsAgree'
  BY DEF IInv, RecordsAgree
<1>2. ApprovedBriefIsValid'
  <2>1. Sound(files') <=> Sound(files)
    BY SoundSame
  <2> QED
    BY <2>1, SoundApproved DEF IInv, ApprovedBriefIsValid
<1>3. OfOnePlan(files')
  BY DEF IInv, OfOnePlan
<1> QED
  BY <1>1, <1>2, <1>3 DEF Consistent

\* An append is such a step.
LEMMA AppendConsistent ==
  ASSUME IInv, NEW p \in Process, ApplyAppend(p)
  PROVE  Consistent'
BY AppendedFiles, UntouchedConsistent DEF IInv, ApplyAppend

\* So is an edit of the user.
LEMMA UserConsistent ==
  ASSUME IInv, UserNext
  PROVE  Consistent'
BY UserFiles, UntouchedConsistent DEF IInv

\* The steps of a command that do not apply a manifest.
LEMMA QuietStep ==
  ASSUME NEW p \in Process, ProcessNext(p),
         ~ApplySubmit(p), ~ApplyRelease(p), ~ApplyReconcile(p), ~ApplyAppend(p)
  PROVE  files' = files /\ raced' = raced
BY DEF ProcessNext, StartSubmit, BindSubmit, MergeEvidence, BindLedger,
       StartRelease, BindRelease, StartReconcile, BindReconcile, StartAppend,
       BindAppend, GiveUp

\* What no step takes away.
LEMMA StepGrows ==
  ASSUME IInv, Next
  PROVE  /\ raced => raced'
         /\ ~raced' =>
              /\ files.work # None => files'.work = files.work
              /\ files.release # None => files'.release = files.release
<1>1. CASE UserNext
  BY <1>1, UserFiles DEF IInv
<1>2. ASSUME NEW p \in Process, ProcessNext(p)
      PROVE  /\ raced => raced'
             /\ ~raced' =>
                  /\ files.work # None => files'.work = files.work
                  /\ files.release # None => files'.release = files.release
  <2>1. CASE ApplySubmit(p)
    <3>1. raced => raced'
      BY <2>1 DEF ApplySubmit
    <3>2. ~raced' => files.work = None /\ files.release = None
      BY <2>1, SubmissionStillValid, NothingReleased DEF ApplySubmit
    <3> QED
      BY <3>1, <3>2
  <2>2. CASE ApplyRelease(p)
    BY <2>2, ReleasedFiles DEF IInv, ApplyRelease
  <2>3. CASE ApplyReconcile(p)
    BY <2>3, ReconciledFiles DEF IInv, ApplyReconcile
  <2>4. CASE ApplyAppend(p)
    BY <2>4, AppendedFiles DEF IInv, ApplyAppend
  <2> QED
    BY <1>2, <2>1, <2>2, <2>3, <2>4, QuietStep
<1> QED
  BY <1>1, <1>2 DEF Next

-----------------------------------------------------------------------------
(* The rows                                                                *)

\* A command at rest satisfies its row.
LEMMA RestingRow ==
  ASSUME NEW p \in Process, pc[p] = "idle"
  PROVE  ProcessRow(p)
BY DEF ProcessRow, SubmitRow, ReleaseRow, ReconcileRow

\* A command that ends has nothing left to be wrong about.
LEMMA ForgetRow ==
  ASSUME TypeOK, NEW p \in Process, Forget(p)
  PROVE  ProcessRow(p)'
BY DEF TypeOK, Forget, ProcessRow, SubmitRow, ReleaseRow, ReconcileRow

\* A step that is not q's leaves what q has in memory.
LEMMA OthersRow ==
  ASSUME IInv, Next, NEW q \in Process,
         pc'[q] = pc[q], job'[q] = job[q], base'[q] = base[q], torn'[q] = torn[q]
  PROVE  ProcessRow(q)'
<1>1. /\ raced => raced'
      /\ ~raced' /\ files.work # None => files'.work = files.work
      /\ ~raced' /\ files.release # None => files'.release = files.release
  BY StepGrows
<1>2. SubmitRow(q)'
  <2>1. SubmitRow(q)
    BY DEF IInv, ProcessRow
  <2> QED
    BY <2>1 DEF SubmitRow, Submittable, Accepts, Supported, TargetsOf, OfOnePlan
<1>3. ReleaseRow(q)'
  <2>1. pc[q] \in {"release", "releasable"} => job[q].work # None
    BY ContentAssumption DEF ContentAssumption, IInv, TypeOK, Submission
  <2> QED
    BY <1>1, <2>1 DEF IInv, ProcessRow, ReleaseRow
<1>4. ReconcileRow(q)'
  <2>1. ReconcileRow(q)
    BY DEF IInv, ProcessRow
  <2> QED
    BY <2>1 DEF ReconcileRow, Derives, PlanApproved, Derived, Cited
<1> QED
  BY <1>2, <1>3, <1>4 DEF ProcessRow

\* A command's own steps.
LEMMA OwnRow ==
  ASSUME IInv, NEW p \in Process, ProcessNext(p)
  PROVE  ProcessRow(p)'
<1>1. CASE \E s \in Submission : StartSubmit(p, s)
  BY <1>1 DEF StartSubmit, IInv, TypeOK, ProcessRow, SubmitRow, ReleaseRow,
              ReconcileRow
<1>2. CASE BindSubmit(p)
  <2>1. /\ pc'[p] \in {"merge", "submittable"} /\ job'[p] = job[p]
        /\ base'[p] = [targets |-> TargetsOf(files, job[p]), ledger |-> {}]
        /\ torn'[p] = ~Submittable(files, job[p])
    BY <1>2 DEF BindSubmit, IInv, TypeOK
  <2>2. SubmitRow(p)'
    <3>1. files \in Workspace /\ OfOnePlan(files)
      BY DEF IInv, TypeOK
    <3> DEFINE t == TargetsOf(files, job[p])
    <3>2. base'[p] = [targets |-> t, ledger |-> base'[p].ledger]
      BY <2>1
    <3> QED
      BY <2>1, <3>1, <3>2 DEF SubmitRow
  <2> QED
    BY <2>1, <2>2 DEF ProcessRow, ReleaseRow, ReconcileRow
<1>3. CASE MergeEvidence(p)
  <2>1. /\ pc[p] = "merge" /\ pc'[p] = "merged" /\ job'[p] = job[p]
        /\ base' = base /\ torn' = torn
    BY <1>3 DEF MergeEvidence, IInv, TypeOK
  <2>2. SubmitRow(p)
    BY DEF IInv, ProcessRow
  <2>3. SubmitRow(p)'
    BY <2>1, <2>2 DEF SubmitRow
  <2> QED
    BY <2>1, <2>3 DEF ProcessRow, ReleaseRow, ReconcileRow
<1>4. CASE BindLedger(p)
  <2>1. /\ pc[p] = "merged" /\ pc'[p] = "submittable" /\ job'[p] = job[p]
        /\ base'[p] = [base[p] EXCEPT !.ledger = files.ledger] /\ torn' = torn
    BY <1>4 DEF BindLedger, IInv, TypeOK
  <2>2. SubmitRow(p)'
    <3>1. ASSUME ~torn'[p]
          PROVE  \E g \in Workspace :
                   /\ base'[p] = [targets |-> TargetsOf(g, job[p]),
                                  ledger |-> base'[p].ledger]
                   /\ Submittable(g, job[p])
                   /\ OfOnePlan(g)
      <4>1. PICK g \in Workspace :
                   /\ base[p] = [targets |-> TargetsOf(g, job[p]),
                                 ledger |-> base[p].ledger]
                   /\ Submittable(g, job[p])
                   /\ OfOnePlan(g)
        BY <2>1, <3>1 DEF IInv, ProcessRow, SubmitRow
      <4> DEFINE t == TargetsOf(g, job[p])
      <4>2. base[p] = [targets |-> t, ledger |-> base[p].ledger]
        BY <4>1
      <4> HIDE DEF t
      <4>3. base'[p] = [targets |-> t, ledger |-> base'[p].ledger]
        BY <2>1, <4>2
      <4> QED
        BY <4>1, <4>3 DEF t
    <3> QED
      BY <2>1, <3>1 DEF SubmitRow
  <2> QED
    BY <2>1, <2>2 DEF ProcessRow, ReleaseRow, ReconcileRow
<1>5. CASE \E r \in Release, E \in Brought \union {{}} : StartRelease(p, r, E)
  <2>1. PICK r \in Release, E \in Brought \union {{}} : StartRelease(p, r, E)
    BY <1>5
  <2>2. /\ pc'[p] = "release" /\ files' = files
        /\ job'[p].release = r /\ job'[p].work = ReleaseFor[r]
        /\ files.work = ReleaseFor[r]
    BY <2>1 DEF StartRelease, Releasable, IInv, TypeOK
  <2>3. r # None
    BY ContentAssumption DEF ContentAssumption
  <2> QED
    BY <2>2, <2>3 DEF ProcessRow, SubmitRow, ReleaseRow, ReconcileRow
<1>6. CASE BindRelease(p)
  <2>1. /\ pc[p] = "release" /\ pc'[p] = "releasable" /\ job'[p] = job[p]
        /\ files' = files /\ raced' = raced
        /\ base'[p].release = files.release
        /\ files.release \in {None, job[p].release}
    BY <1>6 DEF BindRelease, IInv, TypeOK
  <2> QED
    BY <2>1 DEF IInv, ProcessRow, SubmitRow, ReleaseRow, ReconcileRow
<1>7. CASE StartReconcile(p)
  <2>1. pc'[p] = "reconcile" /\ job'[p] = Derived(files)
    BY <1>7 DEF StartReconcile, IInv, TypeOK
  <2>2. /\ files.plan \in Plan
        /\ Derived(files).variants = VariantsOf[files.plan]
        /\ Derived(files).review.finding = FindingOf[files.plan]
        /\ Derived(files).review.variant = Selected[files.plan]
    BY DEF IInv, TypeOK, Workspace, Derived
  <2> QED
    BY <2>1, <2>2 DEF ProcessRow, SubmitRow, ReleaseRow, ReconcileRow
<1>8. CASE BindReconcile(p)
  <2>1. /\ pc[p] = "reconcile" /\ pc'[p] = "reconcilable" /\ job'[p] = job[p]
        /\ base'[p] = files
        /\ torn'[p] = ~(Derives(files) /\ job[p] = Derived(files))
    BY <1>8 DEF BindReconcile, IInv, TypeOK
  <2>2. ~torn'[p] => Derives(base'[p]) /\ job'[p] = Derived(base'[p])
    BY <2>1
  <2> QED
    BY <2>1, <2>2 DEF IInv, ProcessRow, SubmitRow, ReleaseRow, ReconcileRow
<1>9. CASE (\E e \in Evidence : StartAppend(p, e)) \/ BindAppend(p)
  <2>1. pc'[p] \in {"append", "appendable"}
    BY <1>9 DEF StartAppend, BindAppend, IInv, TypeOK
  <2> QED
    BY <2>1 DEF ProcessRow, SubmitRow, ReleaseRow, ReconcileRow
<1>10. CASE Forget(p)
  BY <1>10, ForgetRow DEF IInv
<1> QED
  BY <1>1, <1>2, <1>3, <1>4, <1>5, <1>6, <1>7, <1>8, <1>9, <1>10
     DEF ProcessNext, ApplySubmit, ApplyRelease, ApplyReconcile, ApplyAppend,
         GiveUp

\* What a command knows survives the steps of the others.
LEMMA OtherProcessRow ==
  ASSUME IInv, Next, NEW p \in Process, ProcessNext(p), NEW q \in Process, q # p
  PROVE  ProcessRow(q)'
<1>1. /\ pc'[q] = pc[q] /\ job'[q] = job[q]
      /\ base'[q] = base[q] /\ torn'[q] = torn[q]
  BY DEF ProcessNext, StartSubmit, BindSubmit, MergeEvidence, BindLedger,
         ApplySubmit, StartRelease, BindRelease, ApplyRelease, StartReconcile,
         BindReconcile, ApplyReconcile, StartAppend, BindAppend, ApplyAppend,
         GiveUp, Forget, IInv, TypeOK
<1> QED
  BY <1>1, OthersRow

-----------------------------------------------------------------------------
(* The invariant                                                           *)

\* The invariant holds of an initialised workspace.
LEMMA Initially == Init => IInv
<1> SUFFICES ASSUME Init PROVE IInv
  OBVIOUS
<1>1. \A p \in Process : pc[p] = "idle"
  BY DEF Init
<1> QED
  BY <1>1, InitType, InitConsistent, RestingRow DEF IInv, Consistent

\* A step that changes nothing keeps the invariant.
LEMMA StutterPreserves ==
  ASSUME IInv, UNCHANGED vars
  PROVE  IInv'
<1>1. /\ TypeOK' /\ RecordsAgree' /\ ApprovedBriefIsValid'
      /\ OfOnePlan(files)'
  BY DEF vars, IInv, TypeOK, RecordsAgree, ApprovedBriefIsValid, OfOnePlan,
         Sound, WorkApproved, Accepts, Supported
<1>2. ASSUME NEW q \in Process PROVE ProcessRow(q)'
  BY DEF vars, IInv, ProcessRow, SubmitRow, ReleaseRow, ReconcileRow,
         Derives, PlanApproved, Derived, Cited
<1> QED
  BY <1>1, <1>2 DEF IInv

\* Every step keeps the invariant.
LEMMA NextPreserves ==
  ASSUME IInv, Next
  PROVE  IInv'
<1>1. CASE UserNext
  <2>1. TypeOK'
    BY <1>1, UserType DEF IInv
  <2>2. Consistent'
    BY <1>1, UserConsistent
  <2>3. \A q \in Process : ProcessRow(q)'
    BY <1>1, UserFiles, OthersRow DEF IInv
  <2> QED
    BY <2>1, <2>2, <2>3 DEF IInv, Consistent
<1>2. ASSUME NEW p \in Process, ProcessNext(p) PROVE IInv'
  <2>1. TypeOK'
    BY <1>2, StepType DEF IInv
  <2>2. \A q \in Process : ProcessRow(q)'
    BY <1>2, OwnRow, OtherProcessRow
  <2>3. Consistent'
    <3>1. CASE files' = files /\ raced' = raced
      BY <3>1 DEF IInv, Consistent, RecordsAgree, ApprovedBriefIsValid
    <3> QED
      BY <1>2, <3>1, QuietStep, SubmitConsistent, ReleaseConsistent,
         ReconcileConsistent, AppendConsistent
  <2> QED
    BY <2>1, <2>2, <2>3 DEF IInv, Consistent
<1> QED
  BY <1>1, <1>2 DEF Next

\* The invariant holds whatever is submitted, reconciled and edited.
THEOREM Invariance == Spec => []IInv
<1>1. IInv /\ [Next]_vars => IInv'
  BY NextPreserves, StutterPreserves
<1> QED
  BY Initially, <1>1, PTL DEF Spec

-----------------------------------------------------------------------------
(* The results                                                             *)

\* Workspace, commands and manifests keep their types.
THEOREM TypeCorrect == Spec => []TypeOK
BY Invariance, PTL DEF IInv

\* Of approval, delivery record and release, none goes without the others that
\* the submissions wrote along with it.
THEOREM RecordsStayConsistent == Spec => []RecordsAgree
BY Invariance, PTL DEF IInv

\* A brief that is through its lifecycle has been through a valid approval, and
\* the approval stays valid for the evidence it cites: the review a submission
\* binds stands for the variants it does not, and no ledger can part the two.
THEOREM ApprovedBriefs == Spec => []ApprovedBriefIsValid
BY Invariance, PTL DEF IInv

\* The first approval and the first release on file stay there.
THEOREM ApprovalsStay == Spec => ApprovalIsFinal
<1>1. IInv /\ [Next]_vars =>
        [~raced' =>
           /\ files.work # None => files'.work = files.work
           /\ files.release # None => files'.release = files.release]_vars
  BY StepGrows
<1> QED
  BY <1>1, Invariance, PTL DEF Spec, ApprovalIsFinal

\* The command whose batch may end, by itself or by being given up.
LEMMA EndingCommand ==
  ASSUME TypeOK, NEW p \in Process, ProcessNext(p), NEW q \in Process,
         pc[q] # "idle", pc'[q] = "idle"
  PROVE  q = p
BY DEF TypeOK, ProcessNext, StartSubmit, BindSubmit, MergeEvidence, BindLedger,
       ApplySubmit, StartRelease, BindRelease, ApplyRelease, StartReconcile,
       BindReconcile, ApplyReconcile, StartAppend, BindAppend, ApplyAppend,
       GiveUp, Forget

\* The steps that end a reconcile.
LEMMA ReconcileEnds ==
  ASSUME IInv, Next, NEW p \in Process, pc[p] = "reconcilable", pc'[p] = "idle"
  PROVE  ApplyReconcile(p) \/ files' = files
<1>1. ~UserNext
  BY UserFiles DEF IInv
<1>2. PICK q \in Process : ProcessNext(q)
  BY <1>1 DEF Next
<1>3. q = p
  BY <1>2, EndingCommand DEF IInv
<1>4. ~ApplySubmit(p) /\ ~ApplyRelease(p) /\ ~ApplyAppend(p)
  BY DEF ApplySubmit, ApplyRelease, ApplyAppend
<1> QED
  BY <1>2, <1>3, <1>4, QuietStep

\* A reconcile that is not torn leaves files that are as derived, and a Plan
\* whose approval stands.
LEMMA ReconciledAsDerived ==
  ASSUME IInv, NEW p \in Process, ApplyReconcile(p), ~torn[p]
  PROVE  /\ Derives(files) /\ Derives(files')
         /\ Derived(files') = Derived(files)
         /\ job[p] = Derived(files)
         /\ AsDerived(files')
<1>1. Derives(files) /\ job[p] = Derived(files)
  BY DEF IInv, ProcessRow, ReconcileRow, ApplyReconcile, WorkspaceUnchanged
<1> DEFINE g == files'
<1>2. /\ g.plan = files.plan /\ g.approval = files.approval
      /\ g.ledger = files.ledger
      /\ g.brief = [content |-> job[p].brief, state |-> "brief"]
      /\ g.variants = job[p].variants /\ g.review = job[p].review
      /\ g.brief \in BriefFile
  <2>1. /\ g.plan = files.plan /\ g.approval = files.approval
        /\ g.ledger = files.ledger
        /\ g.brief = [content |-> job[p].brief, state |-> "brief"]
        /\ g.variants = job[p].variants /\ g.review = job[p].review
        /\ job[p] \in Derivation
    BY ReconciledFiles DEF IInv
  <2>2. g.brief \in BriefFile
    BY <2>1 DEF Derivation, BriefFile
  <2> QED
    BY <2>1, <2>2
<1> HIDE DEF g
<1>3. Derives(g) /\ Derived(g) = Derived(files)
  BY <1>1, <1>2 DEF Derives, PlanApproved, Derived, Cited
<1>4. g.brief # None /\ g.brief.content = job[p].brief
  BY <1>2, ContentAssumption DEF ContentAssumption
<1>5. AsDerived(g)
  BY <1>1, <1>2, <1>3, <1>4 DEF AsDerived
<1> QED
  BY <1>1, <1>3, <1>5 DEF g

\* diff finds nothing once a reconcile is through.
THEOREM ReconcileRepairs == Spec => ReconcileSettles
<1>1. ASSUME IInv, Next, NEW p \in Process, pc[p] = "reconcilable",
             pc'[p] = "idle", files' # files, ~torn[p]
      PROVE  ~Drift(files')
  BY <1>1, ReconcileEnds, ReconciledAsDerived DEF Drift, Derives
<1>2. IInv /\ [Next]_vars =>
        [\A p \in Process :
           pc[p] = "reconcilable" /\ pc'[p] = "idle" /\ files' # files /\ ~torn[p]
             => ~Drift(files')]_vars
  BY <1>1
<1> QED
  BY <1>2, Invariance, PTL DEF Spec, ReconcileSettles

\* One reconcile of files without drift: it writes back what it finds, but for
\* the state of the brief.
LEMMA StepHarmless ==
  ASSUME IInv, NEW p \in Process, ApplyReconcile(p), ~torn[p], ~Drift(files)
  PROVE  /\ WorkApproved(files') <=> WorkApproved(files)
         /\ ReleaseApproved(files') <=> ReleaseApproved(files)
         /\ DoctorAccepts(files') <=> DoctorAccepts(files)
<1> DEFINE g == files'
<1>1. /\ Derives(files) /\ Derives(g)
      /\ AsDerived(files) /\ AsDerived(g)
      /\ Derived(g) = Derived(files)
  BY ReconciledAsDerived DEF Drift, Derives
<1>2. /\ g.ledger = files.ledger /\ g.work = files.work
      /\ g.delivery = files.delivery /\ g.release = files.release
  BY ReconciledFiles DEF IInv
<1> HIDE DEF g
<1>3. /\ files.brief # None /\ g.brief # None
      /\ g.brief.content = files.brief.content
      /\ g.variants = files.variants
      /\ g.review = files.review
  BY <1>1 DEF AsDerived
<1>4. WorkApproved(g) <=> WorkApproved(files)
  <2>1. ASSUME NEW r, NEW a, NEW L
        PROVE  Accepts(g, r, a, L) <=> Accepts(files, r, a, L)
    BY <1>3 DEF Accepts
  <2> QED
    BY <1>2, <1>3, <2>1 DEF WorkApproved
<1>5. ReleaseApproved(g) <=> ReleaseApproved(files)
  BY <1>2, <1>4 DEF ReleaseApproved
<1>6. DoctorAccepts(g) <=> DoctorAccepts(files)
  BY <1>1, <1>2, <1>4, <1>5 DEF DoctorAccepts, Derives
<1> QED
  BY <1>4, <1>5, <1>6 DEF g

\* A reconcile that nothing calls for keeps approved work approved.
THEOREM ReconcileIsHarmless == Spec => HarmlessReconcile
<1>1. ASSUME IInv, Next, NEW p \in Process, pc[p] = "reconcilable",
             pc'[p] = "idle", ~torn[p], ~Drift(files)
      PROVE  /\ WorkApproved(files') <=> WorkApproved(files)
             /\ ReleaseApproved(files') <=> ReleaseApproved(files)
             /\ DoctorAccepts(files') <=> DoctorAccepts(files)
  <2>1. CASE files' = files
    BY <2>1
  <2> QED
    BY <1>1, <2>1, ReconcileEnds, StepHarmless
<1>2. IInv /\ [Next]_vars =>
        [\A p \in Process :
           pc[p] = "reconcilable" /\ pc'[p] = "idle" /\ ~torn[p] /\ ~Drift(files)
             => /\ WorkApproved(files') <=> WorkApproved(files)
                /\ ReleaseApproved(files') <=> ReleaseApproved(files)
                /\ DoctorAccepts(files') <=> DoctorAccepts(files)]_vars
  BY <1>1
<1> QED
  BY <1>2, Invariance, PTL DEF Spec, HarmlessReconcile

\* A ledger that an append writes holds what was on file, but for what it drops.
LEMMA Kept ==
  ASSUME TypeOK, NEW p \in Process, ApplyAppend(p), NEW X, ~Drops(X)
  PROVE  X \intersect files.ledger \subseteq payload[p]
<1>1. pc[p] = "appendable" /\ pc'[p] = "idle"
  BY DEF TypeOK, ApplyAppend, Forget
<1>2. files.ledger = base[p].ledger
  BY DEF ApplyAppend
<1> QED
  BY <1>1, <1>2 DEF Drops

\* A step that leaves the work's records alone, and on file what a release call
\* relies on.
LEMMA StaysReleasable ==
  ASSUME NEW f, NEW g, NEW r, NEW E, Releasable(f, r, E), PlanApproved(g),
         g.brief = f.brief, g.variants = f.variants, g.work = f.work,
         g.delivery = f.delivery, g.release = f.release,
         ReviewFor[f.work].refs \subseteq g.ledger \union E
  PROVE  Releasable(g, r, E)
<1> DEFINE review == ReviewFor[f.work]
           L == f.ledger \union E
           M == g.ledger \union E
<1>1. Accepts(f, review, f.work, L) /\ review.refs \subseteq M
  BY DEF Releasable
<1>2. g.brief # None /\ g.brief.content = f.brief.content
  BY <1>1 DEF Accepts
<1>3. Accepts(g, review, f.work, M)
  <2> HIDE DEF review, L, M
  <2> QED
    BY <1>1, <1>2, AcceptsCiting
<1> QED
  BY <1>3 DEF Releasable

\* One step that is not a reconcile, takes neither the Plan's approval away nor
\* cited evidence that the call does not bring.
LEMMA StepReleasable ==
  ASSUME IInv, Next, NEW r \in Release, NEW E, ~raced', Releasable(files, r, E),
         files'.release = None, PlanApproved(files'),
         ~ \E p \in Process : pc[p] = "reconcilable" /\ pc'[p] = "idle",
         ~Drops(files.review.refs \ E)
  PROVE  Releasable(files', r, E)
<1> DEFINE refs == files.review.refs
<1>1. /\ ReviewFor[files.work].refs = refs
      /\ refs \subseteq files.ledger \union E
  <2>1. ~raced
    BY StepGrows
  <2>2. Sound(files)
    BY <2>1, ContentAssumption
       DEF ContentAssumption, IInv, ApprovedBriefIsValid, Releasable, Accepts
  <2> QED
    BY <2>2 DEF Sound, Releasable, Accepts, Supported
<1>2. CASE UserNext
  <2>1. refs \subseteq files'.ledger \union E
    BY <1>1, <1>2, UserFiles DEF IInv
  <2> QED
    BY <1>1, <1>2, <2>1, UserFiles, StaysReleasable DEF IInv
<1>3. ASSUME NEW p \in Process, ProcessNext(p) PROVE Releasable(files', r, E)
  <2>1. ~ApplySubmit(p)
    <3>1. files.work # None
      BY ContentAssumption DEF ContentAssumption, Releasable
    <3> QED
      BY <3>1, SubmissionStillValid DEF ApplySubmit
  <2>2. ASSUME ApplyRelease(p) PROVE FALSE
    <3>1. /\ job[p].release # None
          /\ base[p].release # None => files.release = job[p].release
      BY <2>2, StepGrows DEF IInv, ProcessRow, ReleaseRow, ApplyRelease
    <3> QED
      BY <2>2, <3>1, ReleasedFiles DEF IInv
  <2>3. ~ApplyReconcile(p)
    BY DEF ApplyReconcile, Forget, IInv, TypeOK
  <2>4. CASE ApplyAppend(p)
    <3>1. (refs \ E) \intersect files.ledger \subseteq payload[p]
      BY <2>4, Kept DEF IInv
    <3>2. files'.ledger = payload[p]
      BY <2>4, AppendedFiles DEF IInv
    <3>3. refs \subseteq files'.ledger \union E
      BY <1>1, <3>1, <3>2
    <3> QED
      BY <1>1, <2>4, <3>3, AppendedFiles, StaysReleasable DEF IInv
  <2> QED
    BY <1>3, <2>1, <2>2, <2>3, <2>4, QuietStep
<1> QED
  BY <1>2, <1>3 DEF Next

\* What can be released stays so until it is, a reconcile takes the brief back,
\* the Plan's own approval is lost or a stale write drops evidence.
THEOREM ReleaseStaysOpen == Spec => ReleasableUntilReconciled
<1>1. IInv /\ [Next]_vars =>
        [\A r \in Release, E \in Brought \union {{}} :
           ~raced' /\ Releasable(files, r, E) /\ ~Releasable(files', r, E) =>
             \/ files'.release # None
             \/ ~PlanApproved(files')
             \/ \E p \in Process : pc[p] = "reconcilable" /\ pc'[p] = "idle"
             \/ Drops(files.review.refs \ E)]_vars
  BY StepReleasable
<1> QED
  BY <1>1, Invariance, PTL DEF Spec, ReleasableUntilReconciled

-----------------------------------------------------------------------------
(* The approval record                                                     *)

\* Delivery record, approval and release tell the same, as long as no torn
\* submission was applied.
RecordAsFiled ==
  /\ RecordedWork = files.work
  /\ RecordedRelease = (files.release # None)
  /\ files.release # None => ReleaseFor[files.release] = files.work
  /\ files.work = None => files.release = None

\* What agrees is seen as filed.
LEMMA AgreeingRecords == IInv /\ ~raced => RecordAsFiled
<1> SUFFICES ASSUME IInv, ~raced
             PROVE  RecordAsFiled
  OBVIOUS
<1>1. files.delivery # None => files.delivery.released \in BOOLEAN
  BY DEF IInv, TypeOK, Workspace, Delivery
<1>2. /\ files.delivery = None <=> files.work = None
      /\ files.delivery # None =>
           /\ files.delivery.work = files.work
           /\ files.delivery.released <=> files.release # None
      /\ files.release # None => ReleaseFor[files.release] = files.work
  BY DEF IInv, RecordsAgree
<1>3. files.work = None => files.release = None
  BY NothingReleased
<1>4. RecordedWork = files.work
  BY <1>2 DEF RecordedWork
<1>5. RecordedRelease = (files.release # None)
  BY <1>1, <1>2, <1>3 DEF RecordedRelease
<1> QED
  BY <1>2, <1>3, <1>4, <1>5 DEF RecordAsFiled

\* Every step is one of the approval record, or none.
LEMMA RecordStep ==
  ASSUME IInv, IInv', RecordAsFiled, RecordAsFiled', ~raced, ~raced', Next
  PROVE  Seen!RecordNext \/ UNCHANGED Seen!recordVars
<1> DEFINE reconciling == {p \in Process : pc[p] = "reconcilable"}
<1>0. Sound(files) \in BOOLEAN /\ Sound(files') \in BOOLEAN
  BY DEF Sound
<1>1. UNCHANGED <<files, reconciling, raced>> => UNCHANGED Seen!recordVars
  BY DEF Seen!recordVars, RecordedWork, RecordedRelease, Sound, Accepts,
         Supported
<1>2. ASSUME UNCHANGED <<reconciling, raced>>,
             files'.brief = files.brief, files'.variants = files.variants,
             files'.review = files.review, files'.work = files.work,
             files'.delivery = files.delivery, files'.release = files.release
      PROVE  UNCHANGED Seen!recordVars
  <2>1. Sound(files') = Sound(files)
    BY <1>0, <1>2, SoundSame
  <2> QED
    BY <1>2, <2>1 DEF Seen!recordVars, RecordedWork, RecordedRelease
<1>9. CASE UserNext
  BY <1>2, <1>9, UserFiles DEF IInv
<1>10. ASSUME NEW p \in Process, ApplyAppend(p)
       PROVE  UNCHANGED Seen!recordVars
  <2>1. reconciling' = reconciling /\ raced' = raced
    BY <1>10 DEF ApplyAppend, Forget, IInv, TypeOK
  <2> QED
    BY <1>2, <1>10, <2>1, AppendedFiles DEF IInv
<1>3. ASSUME NEW p \in Process,
             \/ \E s \in Submission : StartSubmit(p, s)
             \/ BindSubmit(p) \/ MergeEvidence(p) \/ BindLedger(p)
             \/ \E r \in Release, E \in Brought \union {{}} : StartRelease(p, r, E)
             \/ BindRelease(p) \/ StartReconcile(p)
             \/ \E e \in Evidence : StartAppend(p, e)
             \/ BindAppend(p)
      PROVE  UNCHANGED Seen!recordVars
  <2>1. reconciling' = reconciling
    BY <1>3 DEF StartSubmit, BindSubmit, MergeEvidence, BindLedger, StartRelease,
                BindRelease, StartReconcile, StartAppend, BindAppend, IInv, TypeOK
  <2>2. files' = files /\ raced' = raced
    BY <1>3 DEF StartSubmit, BindSubmit, MergeEvidence, BindLedger, StartRelease,
                BindRelease, StartReconcile, StartAppend, BindAppend
  <2> QED
    BY <1>1, <2>1, <2>2
<1>4. ASSUME NEW p \in Process, BindReconcile(p)
      PROVE  Seen!RecordNext
  <2>1. reconciling' = reconciling \union {p} /\ files' = files
    BY <1>4 DEF BindReconcile, IInv, TypeOK
  <2>2. Sound(files') = Sound(files)
    BY <2>1
  <2>3. Seen!Prepare(p)
    BY <2>1, <2>2 DEF Seen!Prepare, Seen!record, RecordedWork, RecordedRelease
  <2> QED
    BY <2>3 DEF Seen!RecordNext
<1>5. ASSUME NEW p \in Process, GiveUp(p)
      PROVE  Seen!RecordNext \/ UNCHANGED Seen!recordVars
  <2>1. files' = files /\ raced' = raced /\ reconciling' = reconciling \ {p}
    BY <1>5 DEF GiveUp, Forget, IInv, TypeOK
  <2>2. CASE pc[p] # "reconcilable"
    BY <1>1, <2>1, <2>2
  <2>3. CASE pc[p] = "reconcilable"
    <3>1. Sound(files') = Sound(files)
      BY <2>1
    <3>2. Sound(files) => RecordedWork # None
      BY DEF Sound, RecordAsFiled
    <3>3. Seen!Settle(p)
      BY <1>0, <2>1, <2>3, <3>1, <3>2
         DEF Seen!Settle, Seen!record, RecordedWork, RecordedRelease
    <3> QED
      BY <3>3 DEF Seen!RecordNext
  <2> QED
    BY <2>2, <2>3
<1>6. ASSUME NEW p \in Process, ApplySubmit(p)
      PROVE  Seen!RecordNext
  <2>1. /\ files.work = None
        /\ files'.work = job[p].work /\ job[p].work \in Approval
        /\ files'.brief # None /\ files'.brief.state = "approved"
        /\ files'.release \in Release \union {None}
    <3>1. ~torn[p]
      BY <1>6 DEF ApplySubmit
    <3>2. job[p].work \in Approval /\ files'.work = job[p].work
      BY <1>6, SubmittedFiles DEF IInv, Submission
    <3>3. files'.brief = [content |-> BriefFor[job[p].work], state |-> "approved"]
      BY <1>6, SubmittedFiles DEF IInv
    <3>4. files'.brief \in BriefFile
      BY <3>2, <3>3, ContentAssumption DEF ContentAssumption, BriefFile
    <3>5. files'.release \in Release \union {None}
      BY <1>6, SubmittedFiles DEF IInv, Workspace
    <3>6. files'.brief # None
      BY <3>4, ContentAssumption DEF ContentAssumption
    <3>7. files.work = None
      BY <1>6, <3>1, SubmissionStillValid
    <3>8. files'.brief.state = "approved"
      BY <3>3
    <3> QED
      BY <3>2, <3>5, <3>6, <3>7, <3>8
  <2>2. Sound(files')
    BY <2>1 DEF IInv, ApprovedBriefIsValid
  <2>3. reconciling' = reconciling
    BY <1>6 DEF ApplySubmit, Forget, IInv, TypeOK
  <2>4. Seen!Record
    <3>1. RecordedWork = None /\ RecordedWork' \in Approval
      BY <2>1 DEF RecordAsFiled
    <3>2. files'.release \in
            {None} \union {r \in Release : ReleaseFor[r] = RecordedWork'}
      BY <2>1 DEF RecordAsFiled
    <3>3. RecordedRelease' = (files'.release # None)
      BY DEF RecordAsFiled
    <3>4. Sound(files') = TRUE
      BY <2>2 DEF Sound
    <3> QED
      BY <2>3, <3>1, <3>2, <3>3, <3>4 DEF Seen!Record
  <2> QED
    BY <2>4 DEF Seen!RecordNext
<1>7. ASSUME NEW p \in Process, ApplyRelease(p)
      PROVE  Seen!RecordNext \/ UNCHANGED Seen!recordVars
  <2>1. /\ files'.ledger = files.ledger /\ files'.brief = files.brief
        /\ files'.variants = files.variants /\ files'.review = files.review
        /\ files'.work = files.work
        /\ files'.delivery = [work |-> job[p].work, released |-> TRUE]
        /\ files'.delivery \in Delivery
        /\ files'.release \in {files.release, job[p].release}
        /\ files'.release # files.release => files.release = None
    <3>1. job[p] \in Submission
      BY <1>7, ReleasedFiles DEF IInv
    <3>2. [work |-> job[p].work, released |-> TRUE] \in Delivery
      BY <3>1 DEF Submission, Delivery
    <3> QED
      BY <1>7, <3>2, ReleasedFiles DEF IInv
  <2>2. Sound(files') = Sound(files)
    BY <1>0, <2>1, SoundSame
  <2>3. reconciling' = reconciling /\ raced' = raced
    BY <1>7 DEF ApplyRelease, Forget, IInv, TypeOK
  <2>4. /\ RecordedWork' = files'.work /\ RecordedWork = files.work
        /\ RecordedRelease' = TRUE
    <3>1. RecordedWork' = files'.work /\ RecordedWork = files.work
      BY DEF RecordAsFiled
    <3>2. files'.delivery # None
      BY <2>1, ContentAssumption DEF ContentAssumption
    <3>3. files'.delivery.released
      BY <2>1
    <3> QED
      BY <3>1, <3>2, <3>3 DEF RecordedRelease
  <2>5. RecordedRelease' = (files'.release # None)
    BY DEF RecordAsFiled
  <2>6. CASE files'.release = files.release
    <3>1. RecordedRelease' = RecordedRelease
      BY <2>5, <2>6 DEF RecordAsFiled
    <3> QED
      BY <2>1, <2>2, <2>3, <2>4, <2>6, <3>1 DEF Seen!recordVars
  <2>7. CASE files'.release # files.release
    <3>1. files.release = None /\ files'.release = job[p].release
      BY <2>1, <2>7
    <3>2. files'.release \in Release
      BY <1>7, <2>7, <3>1, ReleasedFiles DEF IInv, Workspace
    <3>3. ReleaseFor[files'.release] = files.work /\ files.work # None
      BY <2>1, <2>7, <3>1 DEF RecordAsFiled
    <3>4. Seen!AddRelease
      BY <2>1, <2>2, <2>3, <2>4, <3>1, <3>2, <3>3 DEF Seen!AddRelease
    <3> QED
      BY <3>4 DEF Seen!RecordNext
  <2> QED
    BY <2>6, <2>7
<1>8. ASSUME NEW p \in Process, ApplyReconcile(p)
      PROVE  Seen!RecordNext
  <2>1. /\ files'.work = files.work /\ files'.delivery = files.delivery
        /\ files'.release = files.release
    BY <1>8, ReconciledFiles DEF IInv
  <2>2. p \in reconciling /\ reconciling' = reconciling \ {p}
    BY <1>8 DEF ApplyReconcile, Forget, IInv, TypeOK
  <2>3. Sound(files') => RecordedWork # None
    BY <2>1 DEF Sound, RecordAsFiled
  <2>4. Seen!Settle(p)
    BY <1>0, <2>1, <2>2, <2>3
       DEF Seen!Settle, Seen!record, RecordedWork, RecordedRelease
  <2> QED
    BY <2>4 DEF Seen!RecordNext
<1> QED
  BY <1>3, <1>4, <1>5, <1>6, <1>7, <1>8, <1>9, <1>10 DEF Next, ProcessNext

\* Whatever is submitted, edited, appended and reconciled at the same time: a
\* reader sees one approval recorded, one release added, and an approval whose
\* validity, for the evidence it cites, only reconciles change.
THEOREM RecordImplemented == Spec => RecordRefined
<1>1. Init => Seen!RecordInit
  <2> SUFFICES ASSUME Init
               PROVE  Seen!RecordInit
    OBVIOUS
  <2>1. Sound(files) = FALSE /\ RecordedWork = None /\ RecordedRelease = FALSE
    BY DEF Init, Sound, RecordedWork, RecordedRelease
  <2> QED
    BY <2>1 DEF Init, Seen!RecordInit
<1>2. ASSUME IInv, IInv', ~raced => RecordAsFiled,
             (~raced => RecordAsFiled)', [Next]_vars
      PROVE  [Seen!RecordNext]_(Seen!recordVars)
  <2>1. CASE raced'
    BY <2>1 DEF Seen!RecordNext, Seen!Spoil, IInv, TypeOK
  <2>2. CASE ~raced' /\ Next
    <3>1. ~raced
      BY <1>2, <2>2, StepGrows
    <3> QED
      BY <1>2, <2>2, <3>1, RecordStep
  <2>3. CASE UNCHANGED vars
    BY <2>3 DEF vars, Seen!recordVars, RecordedWork, RecordedRelease,
                Sound, Accepts, Supported
  <2> QED
    BY <1>2, <2>1, <2>2, <2>3
<1>3. IInv /\ IInv' /\ (~raced => RecordAsFiled)
        /\ (~raced => RecordAsFiled)' /\ [Next]_vars
          => [Seen!RecordNext]_(Seen!recordVars)
  BY <1>2
<1>4. IInv => (~raced => RecordAsFiled)
  BY AgreeingRecords
<1> QED
  BY <1>1, <1>3, <1>4, Invariance, PTL
     DEF Spec, RecordRefined, Seen!RecordSpec
=============================================================================

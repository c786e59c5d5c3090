----------------------- MODULE WorkspaceLifecycleProofs -----------------------
(***************************************************************************)
(* Proofs about WorkspaceLifecycle, for any number of processes, roles,    *)
(* times and states of the user's files: every property that is checked.   *)
(*                                                                         *)
(* PhaseInv says what each kind of batch may write and what is there while *)
(* one is written.  It carries the phases and the roles.  RegistryTruth    *)
(* needs more, since a registry is put together from files that may change *)
(* before it is written.  A batch that is not torn begins on the files it  *)
(* was made of: Fits relates a proposal to those (Source), from its        *)
(* reading to its lock, and ReconcileWrites carries this to its last file. *)
(***************************************************************************)
EXTENDS WorkspaceLifecycle, TLAPS

\* A registry always lists the profile, and the Plan as init proposed it.
RegistrySane(listing) == listing.plan = "proposed" /\ listing.profile \in Tree

\* The contract is of the state that the history ends in; only the first state is
\* "proposed".
RoleSane(role) ==
  /\ role.history # <<>> /\ role.history[Len(role.history)].to = role.contract
  /\ role.state = "proposed" => role.contract = "proposed"
  /\ role.contract = "proposed" =>
       Len(role.history) = 1 /\ role.history[1].from = "none"

RolesSane(roles) ==
  roles \in RolesFile =>
    \A r \in Role : roles.roles[r] # Absent => RoleSane(roles.roles[r])

\* What a proposal may write, by kind.
JobSane(j) ==
  /\ j.stage = "idle" <=> j.kind = "none"
  /\ j.kind = "none" => j = Idle
  /\ j.kind = "init" =>
       /\ j.targets = InitTargets /\ j.bound = InitTargets /\ j.before = Nothing
       /\ j.after.harness = "workspace" /\ j.after.profile \in Tree
       /\ j.after.plan = "proposed" /\ j.after.registry \in Listing
       /\ \A g \in Registered : j.after.registry[g] = j.after[g]
       /\ \A g \in Registered \ InitTargets : j.after[g] = Absent
  /\ j.kind = "reconcile" =>
       /\ {"report", "registry"} \subseteq j.targets /\ j.targets \subseteq j.bound
       /\ {"harness", "profile", "plan", "approval", "claims", "events", "work"}
            \intersect j.targets = {}
       /\ j.after.registry \in Listing /\ RegistrySane(j.after.registry)
       /\ \A g \in j.targets \ {"registry"} : j.after.registry[g] = j.after[g]
  /\ j.kind = "submit" => j.targets = {"events", "outputs", "work"}
  /\ j.kind = "retire" =>
       /\ j.stage = "bound" /\ j.targets = j.bound \union {"registry"}
       /\ j.bound \subseteq Registered /\ {"profile", "plan"} \subseteq j.bound
       /\ j.after = Nothing /\ j.before.plan = "proposed"
  /\ RolesSane(j.after.roles)

Sane ==
  /\ \A p \in Process : JobSane(job[p])
  /\ HasRegistry(files) => RegistrySane(files.registry)
  /\ RolesSane(files.roles)

WriterOK ==
  /\ writer = Nobody => todo = {}
  /\ writer # Nobody =>
       /\ job[writer].stage = "bound" /\ todo # {} /\ todo \subseteq job[writer].targets
       /\ job[writer].kind # "submit" => "registry" \in todo

\* Before init there is nothing for another command to work on.
Untouched ==
  files.harness = Absent =>
    /\ \A f \in Registered \union {"registry"} : files[f] = Absent
    /\ \A p \in Process : job[p].kind \in {"none", "init"}

InitWrites ==
  writer # Nobody /\ job[writer].kind = "init" =>
    /\ \A f \in todo \union (Registered \ InitTargets) : files[f] = Absent
    /\ \A f \in InitTargets \ todo : files[f] = job[writer].after[f]
    /\ \A p \in Process : job[p].kind \notin {"reconcile", "retire"}

\* No reconcile brings a registry back to a workspace that is complete without.
NoRevival ==
  (\E p \in Process : job[p].kind = "reconcile") /\ Complete(files) => HasRegistry(files)

RetireDeletes ==
  writer # Nobody /\ job[writer].kind = "retire" =>
    /\ files.plan \in {"proposed", Absent}
    /\ \A f \in job[writer].targets \ todo : files[f] = Absent

PhaseInv ==
  Sane /\ WriterOK /\ Untouched /\ InitWrites /\ NoRevival /\ RetireDeletes

\* The files that a proposal was made of, as far as it is bound to them.
Source(j) == IF j.stage = "read" THEN files ELSE j.before

\* A reconcile that is not torn is what would be built of its source, if it derives
\* roles; and in any case its registry is that of the source where it writes nothing.
Fits(j) ==
  j.kind = "reconcile" /\ ~ j.torn =>
    /\ HasRegistry(Source(j))
    /\ \A g \in Registered \ j.targets :
         j.after.registry[g] = Source(j).registry[g]
    /\ "roles" \in j.targets =>
         /\ j.bound = Field /\ j.now \in Time /\ Source(j).profile \in Tree
         /\ PlanApproved(Source(j))
         /\ j.targets = ReconcileTargets(Source(j))
         /\ j.after = [g \in Field |->
                        IF g \notin ReconcileTargets(Source(j)) THEN Absent
                        ELSE IF g = "registry" THEN Relisted(Source(j), j.now)
                        ELSE Wanted(Source(j), j.now)[g]]

\* What a reconcile has written is there, and the rest of what it is bound to is
\* as it was.
ReconcileWrites ==
  writer # Nobody /\ job[writer].kind = "reconcile" =>
    LET j == job[writer]
    IN /\ \A f \in j.targets \ todo : files[f] = j.after[f]
       /\ \A f \in j.bound \ (j.targets \ todo) : files[f] = j.before[f]

\* The inductive invariant.
IInv ==
  /\ TypeOK /\ PhaseInv /\ ReconcileWrites /\ RegistryTruth
  /\ \A p \in Process : Fits(job[p])

-----------------------------------------------------------------------------
(* Types                                                                   *)

\* What f may be, of the files as a whole.
LEMMA FieldOf ==
  ASSUME NEW c \in Contents, NEW d \in Contents, NEW f \in Field
  PROVE  [c EXCEPT ![f] = d[f]] \in Contents
<1>1. CASE f \in {"profile", "plan", "report", "roles"}
  BY <1>1 DEF Contents
<1>2. CASE f \in {"reconciliation", "outputs", "handoff", "harness"}
  BY <1>2 DEF Contents
<1>3. CASE f \in {"registry", "approval", "claims"}
  BY <1>3 DEF Contents
<1>4. CASE f \in {"events", "work"}
  BY <1>4 DEF Contents
<1> QED BY <1>1, <1>2, <1>3, <1>4 DEF Field, Registered, Derived, Governed

\* No file at all is a content of the workspace.
LEMMA NothingType == Nothing \in Contents
BY DEF Nothing, Contents, Field, Registered, Derived, Governed, Maybe

\* What a submission writes is contents.
LEMMA SubmittedType == SubmittedWork \in Contents
BY DEF SubmittedWork, SubmitTargets, Contents, Field, Registered, Derived, Governed,
       Maybe

\* A process that does nothing has a job.
LEMMA IdleType == Idle \in Job
BY NothingType DEF Idle, Job, Maybe

\* A part of the files.
LEMMA PartType ==
  ASSUME NEW c \in Contents, NEW S
  PROVE  [f \in Field |-> IF f \in S THEN c[f] ELSE Absent] \in Contents
BY DEF Contents, Field, Registered, Derived, Governed, Maybe

\* What a batch has fingerprinted is contents.
LEMMA BeforeType ==
  ASSUME files \in Contents, NEW kind, NEW bound
  PROVE  Before(kind, bound) \in Contents
<1> DEFINE S == IF kind = "init" THEN {} ELSE bound
<1>1. [f \in Field |-> IF f \in S THEN files[f] ELSE Absent] \in Contents
  BY PartType
<1>2. Before(kind, bound) = [f \in Field |-> IF f \in S THEN files[f] ELSE Absent]
  BY DEF Before
<1> QED BY <1>1, <1>2

\* A stabilised role is a role.
LEMMA StabilisedType ==
  ASSUME NEW old \in RoleRecord \union {Absent}, NEW now \in Time
  PROVE  Stabilised(old, now) \in RoleRecord
<1>1. Proposed(now) \in RoleRecord
  BY DEF Proposed, RoleRecord, RoleState, Transition
<1> QED BY <1>1 DEF Stabilised, Proposed, RoleRecord

\* The roles a reader finds are a roles file.
LEMMA OnFileType ==
  ASSUME NEW f
  PROVE  OnFile(f) \in RolesOnFile
BY DEF OnFile, RolesFile, RolesOnFile

\* What a reconcile derives of a complete workspace.
LEMMA WantedType ==
  ASSUME NEW f \in Contents, NEW now \in Time, f.profile \in Tree
  PROVE  Wanted(f, now) \in
           [report : Maybe(Time), roles : Maybe(RolesFile),
            reconciliation : Maybe(Reconciliation),
            outputs : Maybe({"empty", "submitted"}), handoff : Maybe(HandoffFile)]
<1>1. Desired(OnFile(f), f.claims, now) \in RolesOnFile
  BY OnFileType, StabilisedType DEF Desired, RolesOnFile
<1>2. Reconciled(OnFile(f), f.claims) \in Reconciliation
  BY DEF Reconciled, Reconciliation
<1>3. [at |-> now, events |-> f.events] \in HandoffFile
  BY DEF Contents, HandoffFile
<1> QED BY <1>1, <1>2, <1>3 DEF Wanted, RolesFile, Maybe

\* A registry made from present files is a listing.
LEMMA RelistedType ==
  ASSUME NEW f \in Contents, NEW now \in Time, f.profile \in Tree, HasRegistry(f)
  PROVE  Relisted(f, now) \in Listing
<1>1. f.registry \in Listing
  BY DEF HasRegistry
<1>2. /\ "profile" \notin ReconcileTargets(f) /\ "plan" \notin ReconcileTargets(f)
  BY DEF ReconcileTargets, Derivable, Derived, Governed
<1> QED BY <1>1, <1>2, WantedType
    DEF Relisted, Listing, Registered, Derived, Governed

\* A reconcile's batch.
Reconciling(f, now) ==
  [g \in Field |-> IF g \notin ReconcileTargets(f) THEN Absent
                   ELSE IF g = "registry" THEN Relisted(f, now)
                   ELSE Wanted(f, now)[g]]

\* What a reconcile would write is contents.
LEMMA ReconcilingType ==
  ASSUME NEW f \in Contents, NEW now \in Time, f.profile \in Tree, HasRegistry(f)
  PROVE  /\ Reconciling(f, now) \in Contents
         /\ ReconcileTargets(f) \subseteq Field
         /\ {"harness", "profile", "plan", "approval", "claims", "events", "work"}
              \intersect ReconcileTargets(f) = {}
         /\ {"report", "registry"} \subseteq ReconcileTargets(f)
<1>1. /\ ReconcileTargets(f) \subseteq Field
      /\ {"harness", "profile", "plan", "approval", "claims", "events", "work"}
           \intersect ReconcileTargets(f) = {}
      /\ {"report", "registry"} \subseteq ReconcileTargets(f)
  BY DEF ReconcileTargets, Derivable, Derived, Governed, Field, Registered
<1>2. Relisted(f, now) \in Listing
  BY RelistedType
<1> DEFINE R == Reconciling(f, now)
<1>3. /\ R.report \in Maybe(Time) /\ R.roles \in Maybe(RolesFile)
      /\ R.reconciliation \in Maybe(Reconciliation)
      /\ R.outputs \in Maybe({"empty", "submitted"}) /\ R.handoff \in Maybe(HandoffFile)
  BY WantedType DEF Reconciling, Field, Registered, Derived, Governed, Maybe
<1>4. R.registry \in Maybe(Listing)
  BY <1>2 DEF Reconciling, Field, Maybe
<1>5. /\ R.harness = Absent /\ R.profile = Absent /\ R.plan = Absent
      /\ R.approval = Absent /\ R.claims = Absent
      /\ R.events = Absent /\ R.work = Absent
  BY <1>1 DEF Reconciling, Field, Registered
<1>6. R = [profile |-> R.profile, plan |-> R.plan, report |-> R.report,
           roles |-> R.roles, reconciliation |-> R.reconciliation,
           outputs |-> R.outputs, handoff |-> R.handoff,
           events |-> R.events, work |-> R.work, harness |-> R.harness,
           registry |-> R.registry, approval |-> R.approval, claims |-> R.claims]
  BY DEF Reconciling, Field, Registered, Derived, Governed
<1> HIDE DEF R
<1>7. R \in Contents
  BY <1>3, <1>4, <1>5, <1>6 DEF Contents, Maybe
<1> QED BY <1>1, <1>7 DEF R

\* The jobs after some other process has written.
LEMMA TearType ==
  ASSUME job \in [Process -> Job]
  PROVE  /\ Tear \in [Process -> Job]
         /\ \A q \in Process :
              \/ job[q].stage = "read" /\ Tear[q] = [job[q] EXCEPT !.torn = TRUE]
              \/ job[q].stage # "read" /\ Tear[q] = job[q]
BY DEF Tear, Job

\* Every proposal is a job.
LEMMA ProposeType ==
  ASSUME TypeOK, NEW p \in Process, NEW kind \in {"init", "reconcile", "submit"},
         NEW now \in Maybe(Time), NEW targets \in SUBSET Field,
         NEW bound \in SUBSET Field, NEW after \in Contents,
         Propose(p, kind, now, targets, bound, after)
  PROVE  TypeOK'
<1>1. [Idle EXCEPT !.kind = kind, !.stage = "read", !.now = now,
                   !.targets = targets, !.bound = bound, !.after = after] \in Job
  BY IdleType DEF Job
<1> QED BY <1>1, LifecycleAssumption DEF Propose, TypeOK

\* An empty directory is well formed.
LEMMA InitType ==
  ASSUME TypeOK
  PROVE  /\ [[f \in Registered |-> Absent] EXCEPT
                 !.profile = tree, !.plan = "proposed"] \in Listing
         /\ [Nothing EXCEPT !.harness = "workspace", !.profile = tree,
                 !.plan = "proposed",
                 !.registry = [[f \in Registered |-> Absent] EXCEPT
                                 !.profile = tree, !.plan = "proposed"]] \in Contents
<1> DEFINE list == [[f \in Registered |-> Absent] EXCEPT
                      !.profile = tree, !.plan = "proposed"]
<1>1. list \in Listing
  BY DEF TypeOK, Listing, Registered, Derived, Governed, Maybe, Plan
<1> HIDE DEF list
<1>2. \A c \in Contents : [c EXCEPT !.harness = "workspace"] \in Contents
  BY DEF Contents, Maybe
<1>3. \A c \in Contents : [c EXCEPT !.profile = tree] \in Contents
  BY DEF Contents, Maybe, TypeOK
<1>4. \A c \in Contents : [c EXCEPT !.plan = "proposed"] \in Contents
  BY DEF Contents, Maybe, Plan
<1>5. \A c \in Contents : [c EXCEPT !.registry = list] \in Contents
  BY <1>1 DEF Contents, Maybe
<1>6. [Nothing EXCEPT !.harness = "workspace", !.profile = tree,
                      !.plan = "proposed", !.registry = list] \in Contents
  BY <1>2, <1>3, <1>4, <1>5, NothingType, Zenon
<1> QED BY <1>1, <1>6 DEF list

\* Edits of the user keep files well formed.
LEMMA EditType ==
  ASSUME TypeOK, NEW f \in Field, NEW v, [files EXCEPT ![f] = v] \in Contents,
         Edit(f, v)
  PROVE  TypeOK'
BY TearType, LifecycleAssumption DEF Edit, TypeOK

\* A role of the registry on file is replaced.
LEMMA ChangeRoleType ==
  ASSUME TypeOK, files.roles \in RolesFile, NEW r \in Role,
         NEW new \in RoleRecord, ChangeRole(r, new)
  PROVE  TypeOK'
<1> DEFINE v == [files.roles EXCEPT !.roles = [files.roles.roles EXCEPT ![r] = new]]
<1>1. v \in RolesFile
  BY DEF RolesFile, RolesOnFile
<1> HIDE DEF v
<1>2. [files EXCEPT !["roles"] = v] \in Contents
  BY <1>1 DEF TypeOK, Contents, Maybe
<1>3. Edit("roles", v)
  BY DEF ChangeRole, v
<1> QED BY <1>2, <1>3, EditType DEF Field, Registered, Derived

\* A role after a transition is a role.
LEMMA TransitionedType ==
  ASSUME NEW role \in RoleRecord, NEW to \in RoleState, NEW now \in Time
  PROVE  /\ Transitioned(role, to, now) \in RoleRecord
         /\ Relabelled(role, to) \in RoleRecord
<1>1. [from |-> role.state, to |-> to, at |-> now] \in Transition
  BY DEF RoleRecord, Transition
<1>2. Append(role.history, [from |-> role.state, to |-> to, at |-> now])
        \in Seq(Transition)
  BY <1>1 DEF RoleRecord
<1> QED BY <1>2 DEF Transitioned, Relabelled, RoleRecord

\* No transition leads back to the state proposed.
LEMMA TablesType ==
  ASSUME NEW s \in RoleState
  PROVE  /\ ROLE_TRANSITIONS[s] \subseteq RoleState \ {"proposed"}
         /\ RELABELLINGS[s] \subseteq RoleState \ {"proposed"}
BY DEF ROLE_TRANSITIONS, RELABELLINGS, RoleState

\* Every state the workspace can be in is well typed.
THEOREM TypeCorrect == Spec => []TypeOK
<1>1. Init => TypeOK
  <2> SUFFICES ASSUME Init PROVE TypeOK
    OBVIOUS
  <2>1. [r \in Role |-> "none"] \in [Role -> Claim]
    BY DEF Claim
  <2>2. files \in Contents
    BY <2>1, NothingType DEF Init, Contents, Maybe
  <2> QED BY <2>2, IdleType, LifecycleAssumption DEF Init, TypeOK
<1>2. TypeOK /\ [Next]_vars => TypeOK'
  <2> SUFFICES ASSUME TypeOK, [Next]_vars PROVE TypeOK'
    OBVIOUS
  <2>1. ASSUME NEW p \in Process, BuildInit(p) PROVE TypeOK'
    BY <2>1, InitType, ProposeType
    DEF BuildInit, InitTargets, Maybe, Field, Registered
  <2>2. ASSUME NEW p \in Process, NEW now \in Time, BuildReconcile(p, now)
        PROVE  TypeOK'
    <3>1. files.profile \in Tree /\ HasRegistry(files) /\ files \in Contents
      BY <2>2 DEF BuildReconcile, Complete, TypeOK
    <3>2. Propose(p, "reconcile", now, ReconcileTargets(files), Snapshot(files),
                  Reconciling(files, now))
      BY <2>2 DEF BuildReconcile, Reconciling
    <3>3. Snapshot(files) \subseteq Field
      BY <3>1, ReconcilingType DEF Snapshot
    <3> QED BY <3>1, <3>2, <3>3, ReconcilingType, ProposeType DEF Maybe
  <2>3. ASSUME NEW p \in Process, BuildSubmit(p) PROVE TypeOK'
    <3>1. SubmitTargets \subseteq Field
      BY DEF SubmitTargets, Field, Registered, Governed
    <3> QED BY <2>3, <3>1, SubmittedType, ProposeType DEF BuildSubmit, Maybe
  <2>4. ASSUME NEW p \in Process, BuildRetire(p) PROVE TypeOK'
    <3>1. Listed(files) \subseteq Registered
      BY DEF Listed
    <3>2. [Idle EXCEPT !.kind = "retire", !.stage = "bound", !.tree = tree,
             !.targets = Listed(files) \union {"registry"},
             !.bound = Listed(files),
             !.before = Before("retire", Listed(files))] \in Job
      BY <3>1, IdleType, BeforeType DEF TypeOK, Job, Field, Maybe
    <3> QED BY <2>4, <3>2, LifecycleAssumption DEF BuildRetire, TypeOK
  <2>5. ASSUME NEW p \in Process, Bind(p) PROVE TypeOK'
    <3>1. [job[p] EXCEPT !.stage = "bound", !.tree = tree,
             !.before = Before(job[p].kind, job[p].bound)] \in Job
      BY BeforeType DEF TypeOK, Job, Maybe
    <3> QED BY <2>5, <3>1 DEF Bind, TypeOK
  <2>6. ASSUME NEW p \in Process, Enter(p) PROVE TypeOK'
    BY <2>6 DEF Enter, TypeOK, Job
  <2>7. ASSUME NEW p \in Process, NEW f \in Field, Write(p, f) PROVE TypeOK'
    <3>1. files' \in Contents
      BY <2>7, FieldOf DEF Write, TypeOK, Job
    <3>2. job' \in [Process -> Job] /\ writer' \in Process \union {Nobody}
      BY <2>7, TearType, IdleType DEF Write, TypeOK
    <3>3. astray' \subseteq Registered
      BY <2>7 DEF Write, StillAstray, TypeOK
    <3> QED BY <2>7, <3>1, <3>2, <3>3 DEF Write, TypeOK
  <2>8. ASSUME NEW p \in Process, Stop(p) PROVE TypeOK'
    BY <2>8, IdleType DEF Stop, TypeOK
  <2>9. CASE ChangeSources
    BY <2>9, TearType, LifecycleAssumption DEF ChangeSources, TypeOK
  <2>10. CASE EditPlan
    <3>1. ASSUME NEW v \in Plan PROVE [files EXCEPT !["plan"] = v] \in Contents
      BY DEF TypeOK, Contents, Maybe
    <3> QED BY <2>10, <3>1, EditType DEF EditPlan, Field, Registered
  <2>11. CASE SignPlan
    <3>1. files' \in Contents
      BY <2>11 DEF SignPlan, TypeOK, Contents, Maybe, Plan
    <3> QED BY <2>11, <3>1, TearType DEF SignPlan, TypeOK
  <2>12. CASE Overlay
    <3>1. PICK c \in [Role -> Claim] : Edit("claims", c)
      BY <2>12 DEF Overlay
    <3>2. [files EXCEPT !["claims"] = c] \in Contents
      BY DEF TypeOK, Contents, Maybe
    <3> QED BY <3>1, <3>2, EditType DEF Field
  <2>13. CASE TransitionRole
    <3>1. PICK r \in Role, now \in Time :
            /\ files.roles.roles[r] # Absent
            /\ \E to \in ROLE_TRANSITIONS[files.roles.roles[r].state] :
                 ChangeRole(r, Transitioned(files.roles.roles[r], to, now))
      BY <2>13 DEF TransitionRole
    <3>2. files.roles \in RolesFile /\ files.roles.roles[r] \in RoleRecord
      BY <2>13, <3>1 DEF TransitionRole, RolesFile, RolesOnFile
    <3>3. files.roles.roles[r].state \in RoleState
      BY <3>2 DEF RoleRecord
    <3> QED BY <3>1, <3>2, <3>3, TablesType, TransitionedType, ChangeRoleType
  <2>14. CASE RelabelRole
    <3>1. PICK r \in Role :
            /\ files.roles.roles[r] # Absent
            /\ \E to \in RELABELLINGS[files.roles.roles[r].state] :
                 ChangeRole(r, Relabelled(files.roles.roles[r], to))
      BY <2>14 DEF RelabelRole
    <3>2. files.roles \in RolesFile /\ files.roles.roles[r] \in RoleRecord
      BY <2>14, <3>1 DEF RelabelRole, RolesFile, RolesOnFile
    <3>3. files.roles.roles[r].state \in RoleState
      BY <3>2 DEF RoleRecord
    <3>4. PICK to \in RoleState : ChangeRole(r, Relabelled(files.roles.roles[r], to))
      BY <3>1, <3>3, TablesType
    <3>5. Relabelled(files.roles.roles[r], to) \in RoleRecord
      BY <3>2, <3>4 DEF Relabelled, RoleRecord
    <3> QED BY <3>2, <3>4, <3>5, ChangeRoleType
  <2>15. CASE UNCHANGED vars
    BY <2>15 DEF vars, TypeOK
  <2> QED
    BY <2>1, <2>2, <2>3, <2>4, <2>5, <2>6, <2>7, <2>8, <2>9, <2>10, <2>11, <2>12,
       <2>13, <2>14, <2>15 DEF Next, BuildUpgrade
<1> QED BY <1>1, <1>2, PTL DEF Spec

-----------------------------------------------------------------------------
(* What proposals may write.                                               *)

\* A torn job differs in nothing but that.
LEMMA TearFields ==
  ASSUME job \in [Process -> Job], NEW q \in Process
  PROVE  /\ Tear[q].kind = job[q].kind /\ Tear[q].stage = job[q].stage
         /\ Tear[q].now = job[q].now /\ Tear[q].targets = job[q].targets
         /\ Tear[q].bound = job[q].bound /\ Tear[q].after = job[q].after
         /\ Tear[q].before = job[q].before /\ Tear[q].tree = job[q].tree
         /\ job[q].stage = "read" => Tear[q].torn
         /\ job[q].stage # "read" => Tear[q] = job[q]
<1>1. CASE job[q].stage = "read"
  <2>1. Tear[q] = [job[q] EXCEPT !.torn = TRUE] /\ job[q] \in Job
    BY <1>1 DEF Tear
  <2> QED BY <1>1, <2>1 DEF Job
<1>2. CASE job[q].stage # "read"
  BY <1>2 DEF Tear
<1> QED BY <1>1, <1>2

\* Marking a job torn changes nothing else about it.
LEMMA TearSane ==
  ASSUME job \in [Process -> Job], NEW q \in Process, JobSane(job[q])
  PROVE  JobSane(Tear[q])
<1>1. CASE job[q].stage = "read"
  BY <1>1, TearFields DEF JobSane
<1>2. CASE job[q].stage # "read"
  BY <1>2, TearFields
<1> QED BY <1>1, <1>2

\* Doing nothing breaks no rule about proposals.
LEMMA IdleSane == JobSane(Idle)
<1>1. Nothing.roles \notin RolesFile
  BY LifecycleAssumption DEF Nothing, Field, Registered, Derived
<1> QED BY <1>1 DEF JobSane, Idle, RolesSane

\* Stabilising a role keeps contract and history in step.
LEMMA StabilisedSane ==
  ASSUME NEW old \in RoleRecord \union {Absent}, NEW now \in Time,
         old # Absent => RoleSane(old)
  PROVE  RoleSane(Stabilised(old, now))
<1>1. RoleSane(Proposed(now))
  BY DEF RoleSane, Proposed
<1>2. CASE old # Absent /\ old.contract = "proposed"
  <2>1. old.history \in Seq(Transition)
    BY <1>2 DEF RoleRecord
  <2> QED BY <1>2, <2>1 DEF RoleSane, Stabilised
<1> QED BY <1>1, <1>2 DEF Stabilised

\* What a reconcile derives of sane roles is sane.
LEMMA WantedSane ==
  ASSUME NEW f \in Contents, NEW now \in Time, RolesSane(f.roles)
  PROVE  RolesSane(Wanted(f, now).roles)
<1>1. OnFile(f) \in RolesOnFile
  BY OnFileType
<1>2. \A r \in Role : OnFile(f)[r] # Absent => RoleSane(OnFile(f)[r])
  BY DEF OnFile, RolesSane
<1>3. \A r \in Role :
        RoleSane(Stabilised(OnFile(f)[r], now))
  BY <1>1, <1>2, StabilisedSane DEF RolesOnFile
<1> QED BY <1>3 DEF Wanted, RolesSane, Desired

\* A reconcile lists what it writes, and keeps roles in step.
LEMMA ReconcilingSane ==
  ASSUME NEW f \in Contents, NEW now \in Time, f.profile \in Tree,
         HasRegistry(f), RegistrySane(f.registry), RolesSane(f.roles)
  PROVE  LET R == Reconciling(f, now)
         IN /\ R.registry \in Listing /\ RegistrySane(R.registry)
            /\ \A g \in ReconcileTargets(f) \ {"registry"} : R.registry[g] = R[g]
            /\ RolesSane(R.roles)
<1> DEFINE R == Reconciling(f, now)
<1>1. /\ ReconcileTargets(f) \subseteq Registered \union {"registry"}
      /\ "registry" \in ReconcileTargets(f)
      /\ "profile" \notin ReconcileTargets(f) /\ "plan" \notin ReconcileTargets(f)
  BY DEF ReconcileTargets, Derivable, Derived, Governed, Registered
<1>2. R.registry = Relisted(f, now)
  BY <1>1 DEF Reconciling, Field
<1>3. RegistrySane(Relisted(f, now))
  BY <1>1 DEF RegistrySane, Relisted, Registered
<1>4. \A g \in ReconcileTargets(f) \ {"registry"} :
        R[g] = Wanted(f, now)[g] /\ Relisted(f, now)[g] = Wanted(f, now)[g]
  BY <1>1 DEF Reconciling, Relisted, Field
<1>5. RolesSane(R.roles)
  <2>1. CASE "roles" \in ReconcileTargets(f)
    BY <1>4, <2>1, WantedSane
  <2>2. CASE "roles" \notin ReconcileTargets(f)
    BY <2>2, LifecycleAssumption DEF Reconciling, Field, Registered, Derived, RolesSane
  <2> QED BY <2>1, <2>2
<1> QED BY <1>2, <1>3, <1>4, <1>5, RelistedType

\* A role that is changed is sane if the new record is.
LEMMA ChangeRoleSane ==
  ASSUME TypeOK, Sane, files.roles \in RolesFile, NEW r \in Role,
         NEW new \in RoleRecord, RoleSane(new), ChangeRole(r, new)
  PROVE  RolesSane(files'.roles)
<1>1. files'.roles = [files.roles EXCEPT !.roles = [files.roles.roles EXCEPT ![r] = new]]
  BY DEF ChangeRole, Edit, TypeOK, Contents
<1>2. \A q \in Role : files'.roles.roles[q] = IF q = r THEN new ELSE files.roles.roles[q]
  BY <1>1 DEF RolesFile, RolesOnFile
<1> QED BY <1>2 DEF RolesSane, Sane

\* Either kind of transition keeps contract and history in step.
LEMMA TransitionedSane ==
  ASSUME NEW role \in RoleRecord, RoleSane(role), NEW now \in Time
  PROVE  /\ \A to \in ROLE_TRANSITIONS[role.state] :
              RoleSane(Transitioned(role, to, now))
         /\ \A to \in RELABELLINGS[role.state] : RoleSane(Relabelled(role, to))
<1>1. role.state \in RoleState
  BY DEF RoleRecord
<1>2. ASSUME NEW to \in RoleState \ {"proposed"}
      PROVE  RoleSane(Transitioned(role, to, now)) /\ RoleSane(Relabelled(role, to))
  <2>1. role.history \in Seq(Transition)
    BY DEF RoleRecord
  <2> DEFINE e == [from |-> role.state, to |-> to, at |-> now]
             h == Append(role.history, e)
  <2>2. e \in Transition
    BY <1>1 DEF Transition
  <2> HIDE DEF e
  <2>3. Len(h) = Len(role.history) + 1 /\ h[Len(h)] = e /\ h # <<>>
    BY <2>1, <2>2
  <2>4. RoleSane(Transitioned(role, to, now))
    BY <2>3 DEF RoleSane, Transitioned, e
  <2>5. RoleSane(Relabelled(role, to))
    BY DEF RoleSane, Relabelled, RoleRecord
  <2> QED BY <2>4, <2>5
<1> QED BY <1>1, <1>2, TablesType

\* The invariant holds of an empty directory.
LEMMA InitSane == Init => TypeOK /\ IInv
<1> SUFFICES ASSUME Init PROVE TypeOK /\ IInv
  OBVIOUS
<1>1. TypeOK
  <2>1. [r \in Role |-> "none"] \in [Role -> Claim]
    BY DEF Claim
  <2>2. files \in Contents
    BY <2>1, NothingType DEF Init, Contents, Maybe
  <2> QED BY <2>2, IdleType, LifecycleAssumption DEF Init, TypeOK
<1>2. \A f \in Field \ {"claims"} : files[f] = Absent
  BY DEF Init, Nothing
<1>3. ~ HasRegistry(files) /\ ~ Complete(files) /\ files.roles \notin RolesFile
  BY <1>2, LifecycleAssumption
  DEF HasRegistry, Complete, Field, Registered, Derived
<1>4. Sane
  BY <1>3, IdleSane DEF Sane, Init, RolesSane
<1>5. PhaseInv
  BY <1>2, <1>3, <1>4 DEF Init, PhaseInv, WriterOK, Untouched, InitWrites, NoRevival,
     RetireDeletes, Idle, Field, Registered, Derived, Governed
<1> QED BY <1>1, <1>3, <1>5 DEF Init, IInv, ReconcileWrites, RegistryTruth, Fits, Idle

\* A proposal names the targets of its kind.
LEMMA ProposeSane ==
  ASSUME TypeOK, Sane, NEW p \in Process, NEW kind \in {"init", "reconcile", "submit"},
         NEW now, NEW targets, NEW bound, NEW after,
         Propose(p, kind, now, targets, bound, after),
         JobSane([Idle EXCEPT !.kind = kind, !.stage = "read", !.now = now,
                    !.targets = targets, !.bound = bound, !.after = after])
  PROVE  Sane'
BY DEF Propose, Sane, TypeOK, JobSane, HasRegistry

\* Every step keeps files and jobs sane.
LEMMA SaneStep == TypeOK /\ Sane /\ WriterOK /\ [Next]_vars => Sane'
<1> SUFFICES ASSUME TypeOK, Sane, WriterOK, [Next]_vars PROVE Sane'
  OBVIOUS
<1>1. ASSUME NEW p \in Process, BuildInit(p) PROVE Sane'
  <2> DEFINE list == [[f \in Registered |-> Absent] EXCEPT
                        !.profile = tree, !.plan = "proposed"]
             after == [Nothing EXCEPT !.harness = "workspace", !.profile = tree,
                         !.plan = "proposed", !.registry = list]
  <2>1. list \in Listing /\ after \in Contents
    BY InitType
  <2>2. /\ after.harness = "workspace" /\ after.profile = tree
        /\ after.plan = "proposed" /\ after.registry = list
        /\ \A g \in Registered \ {"profile", "plan"} : after[g] = Absent
    <3> HIDE DEF list
    <3> QED BY DEF Nothing, Field, Registered, Derived, Governed
  <2>3. \A g \in Registered : list[g] = after[g]
    BY <2>2 DEF Registered
  <2>4. ~ after.roles \in RolesFile
    BY <2>2, LifecycleAssumption DEF Registered, Derived
  <2>5. Propose(p, "init", Absent, InitTargets, InitTargets, after)
    BY <1>1 DEF BuildInit
  <2> HIDE DEF list, after
  <2>6. JobSane([Idle EXCEPT !.kind = "init", !.stage = "read", !.now = Absent,
                   !.targets = InitTargets, !.bound = InitTargets, !.after = after])
    BY <2>1, <2>2, <2>3, <2>4 DEF JobSane, Idle, TypeOK, InitTargets, RolesSane
  <2> QED BY <2>5, <2>6, ProposeSane
<1>2. ASSUME NEW p \in Process, NEW now \in Time, BuildReconcile(p, now) PROVE Sane'
  <2>1. files.profile \in Tree /\ HasRegistry(files) /\ files \in Contents
    BY <1>2 DEF BuildReconcile, Complete, TypeOK
  <2> DEFINE R == Reconciling(files, now)
  <2>2. Propose(p, "reconcile", now, ReconcileTargets(files), Snapshot(files), R)
    BY <1>2 DEF BuildReconcile, Reconciling
  <2>3. /\ R.registry \in Listing /\ RegistrySane(R.registry)
        /\ \A g \in ReconcileTargets(files) \ {"registry"} : R.registry[g] = R[g]
        /\ RolesSane(R.roles)
    BY <2>1, ReconcilingSane DEF Sane
  <2>4. /\ ReconcileTargets(files) \subseteq Snapshot(files)
        /\ {"harness", "profile", "plan", "approval", "claims", "events", "work"}
             \intersect ReconcileTargets(files) = {}
        /\ {"report", "registry"} \subseteq ReconcileTargets(files)
    BY <2>1, ReconcilingType DEF Snapshot
  <2> HIDE DEF R
  <2>5. JobSane([Idle EXCEPT !.kind = "reconcile", !.stage = "read", !.now = now,
                   !.targets = ReconcileTargets(files), !.bound = Snapshot(files),
                   !.after = R])
    BY <2>3, <2>4 DEF JobSane, Idle
  <2> QED BY <2>2, <2>5, ProposeSane
<1>3. ASSUME NEW p \in Process, BuildSubmit(p) PROVE Sane'
  <2>1. SubmittedWork.roles \notin RolesFile
    BY LifecycleAssumption
    DEF SubmittedWork, SubmitTargets, Field, Registered, Derived
  <2>2. Propose(p, "submit", Absent, SubmitTargets, SubmitTargets, SubmittedWork)
    BY <1>3 DEF BuildSubmit
  <2>3. JobSane([Idle EXCEPT !.kind = "submit", !.stage = "read", !.now = Absent,
                   !.targets = SubmitTargets, !.bound = SubmitTargets,
                   !.after = SubmittedWork])
    BY <2>1 DEF JobSane, SubmitTargets, Idle, RolesSane
  <2> QED BY <2>2, <2>3, ProposeSane
<1>4. ASSUME NEW p \in Process, BuildRetire(p) PROVE Sane'
  <2>1. Listed(files) \subseteq Registered
    BY DEF Listed
  <2>2. RegistrySane(files.registry)
    BY <1>4 DEF BuildRetire, Sane
  <2>3. {"profile", "plan"} \subseteq Listed(files)
    BY <2>2, LifecycleAssumption DEF RegistrySane, Listed, Registered, Plan
  <2>4. files.plan = "proposed"
    BY <1>4, <2>2, <2>3 DEF BuildRetire, RegistrySane
  <2>5. Before("retire", Listed(files)).plan = "proposed"
    BY <2>3, <2>4 DEF Before, Field, Registered
  <2> DEFINE j == [Idle EXCEPT !.kind = "retire", !.stage = "bound", !.tree = tree,
                     !.targets = Listed(files) \union {"registry"},
                     !.bound = Listed(files),
                     !.before = Before("retire", Listed(files))]
  <2>6. j.after = Nothing /\ Nothing.roles \notin RolesFile
    BY LifecycleAssumption DEF Idle, Nothing, Field, Registered, Derived
  <2>7. JobSane(j)
    BY <2>1, <2>3, <2>5, <2>6 DEF JobSane, Idle, RolesSane
  <2> HIDE DEF j
  <2>8. job' = [job EXCEPT ![p] = j] /\ UNCHANGED files
    BY <1>4 DEF BuildRetire, j
  <2> QED BY <2>7, <2>8 DEF Sane, TypeOK, HasRegistry
<1>5. ASSUME NEW p \in Process, Bind(p) PROVE Sane'
  <2> DEFINE j == [job[p] EXCEPT !.stage = "bound", !.tree = tree,
                     !.before = Before(job[p].kind, job[p].bound)]
  <2>1. job[p] \in Job /\ job[p].stage = "read" /\ JobSane(job[p])
    BY <1>5 DEF Bind, TypeOK, Sane
  <2>2. /\ j.kind = job[p].kind /\ j.targets = job[p].targets
        /\ j.bound = job[p].bound /\ j.after = job[p].after /\ j.stage = "bound"
        /\ j.before = Before(job[p].kind, job[p].bound)
    BY <2>1 DEF Job
  <2>3. job[p].kind = "init" => Before(job[p].kind, job[p].bound) = Nothing
    BY DEF Before, Nothing
  <2>4. job' = [job EXCEPT ![p] = j] /\ UNCHANGED files
    BY <1>5 DEF Bind
  <2> HIDE DEF j
  <2>5. JobSane(j)
    BY <2>1, <2>2, <2>3 DEF JobSane
  <2> QED BY <2>4, <2>5 DEF Sane, TypeOK, HasRegistry
<1>6. ASSUME NEW p \in Process, Enter(p) PROVE Sane'
  BY <1>6 DEF Enter, Sane, HasRegistry
<1>7. ASSUME NEW p \in Process, NEW f \in Field, Write(p, f) PROVE Sane'
  <2>1. \A q \in Process : JobSane(job'[q])
    BY <1>7, TearSane, IdleSane, TearType DEF Write, TypeOK, Sane
  <2>2. \A g \in Field :
          files'[g] = IF g = f THEN job[p].after[f] ELSE files[g]
    BY <1>7 DEF Write, TypeOK, Contents, Field, Registered, Derived, Governed
  <2>3. JobSane(job[p]) /\ f \in job[p].targets
    BY <1>7, LifecycleAssumption DEF Write, Sane, WriterOK
  <2>4. RolesSane(files'.roles)
    BY <2>2, <2>3 DEF JobSane, Sane, RolesSane, Field, Registered, Derived
  <2>5. HasRegistry(files)' => RegistrySane(files.registry)'
    <3>1. CASE f # "registry"
      BY <2>2, <3>1 DEF Sane, HasRegistry, Field, RegistrySane
    <3>2. CASE f = "registry"
      <4>1. files'.registry = job[p].after.registry
        BY <2>2, <3>2
      <4>2. CASE job[p].kind = "init"
        BY <2>3, <4>1, <4>2
        DEF JobSane, RegistrySane, Registered
      <4>3. CASE job[p].kind = "retire"
        BY <2>3, <4>1, <4>3, LifecycleAssumption
        DEF JobSane, Nothing, Field, HasRegistry
      <4>4. CASE job[p].kind = "submit" \/ job[p].kind = "none"
        BY <2>3, <3>2, <4>4 DEF JobSane, Idle
      <4>5. CASE job[p].kind = "reconcile"
        BY <2>3, <4>1, <4>5 DEF JobSane, RegistrySane
      <4> QED BY <4>2, <4>3, <4>4, <4>5 DEF TypeOK, Job
    <3> QED BY <3>1, <3>2
  <2> QED BY <2>1, <2>4, <2>5 DEF Sane
<1>8. ASSUME NEW p \in Process, Stop(p) PROVE Sane'
  BY <1>8, IdleSane DEF Stop, Sane, TypeOK, HasRegistry
<1>9. CASE ChangeSources
  BY <1>9, TearSane DEF ChangeSources, Sane, TypeOK, HasRegistry
<1>10. ASSUME NEW f \in Field \ {"registry", "roles"}, NEW v, Edit(f, v) PROVE Sane'
  <2>1. files'.registry = files.registry /\ files'.roles = files.roles
    BY <1>10 DEF Edit, TypeOK, Contents
  <2> QED BY <1>10, <2>1, TearSane DEF Edit, Sane, TypeOK, HasRegistry
<1>11. CASE EditPlan
  BY <1>10, <1>11 DEF EditPlan, Field, Registered
<1>12. CASE SignPlan
  <2>1. files'.registry = files.registry /\ files'.roles = files.roles
    BY <1>12 DEF SignPlan, TypeOK, Contents
  <2> QED BY <1>12, <2>1, TearSane DEF SignPlan, Sane, TypeOK, HasRegistry
<1>13. CASE Overlay
  BY <1>10, <1>13 DEF Overlay, Field
<1>14. ASSUME files.roles \in RolesFile, NEW r \in Role, NEW new \in RoleRecord,
              RoleSane(new), ChangeRole(r, new)
       PROVE  Sane'
  <2>1. RolesSane(files'.roles)
    BY <1>14, ChangeRoleSane
  <2>2. files'.registry = files.registry /\ job' = Tear
    BY <1>14 DEF ChangeRole, Edit, TypeOK, Contents
  <2> QED BY <2>1, <2>2, TearSane DEF Sane, TypeOK, HasRegistry
<1>15. CASE TransitionRole
  <2>1. PICK r \in Role, now \in Time :
          /\ files.roles.roles[r] # Absent
          /\ \E to \in ROLE_TRANSITIONS[files.roles.roles[r].state] :
               ChangeRole(r, Transitioned(files.roles.roles[r], to, now))
    BY <1>15 DEF TransitionRole
  <2>2. files.roles \in RolesFile /\ files.roles.roles[r] \in RoleRecord
    BY <1>15, <2>1 DEF TransitionRole, RolesFile, RolesOnFile
  <2>3. RoleSane(files.roles.roles[r]) /\ files.roles.roles[r].state \in RoleState
    BY <2>1, <2>2 DEF Sane, RolesSane, RoleRecord
  <2> QED BY <1>14, <2>1, <2>2, <2>3, TablesType, TransitionedType, TransitionedSane
<1>16. CASE RelabelRole
  <2>1. PICK r \in Role :
          /\ files.roles.roles[r] # Absent
          /\ \E to \in RELABELLINGS[files.roles.roles[r].state] :
               ChangeRole(r, Relabelled(files.roles.roles[r], to))
    BY <1>16 DEF RelabelRole
  <2>2. files.roles \in RolesFile /\ files.roles.roles[r] \in RoleRecord
    BY <1>16, <2>1 DEF RelabelRole, RolesFile, RolesOnFile
  <2>3. RoleSane(files.roles.roles[r]) /\ files.roles.roles[r].state \in RoleState
    BY <2>1, <2>2 DEF Sane, RolesSane, RoleRecord
  <2>4. files.roles.at \in Time
    BY <2>2 DEF RolesFile
  <2>5. PICK to \in RELABELLINGS[files.roles.roles[r].state] :
          ChangeRole(r, Relabelled(files.roles.roles[r], to))
    BY <2>1
  <2>6. /\ Relabelled(files.roles.roles[r], to) \in RoleRecord
        /\ RoleSane(Relabelled(files.roles.roles[r], to))
    BY <2>2, <2>3, <2>4, <2>5, TablesType, TransitionedType, TransitionedSane
  <2> QED BY <1>14, <2>2, <2>5, <2>6
<1>17. CASE UNCHANGED vars
  BY <1>17 DEF vars, Sane, HasRegistry
<1> QED
  BY <1>1, <1>2, <1>3, <1>4, <1>5, <1>6, <1>7, <1>8, <1>9, <1>11, <1>12, <1>13,
     <1>15, <1>16, <1>17 DEF Next, BuildUpgrade

-----------------------------------------------------------------------------
(* The phases of a workspace.                                              *)

\* A command is given, or goes on, while nothing is written.
LEMMA PhaseOfJob ==
  ASSUME TypeOK, PhaseInv, NEW p \in Process, NEW j, job[p].stage # "bound",
         job' = [job EXCEPT ![p] = j], UNCHANGED <<files, writer, todo>>, Sane',
         \/ j.kind = job[p].kind
         \/ j.kind = "init"
         \/ j.kind = "submit" /\ files.harness # Absent
         \/ j.kind \in {"reconcile", "retire"} /\ HasRegistry(files)
  PROVE  PhaseInv'
<1>1. writer # p
  BY LifecycleAssumption DEF PhaseInv, WriterOK
<1>2. HasRegistry(files) =>
        files.harness # Absent /\ ~ (writer # Nobody /\ job[writer].kind = "init")
  BY LifecycleAssumption DEF HasRegistry, PhaseInv, Untouched, InitWrites, WriterOK
<1>3. \A q \in Process : job'[q] = IF q = p THEN j ELSE job[q]
  BY DEF TypeOK
<1>4. writer # Nobody => job'[writer] = job[writer]
  BY <1>1, <1>3 DEF TypeOK
<1>5. WriterOK'
  BY <1>4 DEF PhaseInv, WriterOK
<1>6. Untouched'
  BY <1>2, <1>3 DEF PhaseInv, Untouched
<1>7. InitWrites'
  BY <1>2, <1>3, <1>4 DEF PhaseInv, InitWrites
<1>8. NoRevival'
  BY <1>3 DEF PhaseInv, NoRevival, HasRegistry, Complete
<1>9. RetireDeletes'
  BY <1>4 DEF PhaseInv, RetireDeletes
<1> QED BY <1>5, <1>6, <1>7, <1>8, <1>9 DEF PhaseInv

\* The user does something: of the files, if any, one that tells no phase.
LEMMA PhaseOfEdit ==
  ASSUME TypeOK, PhaseInv, job' = Tear, UNCHANGED <<writer, todo>>, Sane',
         \/ UNCHANGED files
         \/ /\ writer = Nobody
            /\ UNCHANGED <<files.harness, files.registry, files.profile>>
            /\ files'.plan = files.plan \/ files.plan \in Plan
            /\ files.harness = Absent =>
                 \A f \in Registered : files'[f] = files[f]
  PROVE  PhaseInv'
<1>1. \A q \in Process : /\ job'[q].kind = job[q].kind
                         /\ job[q].stage # "read" => job'[q] = job[q]
  BY TearFields DEF TypeOK
<1>2. writer # Nobody => job'[writer] = job[writer]
  BY <1>1 DEF TypeOK, PhaseInv, WriterOK
<1>3. WriterOK'
  BY <1>2 DEF PhaseInv, WriterOK
<1>4. Untouched'
  BY <1>1 DEF PhaseInv, Untouched
<1>5. InitWrites' /\ RetireDeletes'
  BY <1>1, <1>2 DEF PhaseInv, InitWrites, RetireDeletes
<1>6. NoRevival'
  BY <1>1 DEF PhaseInv, NoRevival, HasRegistry, Complete
<1> QED BY <1>3, <1>4, <1>5, <1>6 DEF PhaseInv

\* PhaseInv survives the start of a batch.
LEMMA PhaseOfEnter ==
  ASSUME TypeOK, PhaseInv, NEW p \in Process, Enter(p), Sane'
  PROVE  PhaseInv'
<1>1. JobSane(job[p]) /\ job[p].stage = "bound" /\ p # Nobody
  BY LifecycleAssumption DEF Enter, PhaseInv, Sane
<1>2. /\ writer' = p /\ job' = job /\ files' = files /\ todo' = job[p].targets
      /\ \A f \in job[p].bound : files[f] = job[p].before[f]
  BY DEF Enter
<1>3. job[p].kind \in {"init", "reconcile", "submit", "retire"}
  BY <1>1 DEF JobSane, TypeOK, Job
<1>4. WriterOK'
  BY <1>1, <1>2, <1>3 DEF WriterOK, JobSane, InitTargets
<1>5. InitWrites'
  <2> SUFFICES ASSUME job[p].kind = "init" PROVE InitWrites'
    BY <1>2 DEF InitWrites
  <2>1. \A f \in InitTargets : files[f] = Absent
    BY <1>1, <1>2 DEF JobSane, Nothing, InitTargets, Field, Registered
  <2>2. files.harness = Absent
    BY <2>1 DEF InitTargets
  <2>3. \A f \in Registered : files[f] = Absent
    BY <2>2 DEF PhaseInv, Untouched
  <2>4. \A q \in Process : job[q].kind \notin {"reconcile", "retire"}
    BY <2>2 DEF PhaseInv, Untouched
  <2> QED BY <1>1, <1>2, <2>1, <2>3, <2>4 DEF InitWrites, JobSane
<1>6. RetireDeletes'
  <2> SUFFICES ASSUME job[p].kind = "retire" PROVE RetireDeletes'
    BY <1>2 DEF RetireDeletes
  <2>1. files.plan = "proposed"
    BY <1>1, <1>2 DEF JobSane
  <2> QED BY <1>2, <2>1 DEF RetireDeletes
<1> QED BY <1>2, <1>4, <1>5, <1>6
    DEF PhaseInv, Untouched, NoRevival, HasRegistry, Complete

\* PhaseInv survives a batch that is cut short.
LEMMA PhaseOfStop ==
  ASSUME TypeOK, PhaseInv, NEW p \in Process, Stop(p), Sane'
  PROVE  PhaseInv'
<1>1. \A q \in Process : job'[q] = IF q = p THEN Idle ELSE job[q]
  BY DEF Stop, TypeOK
<1>2. files' = files /\ Idle.kind = "none"
  BY DEF Stop, Idle
<1>3. writer' # Nobody => writer' = writer /\ todo' = todo /\ job'[writer] = job[writer]
  BY <1>1 DEF Stop, TypeOK
<1>4. WriterOK'
  BY <1>3 DEF PhaseInv, WriterOK, Stop
<1>5. Untouched' /\ NoRevival'
  BY <1>1, <1>2 DEF PhaseInv, Untouched, NoRevival, HasRegistry, Complete
<1>6. InitWrites' /\ RetireDeletes'
  BY <1>1, <1>2, <1>3 DEF PhaseInv, InitWrites, RetireDeletes
<1> QED BY <1>4, <1>5, <1>6 DEF PhaseInv

\* The order of writes: harness.json first, if it is among them, and the registry
\* last.
LEMMA Ordered ==
  ASSUME todo \subseteq Field \ {"approval", "claims"}, NEW kind, NEW f \in todo,
         InOrder(kind, f)
  PROVE  /\ f = "registry" => todo = {"registry"}
         /\ kind # "retire" /\ "harness" \in todo => f = "harness"
<1>1. \A g \in Field \ {"approval", "claims"} :
        /\ g # "registry" => Position[g] < Position["registry"]
        /\ g # "harness" => Position[g] > Position["harness"]
        /\ Position[g] \in Nat
  BY DEF Position, Field, Registered, Derived, Governed
<1> QED BY <1>1 DEF InOrder

\* What a write does to the files and to the writer.
LEMMA Written ==
  ASSUME TypeOK, PhaseInv, NEW p \in Process, NEW f \in Field, Write(p, f)
  PROVE  /\ \A g \in Field :
              files'[g] = IF g = f THEN job[p].after[f] ELSE files[g]
         /\ writer = p /\ p # Nobody /\ job[p].stage = "bound" /\ JobSane(job[p])
         /\ job[p].kind \in {"init", "reconcile", "submit", "retire"}
         /\ f \in job[p].targets /\ f \in todo /\ todo' = todo \ {f}
         /\ \/ todo = {f} /\ writer' = Nobody /\ job'[p] = Idle
            \/ todo # {f} /\ writer' = p /\ job'[p] = job[p]
         /\ \A q \in Process : \/ job'[q].kind = job[q].kind
                               \/ job'[q].kind = "none"
         /\ f = "registry" => todo = {"registry"}
         /\ job[p].kind # "retire" /\ "harness" \in todo => f = "harness"
<1>1. \A g \in Field :
        files'[g] = IF g = f THEN job[p].after[f] ELSE files[g]
  BY DEF Write, TypeOK, Contents, Field, Registered, Derived, Governed
<1>2. /\ writer = p /\ p # Nobody /\ job[p].stage = "bound" /\ JobSane(job[p])
      /\ f \in job[p].targets /\ f \in todo /\ todo' = todo \ {f}
  BY LifecycleAssumption DEF Write, PhaseInv, Sane, WriterOK
<1>3. job[p].kind \in {"init", "reconcile", "submit", "retire"}
  BY <1>2 DEF JobSane, TypeOK, Job
<1>4. \/ todo = {f} /\ writer' = Nobody /\ job'[p] = Idle
      \/ todo # {f} /\ writer' = p /\ job'[p] = job[p]
  BY <1>2, TearType, TearFields DEF Write, TypeOK
<1>5. \A q \in Process : job'[q].kind = job[q].kind \/ job'[q].kind = "none"
  BY TearType, TearFields DEF Write, TypeOK, Idle
<1>6. /\ f = "registry" => todo = {"registry"}
      /\ job[p].kind # "retire" /\ "harness" \in todo => f = "harness"
  <2>1. job[p].targets \subseteq Field \ {"approval", "claims"}
    BY <1>2, <1>3
    DEF JobSane, InitTargets, TypeOK, Job, Field, Registered, Derived, Governed
  <2>2. todo \subseteq Field \ {"approval", "claims"}
    BY <1>2, <2>1 DEF PhaseInv, WriterOK
  <2> QED BY <2>2, Ordered DEF Write
<1> QED BY <1>1, <1>2, <1>3, <1>4, <1>5, <1>6

\* PhaseInv survives one more file of a batch.
LEMMA PhaseOfWrite ==
  ASSUME TypeOK, PhaseInv, NEW p \in Process, NEW f \in Field, Write(p, f), Sane'
  PROVE  PhaseInv'
<1>1. WriterOK'
  BY Written DEF WriterOK, PhaseInv
<1>2. CASE job[p].kind = "init"
  <2>1. /\ InitTargets \subseteq Field /\ job[p].targets = InitTargets
        /\ job[p].after.harness = "workspace"
    BY <1>2, Written DEF JobSane, InitTargets, Field, Registered
  <2>2. files'.harness = "workspace"
    <3>1. CASE f = "harness"
      BY <2>1, <3>1, Written
    <3>2. CASE f # "harness"
      BY <1>2, <2>1, <3>2, Written DEF PhaseInv, InitWrites, InitTargets, Field
    <3> QED BY <3>1, <3>2
  <2>3. Untouched'
    BY <2>2, LifecycleAssumption DEF Untouched
  <2>4. \A q \in Process : job'[q].kind \notin {"reconcile", "retire"}
    BY <1>2, Written DEF PhaseInv, InitWrites
  <2>5. InitWrites'
    <3> SUFFICES ASSUME writer' # Nobody PROVE InitWrites'
      BY DEF InitWrites
    <3>1. writer' = writer /\ job'[writer'] = job[p] /\ Registered \subseteq Field
      BY Written DEF Field
    <3>2. \A g \in todo' \union (Registered \ InitTargets) : files'[g] = Absent
      BY <1>2, <2>1, <3>1, Written DEF PhaseInv, InitWrites, TypeOK
    <3>3. \A g \in InitTargets \ todo' : files'[g] = job[p].after[g]
      BY <1>2, <2>1, Written DEF PhaseInv, InitWrites
    <3> QED BY <2>4, <3>1, <3>2, <3>3 DEF InitWrites
  <2>6. NoRevival' /\ RetireDeletes'
    BY <1>2, <2>4, Written DEF NoRevival, RetireDeletes
  <2> QED BY <1>1, <2>3, <2>5, <2>6 DEF PhaseInv
<1>3. CASE job[p].kind \in {"reconcile", "submit"}
  <2>1. files.harness # Absent
    BY <1>3, Written DEF PhaseInv, Untouched
  <2>2. f \notin {"harness", "profile", "plan"}
    BY <1>3, Written DEF JobSane
  <2>3. /\ files'.harness = files.harness /\ files'.profile = files.profile
        /\ files'.plan = files.plan
    BY <2>2, Written DEF Field, Registered
  <2>4. Untouched'
    BY <2>1, <2>3 DEF Untouched
  <2>5. InitWrites' /\ RetireDeletes'
    BY <1>3, Written DEF InitWrites, RetireDeletes
  <2>6. HasRegistry(files) => HasRegistry(files')
    BY <1>3, Written DEF JobSane, HasRegistry, Field
  <2>7. NoRevival'
    BY <2>3, <2>6, Written DEF PhaseInv, NoRevival, Complete, HasRegistry
  <2> QED BY <1>1, <2>4, <2>5, <2>7 DEF PhaseInv
<1>4. CASE job[p].kind = "retire"
  <2>1. files.harness # Absent
    BY <1>4, Written DEF PhaseInv, Untouched
  <2>2. /\ f # "harness" /\ job[p].after[f] = Absent /\ "profile" \in job[p].targets
    BY <1>4, Written DEF JobSane, Nothing, Registered, Derived, Governed
  <2>3. files'.harness = files.harness
    BY <2>2, Written DEF Field
  <2>4. RetireDeletes'
    <3> SUFFICES ASSUME writer' # Nobody PROVE RetireDeletes'
      BY DEF RetireDeletes
    <3>1. writer' = writer /\ job'[writer'] = job[p] /\ job[p].targets \subseteq Field
      BY Written DEF TypeOK, Job
    <3>2. files'.plan \in {"proposed", Absent}
      BY <1>4, <2>2, Written DEF PhaseInv, RetireDeletes, Field, Registered
    <3>3. \A g \in job[p].targets \ todo' : files'[g] = Absent
      BY <1>4, <2>2, <3>1, Written DEF PhaseInv, RetireDeletes
    <3> QED BY <3>1, <3>2, <3>3 DEF RetireDeletes
  <2>5. Complete(files') => Complete(files) /\ f # "profile"
    <3>1. /\ files'.profile = IF f = "profile" THEN Absent ELSE files.profile
          /\ files'.plan = IF f = "plan" THEN Absent ELSE files.plan
      BY <2>2, Written DEF Field, Registered
    <3> QED BY <2>3, <3>1, LifecycleAssumption DEF Complete
  <2>6. f = "registry" => ~ Complete(files)
    BY <1>4, <2>2, Written, LifecycleAssumption
    DEF PhaseInv, RetireDeletes, Complete, Field, Registered
  <2>7. f # "registry" => files'.registry = files.registry
    BY Written DEF Field
  <2>8. NoRevival'
    BY <2>5, <2>6, <2>7, Written DEF PhaseInv, NoRevival, HasRegistry, Complete
  <2>9. Untouched' /\ InitWrites'
    BY <1>4, <2>1, <2>3, Written DEF Untouched, InitWrites
  <2> QED BY <1>1, <2>4, <2>8, <2>9 DEF PhaseInv
<1> QED BY <1>2, <1>3, <1>4, Written

\* What a user may edit.
LEMMA Edited ==
  ASSUME TypeOK, PhaseInv, EditPlan \/ SignPlan \/ Overlay \/ TransitionRole \/ RelabelRole
  PROVE  /\ writer = Nobody /\ job' = Tear /\ UNCHANGED <<writer, todo>>
         /\ UNCHANGED <<files.harness, files.registry, files.profile>>
         /\ \/ files'.plan = files.plan
            \/ files.plan \in Plan /\ files'.plan \in Plan
         /\ files.harness # Absent \/ \A f \in Registered : files'[f] = files[f]
         /\ \A f \in Registered : files'[f] = files[f] \/ f \in astray'
         /\ astray \subseteq astray'
<1>1. ASSUME files.plan \in Plan \/ files.roles \in RolesFile
      PROVE  files.harness # Absent
  BY <1>1, LifecycleAssumption DEF PhaseInv, Untouched, Registered, Derived
<1>2. ASSUME NEW f \in {"plan", "claims", "roles"}, NEW v, Edit(f, v)
      PROVE  /\ writer = Nobody /\ job' = Tear /\ UNCHANGED <<writer, todo>>
             /\ UNCHANGED <<files.harness, files.registry, files.profile>>
             /\ files'.plan = IF f = "plan" THEN v ELSE files.plan
             /\ \A g \in Registered : files'[g] = files[g] \/ g \in astray'
             /\ astray \subseteq astray'
             /\ f = "claims" => \A g \in Registered : files'[g] = files[g]
  BY <1>2 DEF Edit, TypeOK, Contents, Registered, Derived, Governed
<1>3. CASE EditPlan
  BY <1>1, <1>2, <1>3 DEF EditPlan
<1>4. CASE SignPlan
  BY <1>4 DEF SignPlan, TypeOK, Contents, Registered, Derived, Governed
<1>5. CASE Overlay
  BY <1>2, <1>5 DEF Overlay
<1>6. CASE TransitionRole
  BY <1>1, <1>2, <1>6 DEF TransitionRole, ChangeRole
<1>7. CASE RelabelRole
  BY <1>1, <1>2, <1>7 DEF RelabelRole, ChangeRole
<1> QED BY <1>3, <1>4, <1>5, <1>6, <1>7

\* PhaseInv survives every step.
LEMMA PhaseStep == TypeOK /\ PhaseInv /\ [Next]_vars => PhaseInv'
<1> SUFFICES ASSUME TypeOK, PhaseInv, [Next]_vars PROVE PhaseInv'
  OBVIOUS
<1>1. Sane'
  BY SaneStep DEF PhaseInv
<1>2. ASSUME NEW p \in Process, NEW kind, NEW now, NEW targets, NEW bound, NEW after,
             Propose(p, kind, now, targets, bound, after),
             \/ kind = "init"
             \/ kind = "submit" /\ files.harness # Absent
             \/ kind = "reconcile" /\ HasRegistry(files)
      PROVE  PhaseInv'
  <2> DEFINE j == [Idle EXCEPT !.kind = kind, !.stage = "read", !.now = now,
                     !.targets = targets, !.bound = bound, !.after = after]
  <2>1. /\ job[p].stage # "bound" /\ job' = [job EXCEPT ![p] = j]
        /\ UNCHANGED <<files, writer, todo>> /\ j.kind = kind
    BY <1>2 DEF Propose, Idle
  <2> HIDE DEF j
  <2> QED BY <1>1, <1>2, <2>1, PhaseOfJob
<1>3. ASSUME NEW p \in Process, BuildInit(p) PROVE PhaseInv'
  BY <1>2, <1>3 DEF BuildInit
<1>4. ASSUME NEW p \in Process, NEW now \in Time, BuildReconcile(p, now) PROVE PhaseInv'
  BY <1>2, <1>4 DEF BuildReconcile
<1>5. ASSUME NEW p \in Process, BuildSubmit(p) PROVE PhaseInv'
  BY <1>2, <1>5, LifecycleAssumption DEF BuildSubmit, Complete
<1>6. ASSUME NEW p \in Process, BuildRetire(p) PROVE PhaseInv'
  <2> DEFINE j == [Idle EXCEPT !.kind = "retire", !.stage = "bound", !.tree = tree,
                     !.targets = Listed(files) \union {"registry"},
                     !.bound = Listed(files),
                     !.before = Before("retire", Listed(files))]
  <2>1. /\ job[p].stage # "bound" /\ job' = [job EXCEPT ![p] = j]
        /\ UNCHANGED <<files, writer, todo>> /\ j.kind = "retire" /\ HasRegistry(files)
    BY <1>6 DEF BuildRetire, Idle
  <2> HIDE DEF j
  <2> QED BY <1>1, <2>1, PhaseOfJob
<1>7. ASSUME NEW p \in Process, Bind(p) PROVE PhaseInv'
  <2> DEFINE j == [job[p] EXCEPT !.stage = "bound", !.tree = tree,
                     !.before = Before(job[p].kind, job[p].bound)]
  <2>1. /\ job[p].stage # "bound" /\ job' = [job EXCEPT ![p] = j]
        /\ UNCHANGED <<files, writer, todo>> /\ j.kind = job[p].kind
    BY <1>7 DEF Bind, TypeOK, Job
  <2> HIDE DEF j
  <2> QED BY <1>1, <2>1, PhaseOfJob
<1>8. CASE ChangeSources
  BY <1>1, <1>8, PhaseOfEdit DEF ChangeSources
<1>9. CASE EditPlan \/ SignPlan \/ Overlay \/ TransitionRole \/ RelabelRole
  BY <1>1, <1>9, PhaseOfEdit, Edited
<1>10. CASE UNCHANGED vars
  BY <1>10 DEF vars, PhaseInv, Sane, WriterOK, Untouched, InitWrites, NoRevival,
     RetireDeletes, HasRegistry, Complete
<1> QED
  BY <1>1, <1>3, <1>4, <1>5, <1>6, <1>7, <1>8, <1>9, <1>10, PhaseOfEnter, PhaseOfWrite,
     PhaseOfStop DEF Next, BuildUpgrade

\* Only a write and an edit change the metadata; a write that does not end a batch,
\* or a proposal, leaves the writer's job as it is.
LEMMA Quiet ==
  ASSUME TypeOK, PhaseInv, NEW p \in Process,
         \/ BuildInit(p) \/ BuildSubmit(p) \/ BuildRetire(p) \/ Bind(p)
         \/ \E now \in Time : BuildReconcile(p, now)
  PROVE  /\ UNCHANGED <<files, writer, todo>>
         /\ writer # p
         /\ \A q \in Process \ {p} : job'[q] = job[q]
<1>1. writer # p
  BY LifecycleAssumption
  DEF PhaseInv, WriterOK, BuildInit, BuildSubmit, BuildRetire, Bind, BuildReconcile, Propose
<1>2. UNCHANGED <<files, writer, todo>> /\ \A q \in Process \ {p} : job'[q] = job[q]
  BY DEF BuildInit, BuildSubmit, BuildRetire, Bind, BuildReconcile, Propose, TypeOK
<1> QED BY <1>1, <1>2

\* The step lemma of ApprovedIsNeverRetired.
LEMMA CompleteStays ==
  ASSUME TypeOK, PhaseInv, [Next]_vars, Complete(files), files.plan # "proposed"
  PROVE  Complete(files')
<1>1. ASSUME NEW p \in Process, NEW f \in Field, Write(p, f) PROVE Complete(files')
  <2>1. job[p].kind # "retire"
    BY <1>1, Written, LifecycleAssumption DEF PhaseInv, RetireDeletes, Complete
  <2>2. f \in {"harness", "profile", "plan"} => job[p].kind = "init"
    BY <1>1, <2>1, Written DEF JobSane
  <2>3. /\ f = "harness" => job[p].after[f] = "workspace"
        /\ f = "profile" => job[p].after[f] \in Tree
        /\ f = "plan" => job[p].after[f] \in Plan
    BY <1>1, <2>2, Written DEF JobSane, Plan
  <2> QED BY <1>1, <2>3, Written DEF Complete, Field, Registered
<1>2. CASE EditPlan \/ SignPlan \/ Overlay \/ TransitionRole \/ RelabelRole
  BY <1>2, Edited DEF Complete
<1>3. CASE UNCHANGED files
  BY <1>3
<1> QED
  BY <1>1, <1>2, <1>3, Quiet
  DEF Next, BuildUpgrade, Enter, Stop, ChangeSources, vars

Starting == writer # Nobody /\ job[writer].kind = "init"

\* The phase, case by case.
LEMMA PhaseIs ==
  /\ Starting => phase = "starting"
  /\ ~ Starting /\ files.harness = Absent => phase = "none"
  /\ ~ Starting /\ files.harness # Absent =>
       phase = IF Complete(files) /\ HasRegistry(files) THEN "ready" ELSE "broken"
BY DEF phase, Starting

\* A step outside init that leaves the profile, the Plan and the registry where
\* they are is no change of phase.
LEMMA SamePhase ==
  ASSUME ~ Starting, ~ Starting', files'.harness = files.harness,
         (Complete(files) /\ HasRegistry(files))
           <=> (Complete(files') /\ HasRegistry(files'))
  PROVE  phase' = phase
BY DEF phase, Starting, Complete, HasRegistry

\* Every step is one of the abstract specification, or no change of phase.
LEMMA PhaseRefinedStep ==
  ASSUME TypeOK, PhaseInv, PhaseInv', [Next]_vars
  PROVE  Phases!PhaseNext \/ phase' = phase
<1>1. ASSUME UNCHANGED <<files, writer>>, writer # Nobody => job'[writer].kind = job[writer].kind
      PROVE  phase' = phase
  BY <1>1 DEF phase, Complete, HasRegistry
<1>2. ASSUME NEW p \in Process,
             \/ BuildInit(p) \/ BuildSubmit(p) \/ BuildRetire(p) \/ Bind(p)
             \/ \E now \in Time : BuildReconcile(p, now)
      PROVE  phase' = phase
  BY <1>1, <1>2, Quiet DEF TypeOK
<1>3. ASSUME NEW p \in Process, Enter(p)
      PROVE  Phases!PhaseNext \/ phase' = phase
  <2>1. /\ writer = Nobody /\ writer' = p /\ p # Nobody
        /\ files' = files /\ job' = job /\ JobSane(job[p]) /\ job[p].stage = "bound"
        /\ \A f \in job[p].bound : files[f] = job[p].before[f]
    BY <1>3, LifecycleAssumption DEF Enter, PhaseInv, Sane
  <2>2. CASE job[p].kind = "init"
    <3>1. files.harness = Absent
      BY <2>1, <2>2 DEF JobSane, InitTargets, Nothing, Field
    <3>2. phase = "none" /\ phase' = "starting"
      BY <2>1, <2>2, <3>1 DEF phase
    <3> QED BY <3>2 DEF Phases!PhaseNext, Phases!Begin
  <2>3. CASE job[p].kind # "init"
    BY <2>1, <2>3, SamePhase DEF Starting
  <2> QED BY <2>2, <2>3
<1>4. ASSUME NEW p \in Process, NEW f \in Field, Write(p, f)
      PROVE  Phases!PhaseNext \/ phase' = phase
  <2>1. CASE job[p].kind = "init" /\ todo # {f}
    <3>1. Starting /\ Starting'
      BY <1>4, <2>1, Written DEF Starting
    <3> QED BY <3>1 DEF phase, Starting
  <2>2. CASE job[p].kind = "init" /\ todo = {f}
    <3>1. Starting /\ ~ Starting' /\ f = "registry"
      BY <1>4, <2>2, Written DEF Starting, PhaseInv, WriterOK
    <3>2. \A g \in InitTargets \ {f} : files[g] = job[p].after[g]
      BY <1>4, <2>2, Written DEF PhaseInv, InitWrites
    <3>3. /\ files'.harness = "workspace" /\ files'.profile \in Tree
          /\ files'.plan = "proposed" /\ files'.registry \in Listing
      BY <1>4, <2>2, <3>1, <3>2, Written
      DEF JobSane, InitTargets, Field, Registered
    <3>4. phase = "starting" /\ phase' = "ready"
      BY <3>1, <3>3, LifecycleAssumption DEF phase, Starting, Complete, HasRegistry, Plan
    <3> QED BY <3>4 DEF Phases!PhaseNext, Phases!Complete
  <2>3. CASE job[p].kind \in {"reconcile", "submit"}
    <3>1. /\ ~ Starting /\ ~ Starting'
          /\ f \notin {"harness", "profile", "plan"}
          /\ f = "registry" => job[p].kind = "reconcile" /\ job[p].after[f] \in Listing
      BY <1>4, <2>3, Written DEF Starting, JobSane
    <3>2. /\ files'.harness = files.harness /\ files'.profile = files.profile
          /\ files'.plan = files.plan
      BY <1>4, <3>1, Written DEF Field, Registered
    <3>3. Complete(files) => (HasRegistry(files) <=> HasRegistry(files'))
      BY <1>4, <3>1, Written DEF PhaseInv, NoRevival, HasRegistry, Field
    <3> QED BY <3>1, <3>2, <3>3, SamePhase DEF Complete
  <2>4. CASE job[p].kind = "retire"
    <3>1. /\ ~ Starting /\ ~ Starting' /\ files.harness # Absent
          /\ f # "harness" /\ job[p].after[f] = Absent
      BY <1>4, <2>4, Written
      DEF Starting, PhaseInv, Untouched, JobSane, Nothing, Registered, Derived, Governed
    <3>2. /\ files'.harness = files.harness
          /\ files'.profile = IF f = "profile" THEN Absent ELSE files.profile
          /\ files'.plan = IF f = "plan" THEN Absent ELSE files.plan
          /\ files'.registry = IF f = "registry" THEN Absent ELSE files.registry
      BY <1>4, <3>1, Written DEF Field, Registered
    <3>3. Complete(files') /\ HasRegistry(files') => Complete(files) /\ HasRegistry(files)
      BY <3>2, LifecycleAssumption DEF Complete, HasRegistry
    <3>4. CASE Complete(files) /\ HasRegistry(files)
               /\ ~ (Complete(files') /\ HasRegistry(files'))
      <4>1. phase = "ready" /\ phase' = "broken"
        BY <3>1, <3>2, <3>4 DEF phase, Starting, Complete, HasRegistry
      <4> QED BY <4>1 DEF Phases!PhaseNext, Phases!Break
    <3> QED BY <3>1, <3>2, <3>3, <3>4, SamePhase
  <2> QED BY <1>4, <2>1, <2>2, <2>3, <2>4, Written
<1>5. ASSUME NEW p \in Process, Stop(p)
      PROVE  Phases!PhaseNext \/ phase' = phase
  <2>1. CASE writer # p
    BY <1>1, <1>5, <2>1 DEF Stop, TypeOK
  <2>2. CASE writer = p /\ job[p].kind # "init"
    BY <1>5, <2>2, SamePhase DEF Stop, Starting
  <2>3. CASE writer = p /\ job[p].kind = "init"
    <3>1. Starting /\ ~ Starting' /\ files' = files /\ files.registry = Absent
      BY <1>5, <2>3, LifecycleAssumption
      DEF Stop, Starting, PhaseInv, WriterOK, InitWrites
    <3>2. phase = "starting" /\ phase' \in {"none", "broken"}
      BY <3>1, LifecycleAssumption DEF phase, Starting, HasRegistry
    <3> QED BY <3>2
        DEF Phases!PhaseNext, Phases!Abandon, Phases!Break
  <2> QED BY <2>1, <2>2, <2>3
<1>6. CASE EditPlan \/ SignPlan \/ Overlay \/ TransitionRole \/ RelabelRole
  <2>1. ~ Starting /\ ~ Starting'
    BY <1>6, Edited DEF Starting
  <2> QED BY <1>6, <2>1, Edited, SamePhase DEF Complete, HasRegistry
<1>7. CASE ChangeSources
  BY <1>1, <1>7, TearFields DEF ChangeSources, TypeOK
<1>8. CASE UNCHANGED vars
  BY <1>1, <1>8 DEF vars
<1> QED
  BY <1>2, <1>3, <1>4, <1>5, <1>6, <1>7, <1>8 DEF Next, BuildUpgrade

\* What the workspace's files and commands may be holds in every state.
LEMMA PhaseInvariant == Spec => [](TypeOK /\ PhaseInv)
<1>1. Init => TypeOK /\ PhaseInv
  BY InitSane DEF IInv
<1>2. PhaseInv /\ [Next]_vars /\ TypeOK => PhaseInv'
  BY PhaseStep
<1> QED BY <1>1, <1>2, TypeCorrect, PTL DEF Spec

\* A workspace whose Plan was approved is never retired.
THEOREM NeverRetired == Spec => ApprovedIsNeverRetired
<1>1. TypeOK /\ PhaseInv /\ [Next]_vars =>
        [Complete(files) /\ files.plan # "proposed" => Complete(files')]_vars
  BY CompleteStays
<1> QED BY <1>1, PhaseInvariant, PTL DEF Spec, ApprovedIsNeverRetired

\* doctor accepts no state of a role that the history does not end in.
THEOREM RecordedRoles == Spec => []AcceptedRoleIsRecorded
<1>1. TypeOK /\ PhaseInv => AcceptedRoleIsRecorded
  BY DEF PhaseInv, Sane, RolesSane, RoleSane, AcceptedRoleIsRecorded
<1> QED BY <1>1, PhaseInvariant, PTL

\* A directory becomes a workspace at most once.
THEOREM PhasesImplemented == Spec => PhasesRefined
<1>1. Init => Phases!PhaseInit
  BY LifecycleAssumption DEF Init, Phases!PhaseInit, phase, Nothing, Field
<1>2. TypeOK /\ PhaseInv /\ (TypeOK /\ PhaseInv)' /\ [Next]_vars =>
        [Phases!PhaseNext]_phase
  BY PhaseRefinedStep
<1> QED BY <1>1, <1>2, PhaseInvariant, PTL DEF Spec, PhasesRefined, Phases!PhaseSpec

-----------------------------------------------------------------------------
(* What reconciles derive, and what the registry says.                     *)

\* Whatever it holds, a record of the files is its fields.
LEMMA SameFiles ==
  ASSUME NEW c \in Contents, NEW d \in Contents, \A f \in Field : c[f] = d[f]
  PROVE  c = d
BY DEF Contents, Field, Registered, Derived, Governed

\* A proposal fits as long as neither it nor the files change.
LEMMA FitsSame ==
  ASSUME NEW q \in Process, Fits(job[q]), files' = files, job'[q] = job[q]
  PROVE  Fits(job[q])'
<1>1. Source(job[q])' = Source(job[q])
  BY DEF Source
<1> QED
  BY <1>1 DEF Fits

\* Once it is bound a proposal does not depend on the files, and until then it is
\* torn by any change.
LEMMA FitsTear ==
  ASSUME TypeOK, NEW q \in Process, Fits(job[q]), job'[q] \in {Idle, Tear[q]}
  PROVE  Fits(job[q])'
<1>1. CASE job'[q] = Idle
  BY <1>1 DEF Fits, Idle
<1>2. CASE job[q].stage = "read" /\ job'[q] = Tear[q]
  BY <1>2, TearFields DEF Fits, TypeOK
<1>3. CASE job[q].stage # "read" /\ job'[q] = Tear[q]
  <2>1. job'[q] = job[q] /\ Source(job[q]) = job[q].before
        /\ Source(job[q])' = job[q].before
    BY <1>3, TearFields DEF TypeOK, Source
  <2> QED BY <2>1 DEF Fits, HasRegistry, PlanApproved
<1> QED BY <1>1, <1>2, <1>3

\* A reconcile fits the files it has just read.
LEMMA FitsOfReconcile ==
  ASSUME TypeOK, NEW p \in Process, NEW now \in Time, BuildReconcile(p, now)
  PROVE  Fits(job[p])'
<1> DEFINE j == [Idle EXCEPT !.kind = "reconcile", !.stage = "read", !.now = now,
                   !.targets = ReconcileTargets(files), !.bound = Snapshot(files),
                   !.after = Reconciling(files, now)]
<1>1. /\ job'[p] = j /\ files' = files
      /\ files.profile \in Tree /\ HasRegistry(files) /\ files \in Contents
  BY DEF BuildReconcile, Propose, Complete, TypeOK, Reconciling
<1>2. /\ j.kind = "reconcile" /\ j.stage = "read" /\ j.now = now
      /\ j.targets = ReconcileTargets(files) /\ j.bound = Snapshot(files)
      /\ j.after = Reconciling(files, now)
  BY DEF Idle
<1> HIDE DEF j
<1>3. Source(job[p])' = files
  BY <1>1, <1>2 DEF Source
<1>4. Reconciling(files, now).registry = Relisted(files, now)
  BY DEF Reconciling, Field, ReconcileTargets
<1>5. \A g \in Registered \ ReconcileTargets(files) :
        Relisted(files, now)[g] = files.registry[g]
  BY DEF Relisted
<1>6. "roles" \in ReconcileTargets(files) => PlanApproved(files) /\ Snapshot(files) = Field
  BY DEF ReconcileTargets, Derivable, Snapshot, PlanApproved
<1> QED BY <1>1, <1>2, <1>3, <1>4, <1>5, <1>6 DEF Fits, Reconciling, HasRegistry, PlanApproved

\* Fingerprinting keeps a proposal fitting.
LEMMA FitsOfBind ==
  ASSUME TypeOK, Sane, NEW p \in Process, Bind(p), Fits(job[p])
  PROVE  Fits(job[p])'
<1> DEFINE j == [job[p] EXCEPT !.stage = "bound", !.tree = tree,
                   !.before = Before(job[p].kind, job[p].bound)]
<1>1. /\ job[p] \in Job /\ job[p].stage = "read" /\ JobSane(job[p])
      /\ job'[p] = j /\ files' = files
  BY DEF Bind, TypeOK, Sane
<1>2. /\ j.kind = job[p].kind /\ j.targets = job[p].targets /\ j.now = job[p].now
      /\ j.bound = job[p].bound /\ j.after = job[p].after /\ j.stage = "bound"
      /\ j.before = Before(job[p].kind, job[p].bound) /\ j.torn = job[p].torn
  BY <1>1 DEF Job
<1> HIDE DEF j
<1> SUFFICES ASSUME job[p].kind = "reconcile", ~ job[p].torn PROVE Fits(job[p])'
  BY <1>1, <1>2 DEF Fits
<1>3. Source(job[p]) = files /\ Source(job[p])' = j.before
  BY <1>1, <1>2 DEF Source
<1>4. j.before.registry = files.registry
  BY <1>1, <1>2 DEF JobSane, Before, Field
<1>5. CASE "roles" \in job[p].targets
  <2>1. job[p].bound = Field
    BY <1>5 DEF Fits
  <2>2. \A f \in Field : j.before[f] = files[f]
    BY <1>2, <2>1 DEF Before
  <2>3. j.before = files
    BY <1>2, <2>2, SameFiles, BeforeType DEF TypeOK
  <2> QED BY <1>1, <1>2, <1>3, <2>3 DEF Fits, HasRegistry, PlanApproved
<1>6. CASE "roles" \notin job[p].targets
  BY <1>1, <1>2, <1>3, <1>4, <1>6 DEF Fits, HasRegistry
<1> QED BY <1>5, <1>6

\* Fits survives every step: who did not see a change is marked torn.
LEMMA FitsStep ==
  ASSUME TypeOK, PhaseInv, [Next]_vars, \A p \in Process : Fits(job[p])
  PROVE  \A q \in Process : Fits(job[q])'
<1>1. ASSUME NEW p \in Process, NEW q \in Process \ {p}, files' = files,
             \A r \in Process \ {p} : job'[r] = job[r]
      PROVE  Fits(job[q])'
  BY <1>1, FitsSame
<1>2. ASSUME NEW p \in Process, BuildInit(p) \/ BuildSubmit(p) \/ BuildRetire(p)
      PROVE  Fits(job[p])'
  <2>1. job'[p].kind # "reconcile"
    <3>1. CASE BuildInit(p) \/ BuildSubmit(p)
      BY <3>1 DEF BuildInit, BuildSubmit, Propose, Idle, TypeOK
    <3>2. CASE BuildRetire(p)
      BY <3>2 DEF BuildRetire, Idle, TypeOK
    <3> QED BY <1>2, <3>1, <3>2
  <2> QED BY <2>1 DEF Fits
<1>3. ASSUME NEW p \in Process, NEW q \in Process,
             \/ BuildInit(p) \/ BuildSubmit(p) \/ BuildRetire(p) \/ Bind(p)
             \/ \E now \in Time : BuildReconcile(p, now)
      PROVE  Fits(job[q])'
  BY <1>1, <1>2, <1>3, Quiet, FitsOfBind, FitsOfReconcile DEF PhaseInv
<1>4. ASSUME NEW p \in Process, NEW q \in Process, NEW f \in Field, Write(p, f)
      PROVE  Fits(job[q])'
  BY <1>4, TearType, FitsTear DEF Write, TypeOK
<1>5. ASSUME NEW p \in Process, NEW q \in Process, Stop(p)
      PROVE  Fits(job[q])'
  <2>1. CASE q = p
    <3>1. job'[q] = Idle
      BY <1>5, <2>1 DEF Stop, TypeOK
    <3> QED BY <3>1, FitsTear
  <2>2. CASE q # p
    BY <1>5, <2>2, FitsSame DEF Stop, TypeOK
  <2> QED BY <2>1, <2>2
<1>6. ASSUME NEW q \in Process,
             \/ ChangeSources
             \/ EditPlan \/ SignPlan \/ Overlay \/ TransitionRole \/ RelabelRole
      PROVE  Fits(job[q])'
  BY <1>6, Edited, FitsTear DEF ChangeSources
<1>7. ASSUME NEW q \in Process, (\E p \in Process : Enter(p)) \/ UNCHANGED vars
      PROVE  Fits(job[q])'
  BY <1>7, FitsSame DEF Enter, vars
<1> QED BY <1>3, <1>4, <1>5, <1>6, <1>7 DEF Next, BuildUpgrade

\* ReconcileWrites survives every step, one file after the other.
LEMMA ReconcileWritesStep ==
  ASSUME TypeOK, PhaseInv, [Next]_vars, ReconcileWrites
  PROVE  ReconcileWrites'
<1>1. ASSUME UNCHANGED <<files, writer, todo>>, writer # Nobody => job'[writer] = job[writer]
      PROVE  ReconcileWrites'
  BY <1>1 DEF ReconcileWrites
<1>2. ASSUME NEW p \in Process,
             \/ BuildInit(p) \/ BuildSubmit(p) \/ BuildRetire(p) \/ Bind(p)
             \/ \E now \in Time : BuildReconcile(p, now)
      PROVE  ReconcileWrites'
  BY <1>1, <1>2, Quiet DEF TypeOK
<1>3. ASSUME NEW p \in Process, Enter(p) PROVE ReconcileWrites'
  BY <1>3 DEF Enter, ReconcileWrites
<1>4. ASSUME NEW p \in Process, NEW f \in Field, Write(p, f) PROVE ReconcileWrites'
  <2> SUFFICES ASSUME writer' = p, job[p].kind = "reconcile" PROVE ReconcileWrites'
    BY <1>4, Written DEF ReconcileWrites
  <2>1. job'[p] = job[p] /\ job[p].targets \subseteq Field /\ job[p].bound \subseteq Field
    BY <1>4, Written, LifecycleAssumption DEF TypeOK, Job
  <2>2. \A g \in job[p].targets \ todo' : files'[g] = job[p].after[g]
    BY <1>4, <2>1, Written DEF ReconcileWrites
  <2>3. \A g \in job[p].bound \ (job[p].targets \ todo') : files'[g] = job[p].before[g]
    BY <1>4, <2>1, Written DEF ReconcileWrites
  <2> QED BY <2>1, <2>2, <2>3 DEF ReconcileWrites
<1>5. ASSUME NEW p \in Process, Stop(p) PROVE ReconcileWrites'
  BY <1>1, <1>5 DEF Stop, TypeOK, ReconcileWrites
<1>6. CASE EditPlan \/ SignPlan \/ Overlay \/ TransitionRole \/ RelabelRole
  BY <1>6, Edited DEF ReconcileWrites
<1>7. CASE ChangeSources
  BY <1>1, <1>7, TearFields DEF ChangeSources, TypeOK, PhaseInv, WriterOK
<1>8. CASE UNCHANGED vars
  BY <1>1, <1>8 DEF vars
<1> QED
  BY <1>2, <1>3, <1>4, <1>5, <1>6, <1>7, <1>8 DEF Next, BuildUpgrade

\* RegistryTruth survives every step, given where batches stand.
LEMMA RegistryTruthStep ==
  ASSUME TypeOK, PhaseInv, ReconcileWrites, RegistryTruth,
         \A p \in Process : Fits(job[p]), [Next]_vars
  PROVE  RegistryTruth'
<1>1. ASSUME UNCHANGED <<files, astray>> PROVE RegistryTruth'
  BY <1>1 DEF RegistryTruth, HasRegistry
<1>2. CASE EditPlan \/ SignPlan \/ Overlay \/ TransitionRole \/ RelabelRole
  BY <1>2, Edited DEF RegistryTruth, HasRegistry
<1>3. ASSUME NEW p \in Process, NEW f \in Field, Write(p, f) PROVE RegistryTruth'
  <2>1. CASE f # "registry"
    <3>1. astray' = astray \union ({f} \intersect Registered)
          /\ files'.registry = files.registry
      BY <1>3, <2>1, Written DEF Write, StillAstray, Field
    <3> QED BY <1>3, <3>1, Written DEF RegistryTruth, HasRegistry, Field
  <2>2. CASE f = "registry"
    <3> SUFFICES ASSUME HasRegistry(files'), NEW g \in Registered \ astray'
                 PROVE  files'[g] = files'.registry[g]
      BY DEF RegistryTruth, HasRegistry
    <3>1. /\ files'.registry = job[p].after.registry /\ files'[g] = files[g]
          /\ todo = {"registry"} /\ g # "registry"
      BY <1>3, <2>2, Written DEF Field, Registered, Derived, Governed
    <3>2. astray' = (IF job[p].torn THEN Registered ELSE astray) \ job[p].targets
      BY <1>3, <2>2 DEF Write, StillAstray
    <3>3. CASE job[p].kind = "init"
      <4>1. job[p].after.registry[g] = job[p].after[g]
        BY <1>3, <3>3, Written DEF JobSane
      <4>2. CASE g \in InitTargets
        BY <1>3, <3>1, <3>3, <4>1, <4>2, Written DEF PhaseInv, InitWrites
      <4>3. CASE g \notin InitTargets
        <5>1. job[p].after[g] = Absent
          BY <1>3, <3>3, <4>3, Written DEF JobSane
        <5> QED BY <1>3, <3>1, <3>3, <4>1, <4>3, <5>1, Written
            DEF PhaseInv, InitWrites
      <4> QED BY <4>2, <4>3
    <3>4. CASE job[p].kind = "reconcile" /\ g \in job[p].targets
      <4>1. job[p].after.registry[g] = job[p].after[g]
        BY <1>3, <3>1, <3>4, Written DEF JobSane
      <4>2. files[g] = job[p].after[g]
        BY <1>3, <3>1, <3>4, Written DEF ReconcileWrites
      <4> QED BY <3>1, <4>1, <4>2
    <3>5. CASE job[p].kind = "reconcile" /\ g \notin job[p].targets
      <4>1. ~ job[p].torn /\ g \notin astray
        BY <3>2, <3>5
      <4>2. /\ HasRegistry(job[p].before)
            /\ job[p].after.registry[g] = job[p].before.registry[g]
        BY <1>3, <3>5, <4>1, Written DEF Fits, Source
      <4>3. job[p].before.registry = files.registry
        BY <1>3, <3>1, <3>5, Written DEF ReconcileWrites, JobSane
      <4> QED BY <3>1, <4>1, <4>2, <4>3 DEF RegistryTruth, HasRegistry
    <3>6. CASE job[p].kind = "retire"
      BY <1>3, <3>1, <3>6, Written, LifecycleAssumption
      DEF JobSane, Nothing, Field, HasRegistry
    <3>7. job[p].kind # "submit"
      BY <1>3, <2>2, Written DEF JobSane
    <3> QED BY <1>3, <3>3, <3>4, <3>5, <3>6, <3>7, Written
  <2> QED BY <2>1, <2>2
<1> QED
  BY <1>1, <1>2, <1>3, Quiet
  DEF Next, BuildUpgrade, BuildInit, BuildReconcile, BuildSubmit, BuildRetire, Propose,
      Bind, Enter, Stop, ChangeSources, vars

\* The invariant holds whatever commands and user do.
LEMMA Invariant == Spec => []IInv
<1>1. Init => IInv
  BY InitSane
<1>2. IInv /\ TypeOK' /\ [Next]_vars => IInv'
  BY PhaseStep, FitsStep, ReconcileWritesStep, RegistryTruthStep DEF IInv
<1> QED BY <1>1, <1>2, TypeCorrect, PTL DEF Spec

\* The registry is true of every file that was not written without it.
THEOREM TrueRegistry == Spec => []RegistryTruth
BY Invariant, PTL DEF IInv
-----------------------------------------------------------------------------
(* What a reconcile that derives roles does.                               *)

\* Only a batch that begins gives the lock to anyone.
LEMMA Entering ==
  ASSUME TypeOK, PhaseInv, [Next]_vars, NEW p \in Process, writer # p, writer' = p
  PROVE  Enter(p)
<1>1. p # Nobody
  BY LifecycleAssumption
<1>2. ASSUME NEW q \in Process,
             \/ BuildInit(q) \/ BuildSubmit(q) \/ BuildRetire(q) \/ Bind(q)
             \/ \E now \in Time : BuildReconcile(q, now)
      PROVE  FALSE
  BY <1>2, Quiet
<1>3. ASSUME NEW q \in Process, NEW f \in Field, Write(q, f) PROVE FALSE
  BY <1>1, <1>3 DEF Write
<1>4. ASSUME NEW q \in Process, Stop(q) PROVE FALSE
  BY <1>1, <1>4 DEF Stop
<1>5. CASE EditPlan \/ SignPlan \/ Overlay \/ TransitionRole \/ RelabelRole
  BY <1>5, Edited
<1>6. ASSUME NEW q \in Process, Enter(q) PROVE q = p
  BY <1>6 DEF Enter
<1> QED BY <1>2, <1>3, <1>4, <1>5, <1>6 DEF Next, BuildUpgrade, ChangeSources, vars

\* A reconcile that begins has just the effect that it would have if it were built
\* when it begins.
THEOREM SerialDerivation == Spec => DerivationIsSerial
<1>1. ASSUME IInv, [Next]_vars, NEW p \in Process, writer # p, writer' = p,
             job[p].kind = "reconcile", ~ job[p].torn, "roles" \in job[p].targets
      PROVE  /\ PlanApproved(files)
             /\ job[p].targets = ReconcileTargets(files)
             /\ job[p].after.registry = Relisted(files, job[p].now)
             /\ \A g \in job[p].targets \ {"registry"} :
                  job[p].after[g] = Wanted(files, job[p].now)[g]
  <2>1. /\ job[p].stage = "bound" /\ job[p] \in Job
        /\ \A f \in job[p].bound : files[f] = job[p].before[f]
    BY <1>1, Entering DEF IInv, Enter, TypeOK
  <2>2. Source(job[p]) = job[p].before
    BY <2>1 DEF Source
  <2>3. job[p].bound = Field
    BY <1>1 DEF IInv, Fits
  <2>4. job[p].before = files
    BY <1>1, <2>1, <2>3, SameFiles DEF IInv, TypeOK, Job
  <2>5. /\ PlanApproved(files)
        /\ job[p].targets = ReconcileTargets(files)
        /\ job[p].after = Reconciling(files, job[p].now)
    BY <1>1, <2>2, <2>4 DEF IInv, Fits, Reconciling
  <2>6. "registry" \in ReconcileTargets(files) /\ ReconcileTargets(files) \subseteq Field
    BY DEF ReconcileTargets, Derivable, Derived, Governed, Field, Registered
  <2> QED BY <2>5, <2>6 DEF Reconciling, Field
<1>2. IInv /\ [Next]_vars =>
        [\A p \in Process :
           /\ writer # p /\ writer' = p /\ job[p].kind = "reconcile"
           /\ ~ job[p].torn /\ "roles" \in job[p].targets
           => /\ PlanApproved(files)
              /\ job[p].targets = ReconcileTargets(files)
              /\ job[p].after.registry = Relisted(files, job[p].now)
              /\ \A g \in job[p].targets \ {"registry"} :
                   job[p].after[g] = Wanted(files, job[p].now)[g]]_vars
  BY <1>1
<1> QED BY <1>2, Invariant, PTL DEF Spec, DerivationIsSerial

\* While a batch is written, files are changed by nothing else.
LEMMA WhoWrites ==
  ASSUME TypeOK, PhaseInv, [Next]_vars, NEW p \in Process, writer = p, files' # files
  PROVE  \E f \in Field : Write(p, f)
<1>1. p # Nobody
  BY LifecycleAssumption
<1>2. ASSUME NEW q \in Process,
             \/ BuildInit(q) \/ BuildSubmit(q) \/ BuildRetire(q) \/ Bind(q)
             \/ \E now \in Time : BuildReconcile(q, now)
      PROVE  FALSE
  BY <1>2, Quiet
<1>3. ASSUME NEW q \in Process, NEW f \in Field, Write(q, f) PROVE q = p
  BY <1>3 DEF Write
<1>4. CASE EditPlan \/ SignPlan \/ Overlay \/ TransitionRole \/ RelabelRole
  BY <1>1, <1>4, Edited
<1> QED BY <1>2, <1>3, <1>4 DEF Next, BuildUpgrade, ChangeSources, Enter, Stop, vars

\* A role that is stabilised once more is the same.
LEMMA StabilisedOnce ==
  ASSUME NEW old, NEW now \in Time, NEW t \in Time,
         Stabilised(old, now) # Absent
  PROVE  Stabilised(Stabilised(old, now), t) = Stabilised(old, now)
BY DEF Stabilised, Proposed

\* Stabilising never takes a role away.
LEMMA StabilisedPresent ==
  ASSUME NEW old \in RoleRecord \union {Absent}, NEW now \in Time
  PROVE  Stabilised(old, now) # Absent
BY StabilisedType, RolesAssumption

\* Deriving the roles a second time changes nothing.
LEMMA DesiredOnce ==
  ASSUME NEW old \in RolesOnFile, NEW claims, NEW now \in Time, NEW t \in Time
  PROVE  Desired(Desired(old, claims, now), claims, t) = Desired(old, claims, now)
<1> DEFINE D == Desired(old, claims, now)
<1>1. ASSUME NEW r \in Role
      PROVE  (IF claims[r] = "none" THEN Stabilised(D[r], t) ELSE Absent)
               = IF claims[r] = "none" THEN Stabilised(old[r], now) ELSE Absent
  <2>1. claims[r] = "none" => D[r] = Stabilised(old[r], now)
    BY DEF Desired
  <2>2. old[r] \in RoleRecord \union {Absent}
    BY DEF RolesOnFile
  <2> HIDE DEF D
  <2>3. Stabilised(Stabilised(old[r], now), t) = Stabilised(old[r], now)
    BY <2>2, StabilisedOnce, StabilisedPresent
  <2> QED BY <2>1, <2>3
<1> QED BY <1>1 DEF Desired

\* While a reconcile is written that is not torn and derives roles, what it was
\* made of is on file wherever it has not written, and what it makes of that
\* where it has.
LEMMA InTheBatch ==
  ASSUME IInv, [Next]_vars, NEW p \in Process, writer = p, files' # files,
         job[p].kind = "reconcile", ~ job[p].torn, "roles" \in job[p].targets
  PROVE  LET b == job[p].before
             T == ReconcileTargets(b)
         IN /\ b \in Contents /\ b.profile \in Tree /\ PlanApproved(b)
            /\ job[p].now \in Time /\ T \subseteq Field
            /\ \A f \in Field \ T : files[f] = b[f] /\ files'[f] = b[f]
            /\ \A f \in todo : files[f] = b[f]
            /\ \A f \in T \ (todo' \union {"registry"}) :
                 files'[f] = Wanted(b, job[p].now)[f]
            /\ \A f \in T \ {"registry"} :
                 job[p].after[f] = Wanted(b, job[p].now)[f]
            /\ files.harness = "workspace" /\ files'.harness = "workspace"
            /\ tree' = tree
            /\ \E f \in todo : /\ todo' = todo \ {f}
                               /\ \A g \in Field \ {f} : files'[g] = files[g]
<1> DEFINE b == job[p].before
           T == ReconcileTargets(b)
<1>1. PICK f \in Field : Write(p, f)
  BY WhoWrites DEF IInv
<1>2. /\ \A g \in Field : files'[g] = IF g = f THEN job[p].after[f] ELSE files[g]
      /\ job[p].stage = "bound" /\ f \in todo /\ f \in job[p].targets
      /\ todo' = todo \ {f} /\ todo \subseteq job[p].targets /\ writer # Nobody
  BY <1>1, Written DEF IInv, PhaseInv, WriterOK
<1>3. /\ b \in Contents /\ b.profile \in Tree /\ PlanApproved(b) /\ job[p].now \in Time
      /\ job[p].bound = Field /\ job[p].targets = T
      /\ job[p].after = Reconciling(b, job[p].now)
  BY <1>2 DEF IInv, TypeOK, Job, Fits, Source, Reconciling
<1>4. /\ T \subseteq Field /\ "harness" \notin T
  BY DEF ReconcileTargets, Derivable, Derived, Governed, Field, Registered
<1> HIDE DEF b, T
<1>5. \A g \in T \ {"registry"} : job[p].after[g] = Wanted(b, job[p].now)[g]
  BY <1>3, <1>4 DEF Reconciling, T
<1>6. /\ \A g \in T \ todo : files[g] = job[p].after[g]
      /\ \A g \in Field \ (T \ todo) : files[g] = b[g]
  BY <1>2, <1>3 DEF IInv, ReconcileWrites, b
<1>7. files.harness = "workspace" /\ files'.harness = "workspace"
  <2>1. files.harness # Absent
    BY DEF IInv, PhaseInv, Untouched
  <2>2. files'.harness = files.harness
    BY <1>2, <1>3, <1>4 DEF Field
  <2> QED BY <2>1, <2>2 DEF IInv, TypeOK, Contents, Maybe
<1>8. tree' = tree
  BY <1>1 DEF Write
<1>9. \A g \in Field \ T : files[g] = b[g] /\ files'[g] = b[g]
  BY <1>2, <1>3, <1>6
<1>10. \A g \in todo : files[g] = b[g]
  BY <1>2, <1>3, <1>4, <1>6
<1>11. \A g \in T \ (todo' \union {"registry"}) : files'[g] = Wanted(b, job[p].now)[g]
  BY <1>2, <1>4, <1>5, <1>6
<1> QED BY <1>2, <1>3, <1>4, <1>5, <1>7, <1>8, <1>9, <1>10, <1>11 DEF b, T
\* What diff and doctor find of the files that a reconcile of b has left.
LEMMA Settled ==
  ASSUME NEW b \in Contents, NEW c \in Contents, NEW now \in Time, NEW s \in Tree,
         b.profile \in Tree, PlanApproved(b), c.harness = "workspace",
         RolesSane(c.roles),
         \A f \in Field \ ReconcileTargets(b) : c[f] = b[f],
         \A f \in ReconcileTargets(b) \ {"registry"} : c[f] = Wanted(b, now)[f],
         NEW t \in Time
  PROVE  /\ Drift(c, s, t) <=> (c.profile # s \/ t # now)
         /\ DoctorAccepts(c, s, t) <=>
              /\ c.profile = s
              /\ c.plan = "governed" => t = now /\ c.work = Absent
<1> DEFINE D == Desired(OnFile(b), b.claims, now)
<1>1. /\ c.profile = b.profile /\ c.plan = b.plan /\ c.approval = b.approval
      /\ c.claims = b.claims /\ c.events = b.events
  BY DEF ReconcileTargets, Derivable, Derived, Governed, Field, Registered
<1>2. PlanApproved(c) /\ c.plan \in Plan /\ c.plan # "proposed"
  BY <1>1 DEF PlanApproved, Plan
<1>3. Derivable(c) = Derivable(b) /\ Derivable(b) \subseteq ReconcileTargets(b) \ {"registry"}
      /\ Derivable(c) = Derived \union (IF c.plan = "governed" THEN Governed ELSE {})
  BY <1>1, <1>2 DEF Derivable, ReconcileTargets, PlanApproved, Derived, Governed
<1>4. D \in RolesOnFile
  BY OnFileType, StabilisedType DEF Desired, RolesOnFile
<1>5. OnFile(b) \in RolesOnFile
  BY OnFileType
<1>6. Desired(D, c.claims, t) = D
  BY <1>1, <1>5, DesiredOnce
<1> HIDE DEF D
<1>7. /\ c.roles = [profile |-> b.profile, at |-> now, roles |-> D]
      /\ c.reconciliation \in Reconciliation
  <2>1. {"roles", "reconciliation"} \subseteq ReconcileTargets(b) \ {"registry"}
    BY <1>3 DEF Derived
  <2>2. Reconciled(OnFile(b), b.claims) \in Reconciliation
    BY DEF Reconciled, Reconciliation
  <2> QED BY <2>1, <2>2 DEF Wanted, D
<1>8. c.roles \in RolesFile /\ OnFile(c) = D
  BY <1>4, <1>7 DEF RolesFile, OnFile
<1>9. Wanted(c, t).roles = [profile |-> b.profile, at |-> t, roles |-> D]
  BY <1>1, <1>6, <1>8 DEF Wanted
<1>10. c.roles = Wanted(c, t).roles <=> t = now
  BY <1>7, <1>9
<1>11. c.plan = "governed" =>
         /\ c.outputs = "empty" /\ Wanted(c, t).outputs = "empty"
         /\ c.handoff = [at |-> now, events |-> c.events]
         /\ Wanted(c, t).handoff = [at |-> t, events |-> c.events]
  BY <1>1, <1>3 DEF Wanted, Governed
<1>12. Drift(c, s, t) <=> (c.profile # s \/ t # now)
  BY <1>2, <1>3, <1>10, <1>11 DEF Drift, Derived, Governed
<1>13. ASSUME NEW r \in Role, c.roles.roles[r] # Absent PROVE Accepted(c.roles.roles[r])
  <2> DEFINE role == c.roles.roles[r]
  <2>1. RoleSane(role)
    BY <1>8, <1>13 DEF RolesSane
  <2>2. role.state = "proposed" /\ role.contract = "proposed"
    BY <1>7, <1>13 DEF D, Desired, Stabilised, Proposed
  <2>3. role \in RoleRecord
    BY <1>8, <1>13 DEF RolesFile, RolesOnFile
  <2> HIDE DEF role
  <2>4. Len(role.history) = 1 /\ role.history[1].from = "none"
    BY <2>1, <2>2 DEF RoleSane
  <2>5. DOMAIN role.history = {1}
    BY <2>3, <2>4 DEF RoleRecord
  <2>6. Accepted(role)
    BY <2>2, <2>4, <2>5 DEF Accepted
  <2> QED BY <2>6 DEF role
<1>14. Complete(c)
  BY <1>1, <1>2 DEF Complete
<1>15. c.plan = "governed" => (OutputsAccepted(c) <=> c.work = Absent)
  BY <1>11 DEF OutputsAccepted
<1>16. DoctorAccepts(c, s, t) <=>
         /\ c.profile = s
         /\ c.plan = "governed" => t = now /\ c.work = Absent
  BY <1>2, <1>7, <1>8, <1>11, <1>13, <1>14, <1>15 DEF DoctorAccepts
<1> QED BY <1>12, <1>16

\* What a reconcile settles, and what it does not.
THEOREM SettlingReconcile == Spec => ReconcileSettles
<1>1. ASSUME IInv, TypeOK', PhaseInv', [Next]_vars, NEW p \in Process, Finishes(p),
             ~ job[p].torn, "roles" \in job[p].targets, NEW t \in Time
      PROVE  /\ Drift(files', tree', t)
                  <=> (files'.profile # tree' \/ t # job[p].now)
             /\ DoctorAccepts(files', tree', t)
                  <=> /\ files'.profile = tree'
                      /\ files'.plan = "governed" =>
                           t = job[p].now /\ files'.work = Absent
  <2> DEFINE b == job[p].before
  <2>1. /\ b \in Contents /\ b.profile \in Tree /\ PlanApproved(b)
        /\ job[p].now \in Time /\ files'.harness = "workspace"
        /\ \A f \in Field \ ReconcileTargets(b) : files'[f] = b[f]
        /\ \A f \in ReconcileTargets(b) \ {"registry"} :
             files'[f] = Wanted(b, job[p].now)[f]
    BY <1>1, InTheBatch DEF Finishes
  <2>2. files' \in Contents /\ tree' \in Tree /\ RolesSane(files'.roles)
    BY <1>1 DEF TypeOK, PhaseInv, Sane
  <2> HIDE DEF b
  <2> QED BY <2>1, <2>2, Settled
<1>2. IInv /\ TypeOK' /\ PhaseInv' /\ [Next]_vars =>
        [\A p \in Process :
           /\ Finishes(p) /\ ~ job[p].torn /\ "roles" \in job[p].targets
           => \A t \in Time :
                /\ Drift(files', tree', t)
                     <=> (files'.profile # tree' \/ t # job[p].now)
                /\ DoctorAccepts(files', tree', t)
                     <=> /\ files'.profile = tree'
                         /\ files'.plan = "governed" =>
                              t = job[p].now /\ files'.work = Absent]_vars
  BY <1>1
<1>3. IInv => TypeOK /\ PhaseInv
  BY DEF IInv
<1> QED BY <1>2, <1>3, Invariant, PTL DEF Spec, ReconcileSettles

\* What the report of a reconcile says of each role.
LEMMA Reported ==
  ASSUME NEW b \in Contents, NEW now \in Time, NEW r \in Role, RolesSane(b.roles)
  PROVE  LET old == OnFile(b)[r]
             new == Wanted(b, now).roles.roles[r]
             report == Wanted(b, now).reconciliation
         IN /\ old = Absent /\ new # Absent => r \in report.additions
            /\ old # Absent /\ new = Absent => b.claims[r] # "none"
            /\ old # Absent /\ new # Absent =>
                 \/ r \in report.drift
                 \/ new.state = old.state /\ new.history = old.history
<1> DEFINE old == OnFile(b)[r]
<1>1. old \in RoleRecord \union {Absent} /\ (old # Absent => RoleSane(old))
  BY OnFileType DEF RolesOnFile, OnFile, RolesSane
<1>2. Stabilised(old, now) # Absent
  BY <1>1, StabilisedPresent
<1>3. Wanted(b, now).roles.roles[r] =
        IF b.claims[r] = "none" THEN Stabilised(old, now) ELSE Absent
  BY DEF Wanted, Desired
<1>4. Wanted(b, now).reconciliation = Reconciled(OnFile(b), b.claims)
  BY DEF Wanted
<1>5. CASE old # Absent /\ b.claims[r] = "none" /\ old.state = "proposed"
  <2>1. Stabilised(old, now).state = old.state
        /\ Stabilised(old, now).history = old.history
    BY <1>1, <1>5 DEF RoleSane, Stabilised
  <2> QED BY <1>2, <1>3, <1>5, <2>1
<1>6. CASE old # Absent /\ b.claims[r] = "none" /\ old.state # "proposed"
  BY <1>2, <1>3, <1>4, <1>6 DEF Reconciled
<1>7. CASE old = Absent \/ b.claims[r] # "none"
  BY <1>2, <1>3, <1>4, <1>7 DEF Reconciled
<1> QED BY <1>5, <1>6, <1>7

\* A reconcile replaces the state or the history of no role without reporting it.
THEOREM ReportedRoleChanges == Spec => RoleChangesAreReported
<1>1. ASSUME IInv, [Next]_vars, NEW p \in Process, NEW r \in Role,
             writer = p, job[p].kind = "reconcile", ~ job[p].torn,
             files'.roles # files.roles, files'.roles \in RolesFile
      PROVE  LET old == OnFile(files)[r]
                 new == files'.roles.roles[r]
                 report == job[p].after.reconciliation
             IN /\ old = Absent /\ new # Absent => r \in report.additions
                /\ old # Absent /\ new = Absent => files.claims[r] # "none"
                /\ old # Absent /\ new # Absent =>
                     \/ r \in report.drift
                     \/ new.state = old.state /\ new.history = old.history
  <2> DEFINE b == job[p].before
  <2>1. PICK f \in Field : Write(p, f)
    BY <1>1, WhoWrites DEF IInv
  <2>2. f = "roles" /\ "roles" \in job[p].targets /\ "roles" \in todo
    BY <1>1, <2>1, Written DEF IInv, Field, Registered, Derived
  <2>3. /\ b \in Contents /\ job[p].now \in Time /\ PlanApproved(b)
        /\ files.roles = b.roles
        /\ \A g \in Field \ ReconcileTargets(b) : files[g] = b[g]
        /\ \A g \in ReconcileTargets(b) \ {"registry"} :
             job[p].after[g] = Wanted(b, job[p].now)[g]
    BY <1>1, <2>2, InTheBatch
  <2>4. {"roles", "reconciliation"} \subseteq ReconcileTargets(b) \ {"registry"}
        /\ "claims" \in Field \ ReconcileTargets(b)
    BY <2>3 DEF ReconcileTargets, Derivable, Derived, Governed, Field, Registered
  <2>5. /\ files'.roles = Wanted(b, job[p].now).roles
        /\ job[p].after.reconciliation = Wanted(b, job[p].now).reconciliation
        /\ files.claims = b.claims
    BY <1>1, <2>1, <2>2, <2>3, <2>4, Written DEF IInv
  <2>6. OnFile(files) = OnFile(b) /\ RolesSane(b.roles)
    BY <1>1, <2>3 DEF OnFile, IInv, PhaseInv, Sane
  <2> HIDE DEF b
  <2> QED BY <2>3, <2>5, <2>6, Reported
<1>2. IInv /\ [Next]_vars =>
        [\A p \in Process, r \in Role :
           /\ writer = p /\ job[p].kind = "reconcile" /\ ~ job[p].torn
           /\ files'.roles # files.roles /\ files'.roles \in RolesFile
           => LET old == OnFile(files)[r]
                  new == files'.roles.roles[r]
                  report == job[p].after.reconciliation
              IN /\ old = Absent /\ new # Absent => r \in report.additions
                 /\ old # Absent /\ new = Absent => files.claims[r] # "none"
                 /\ old # Absent /\ new # Absent =>
                      \/ r \in report.drift
                      \/ new.state = old.state /\ new.history = old.history]_vars
  BY <1>1
<1> QED BY <1>2, Invariant, PTL DEF Spec, RoleChangesAreReported
=============================================================================

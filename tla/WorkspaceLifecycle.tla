-------------------------- MODULE WorkspaceLifecycle --------------------------
(***************************************************************************)
(* core/lifecycle.py: the life of a workspace, from init through the user's *)
(* approval of the Plan, reconciles, upgrades and submissions to retire.    *)
(*                                                                         *)
(* Each writing command reads files and proposes a batch of writes, with   *)
(* the fingerprints of what must not change until it is applied.  A person *)
(* approves it (ManifestApply has that), and it is applied under the write *)
(* lock, file by file, by a process that may be killed at any point.  No   *)
(* reader takes the lock: proposals are made of what another command has   *)
(* half written.  diff, doctor and status are functions of the files.      *)
(*                                                                         *)
(* Files that are always written together and alike are one file here:     *)
(* profile with unresolved and authority; roles with context routes and    *)
(* adapter state; report with role-reconciliation.  The domain pack is that *)
(* of software: outputs are the files derived for it, work what a          *)
(* submission adds to them (review, approval, task), events the ledgers of *)
(* artifacts and evidence, handoff the H6 views.  A fingerprint is what it *)
(* is taken of.  Rollbacks and edits in the middle of a batch are left to  *)
(* ManifestApply and RetireGenerated; appends, evaluations and releases to *)
(* EventLedger and SoftwareWorkflow.                                       *)
(***************************************************************************)
EXTENDS Roles, FiniteSets

CONSTANTS Process, Nobody,
          Tree,        \* states of the user's own files: source fingerprints
          MaxHistory,  \* bound on the length of a role's history
          MaxSteps     \* bound on commands and the user's edits together

Plan == {"proposed", "approved", "governed"}

VARIABLES files,   \* the metadata directory
          tree,    \* the user's own files
          job,     \* what each process is about to write
          writer,  \* who holds the write lock
          todo,    \* what it has still to write
          astray,  \* registered files that need not be as registered
          steps    \* how many commands and edits there have been

vars == <<files, tree, job, writer, todo, astray, steps>>

Derived == {"roles", "reconciliation"}
Governed == {"outputs", "handoff"}
Registered == {"profile", "plan", "report"} \union Derived \union Governed
Field == Registered \union {"harness", "registry", "approval", "claims",
                            "events", "work"}

RolesOnFile == [Role -> RoleRecord \union {Absent}]
RolesFile == [profile : Tree, at : Time, roles : RolesOnFile]

Maybe(S) == S \union {Absent}
HandoffFile == [at : Time, events : Maybe({"submitted"})]

\* A Plan is as proposed, or approved, or approved with a domain pack and H6
\* governance.  The approval is of a Plan; claims are those of user overlays.
\* Report and handoff carry a time; outputs are empty or of submitted work, and
\* its events are in the ledgers or, in a view of them, were.
Listing ==
  [profile : Maybe(Tree), plan : Maybe(Plan), report : Maybe(Time),
   roles : Maybe(RolesFile), reconciliation : Maybe(Reconciliation),
   outputs : Maybe({"empty", "submitted"}), handoff : Maybe(HandoffFile)]

Contents ==
  [profile : Maybe(Tree), plan : Maybe(Plan), report : Maybe(Time),
   roles : Maybe(RolesFile), reconciliation : Maybe(Reconciliation),
   outputs : Maybe({"empty", "submitted"}), handoff : Maybe(HandoffFile),
   events : Maybe({"submitted"}), work : Maybe({"submitted"}),
   harness : Maybe({"workspace"}), registry : Maybe(Listing),
   approval : Maybe(Plan), claims : Maybe([Role -> Claim])]

ASSUME LifecycleAssumption ==
  /\ Nobody \notin Process
  /\ Absent \notin Tree \union Time \union Plan
  /\ Absent \notin {"workspace", "empty", "submitted"}
  /\ Absent \notin Listing \union RolesFile \union HandoffFile
  /\ MaxSteps \in Nat

Nothing == [f \in Field |-> Absent]

\* A proposal: read (its contents are settled), then bound (so is what must not
\* change).  torn: something was written between the two.
Job == [kind : {"none", "init", "reconcile", "submit", "retire"},
        stage : {"idle", "read", "bound"}, now : Maybe(Time),
        targets : SUBSET Field, bound : SUBSET Field,
        after : Contents, before : Contents, tree : Maybe(Tree), torn : BOOLEAN]

Idle == [kind |-> "none", stage |-> "idle", now |-> Absent,
         targets |-> {}, bound |-> {}, after |-> Nothing, before |-> Nothing,
         tree |-> Absent, torn |-> FALSE]

TypeOK ==
  /\ files \in Contents
  /\ tree \in Tree
  /\ job \in [Process -> Job]
  /\ writer \in Process \union {Nobody}
  /\ todo \subseteq Field
  /\ astray \subseteq Registered
  /\ steps \in 0 .. MaxSteps

Init ==
  /\ files = [Nothing EXCEPT !.claims = [r \in Role |-> "none"]]
  /\ tree \in Tree
  /\ job = [p \in Process |-> Idle]
  /\ writer = Nobody
  /\ todo = {}
  /\ astray = {}
  /\ steps = 0

-----------------------------------------------------------------------------
(* What the commands make of the files. *)

\* _complete_existing
Complete(f) ==
  f.harness = "workspace" /\ f.profile \in Tree /\ f.plan \in Plan

HasRegistry(f) == f.registry \in Listing

\* The canonical approval is of the Plan as it is (_h3_bundle_for_root).
PlanApproved(f) == f.plan \in {"approved", "governed"} /\ f.approval = f.plan

OnFile(f) ==
  IF f.roles \in RolesFile THEN f.roles.roles ELSE [r \in Role |-> Absent]

\* What a reconcile writes for a workspace whose Plan is approved.
Wanted(f, now) ==
  [report |-> now,
   roles |-> [profile |-> f.profile, at |-> now,
              roles |-> Desired(OnFile(f), f.claims, now)],
   reconciliation |-> Reconciled(OnFile(f), f.claims),
   outputs |-> "empty",
   handoff |-> [at |-> now, events |-> f.events]]

\* The files it writes besides its report.
Derivable(f) ==
  IF ~ PlanApproved(f) THEN {}
  ELSE Derived \union (IF f.plan = "governed" THEN Governed ELSE {})

\* diff_workspace.  The report of role-reconciliation is never drift.
Drift(f, t, now) ==
  \/ f.profile # t
  \/ f.plan # "proposed" /\ ~ PlanApproved(f)
  \/ \E g \in Derivable(f) \ {"reconciliation"} : f[g] # Wanted(f, now)[g]

\* The outputs are those derived; or there is approved work, and they are its
\* own, with its events in the ledgers.
OutputsAccepted(f) ==
  IF f.work = Absent THEN f.outputs = "empty"
  ELSE f.outputs = "submitted" /\ f.events = "submitted"

\* doctor_workspace.  That of a Plan not approved ends at the profile, and that
\* of roles does not look at their time or profile.
DoctorAccepts(f, t, now) ==
  /\ Complete(f)
  /\ f.profile = t
  /\ f.plan # "proposed" =>
       /\ PlanApproved(f)
       /\ f.roles \in RolesFile /\ f.reconciliation \in Reconciliation
       /\ \A r \in Role : f.roles.roles[r] = Absent \/ Accepted(f.roles.roles[r])
       /\ f.plan = "governed" =>
            /\ OutputsAccepted(f)
            /\ f.handoff = [at |-> now, events |-> f.events]

-----------------------------------------------------------------------------
(* Proposals. *)

Propose(p, kind, now, targets, bound, after) ==
  /\ job[p].stage = "idle" /\ steps < MaxSteps
  /\ job' = [job EXCEPT ![p] =
               [Idle EXCEPT !.kind = kind, !.stage = "read", !.now = now,
                            !.targets = targets, !.bound = bound, !.after = after]]
  /\ steps' = steps + 1
  /\ UNCHANGED <<files, tree, writer, todo, astray>>

InitTargets == {"harness", "profile", "plan", "registry"}

\* build_init_proposal: of a complete workspace it proposes nothing, and all it
\* writes must not exist yet.
BuildInit(p) ==
  /\ ~ Complete(files)
  /\ Propose(p, "init", Absent, InitTargets, InitTargets,
       [Nothing EXCEPT !.harness = "workspace", !.profile = tree,
                       !.plan = "proposed",
                       !.registry = [[f \in Registered |-> Absent] EXCEPT
                                       !.profile = tree, !.plan = "proposed"]])

ReconcileTargets(f) == {"report", "registry"} \union Derivable(f)

\* Faulty variant: the registry is of whatever is there.
RelistAll(f, now) ==
  [g \in Registered |->
     IF g \in ReconcileTargets(f) THEN Wanted(f, now)[g] ELSE f[g]]

\* The registry that is on file, with entries for what is written.
Relisted(f, now) ==
  [g \in Registered |->
     IF g \in ReconcileTargets(f) THEN Wanted(f, now)[g] ELSE f.registry[g]]

\* Faulty variant: the metadata are never part of the snapshot.
TargetsOnly(f) == ReconcileTargets(f)

\* The snapshot a manifest is bound to leaves the metadata out while the Plan is
\* only proposed; what the batch replaces is bound in any case.
Snapshot(f) == IF f.plan = "proposed" THEN ReconcileTargets(f) ELSE Field

\* reconcile_workspace
BuildReconcile(p, now) ==
  /\ Complete(files) /\ HasRegistry(files)
  /\ Propose(p, "reconcile", now, ReconcileTargets(files), Snapshot(files),
       [g \in Field |->
          IF g \notin ReconcileTargets(files) THEN Absent
          ELSE IF g = "registry" THEN Relisted(files, now)
          ELSE Wanted(files, now)[g]])

\* upgrade_workspace is a reconcile if there is drift.
BuildUpgrade(p, now) == Drift(files, tree, now) /\ BuildReconcile(p, now)

SubmitTargets == {"events", "outputs", "work"}

SubmittedWork == [f \in Field |-> IF f \in SubmitTargets THEN "submitted" ELSE Absent]

\* submit_software_workflow: ledgers, outputs and work, but not the registry.
BuildSubmit(p) ==
  /\ Complete(files) /\ PlanApproved(files)
  /\ files.plan = "governed" /\ files.outputs \in {"empty", "submitted"}
  /\ Propose(p, "submit", Absent, SubmitTargets, SubmitTargets, SubmittedWork)

\* Faulty variant: init may replace what it finds.
BeforeAny(kind, bound) == [f \in Field |-> IF f \in bound THEN files[f] ELSE Absent]

\* What must still be there when the batch begins; for init, nothing.
Before(kind, bound) ==
  [f \in Field |-> IF kind # "init" /\ f \in bound THEN files[f] ELSE Absent]

\* build_manifest takes the fingerprints of what is there by now.
Bind(p) ==
  /\ job[p].stage = "read"
  /\ job' = [job EXCEPT ![p] = [job[p] EXCEPT
       !.stage = "bound", !.tree = tree,
       !.before = Before(job[p].kind, job[p].bound)]]
  /\ UNCHANGED <<files, tree, writer, todo, astray, steps>>

Listed(f) == {g \in Registered : f.registry[g] # Absent}

\* retire_generated, which takes only what is just as registered.
BuildRetire(p) ==
  /\ job[p].stage = "idle" /\ steps < MaxSteps
  /\ HasRegistry(files)
  /\ \A f \in Listed(files) : files[f] = files.registry[f]
  /\ job' = [job EXCEPT ![p] =
       [Idle EXCEPT !.kind = "retire", !.stage = "bound", !.tree = tree,
                    !.targets = Listed(files) \union {"registry"},
                    !.bound = Listed(files),
                    !.before = Before("retire", Listed(files))]]
  /\ steps' = steps + 1
  /\ UNCHANGED <<files, tree, writer, todo, astray>>

-----------------------------------------------------------------------------
(* Batches, under the write lock. *)

\* The approval of a manifest is checked before; ManifestApply has that.
Enter(p) ==
  /\ job[p].stage = "bound" /\ writer = Nobody
  /\ tree = job[p].tree
  /\ \A f \in job[p].bound : files[f] = job[p].before[f]
  /\ writer' = p
  /\ todo' = job[p].targets
  /\ UNCHANGED <<files, tree, job, astray, steps>>

\* Whoever is still reading gets a part of its input from before the change.
Tear == [q \in Process |->
           IF job[q].stage = "read" THEN [job[q] EXCEPT !.torn = TRUE] ELSE job[q]]

Position ==
  [harness |-> 1, profile |-> 2, plan |-> 3, report |-> 4, roles |-> 5,
   reconciliation |-> 6, events |-> 7, outputs |-> 8, work |-> 9,
   handoff |-> 10, registry |-> 11]

\* Faulty variant: a manifest writes the registry first.
RegistryFirst(kind, f) ==
  \A g \in todo : Position[f] % 11 <= Position[g] % 11

\* A manifest is written in the order in which it was put together; what a retire
\* deletes, in that of the registry.  The registry itself comes last.
InOrder(kind, f) ==
  \A g \in todo : \/ Position[f] <= Position[g]
                   \/ (kind = "retire" /\ f # "registry")

\* Faulty variant: the registry is taken for one of the files it lists.
AlsoRegistry(j, f) == astray \union {f}

\* The registry is then true of what was written with it; of the rest it says
\* what it said when it was read.
StillAstray(j, f) ==
  IF f # "registry" THEN astray \union ({f} \intersect Registered)
  ELSE (IF j.torn THEN Registered ELSE astray) \ j.targets

\* apply_manifest or the loop of retire_generated: one file.
Write(p, f) ==
  /\ writer = p /\ f \in todo /\ InOrder(job[p].kind, f)
  /\ files' = [files EXCEPT ![f] = job[p].after[f]]
  /\ astray' = StillAstray(job[p], f)
  /\ todo' = todo \ {f}
  /\ IF todo = {f}
       THEN writer' = Nobody /\ job' = [Tear EXCEPT ![p] = Idle]
       ELSE writer' = writer /\ job' = Tear
  /\ UNCHANGED <<tree, steps>>

\* A command is not approved, is refused or fails, or its process is killed: what
\* it has written stays.
Stop(p) ==
  /\ job[p].stage # "idle"
  /\ job' = [job EXCEPT ![p] = Idle]
  /\ IF writer = p THEN writer' = Nobody /\ todo' = {} ELSE UNCHANGED <<writer, todo>>
  /\ UNCHANGED <<files, tree, astray, steps>>

-----------------------------------------------------------------------------
(* The user, who edits metadata only while no batch is being written. *)

ChangeSources ==
  /\ steps < MaxSteps
  /\ \E t \in Tree \ {tree} : tree' = t
  /\ job' = Tear
  /\ steps' = steps + 1
  /\ UNCHANGED <<files, writer, todo, astray>>

Edit(f, v) ==
  /\ writer = Nobody /\ steps < MaxSteps
  /\ files' = [files EXCEPT ![f] = v]
  /\ job' = Tear
  /\ astray' = astray \union ({f} \intersect Registered)
  /\ steps' = steps + 1
  /\ UNCHANGED <<tree, writer, todo>>

EditPlan ==
  /\ files.plan \in Plan
  /\ \E v \in Plan \ {files.plan} : Edit("plan", v)

\* A record of the decision is put beside the Plan it is of.
SignPlan ==
  /\ writer = Nobody
  /\ files.plan \in {"approved", "governed"} /\ files.approval # files.plan
  /\ files' = [files EXCEPT !.approval = files.plan]
  /\ job' = Tear
  /\ UNCHANGED <<tree, writer, todo, astray, steps>>

Overlay == \E c \in [Role -> Claim] \ {files.claims} : Edit("claims", c)

ChangeRole(r, new) ==
  Edit("roles", [files.roles EXCEPT !.roles = [files.roles.roles EXCEPT ![r] = new]])

\* roles.transition_role_state
TransitionRole ==
  /\ files.roles \in RolesFile
  /\ \E r \in Role, now \in Time :
       LET role == files.roles.roles[r]
       IN /\ role # Absent
          /\ Len(role.history) < MaxHistory
          /\ \E to \in ROLE_TRANSITIONS[role.state] :
               ChangeRole(r, Transitioned(role, to, now))

\* approvals_roles.transition_role
RelabelRole ==
  /\ files.roles \in RolesFile
  /\ \E r \in Role :
       LET role == files.roles.roles[r]
       IN /\ role # Absent
          /\ \E to \in RELABELLINGS[role.state] : ChangeRole(r, Relabelled(role, to))

Next ==
  \/ \E p \in Process :
       \/ BuildInit(p) \/ BuildSubmit(p) \/ BuildRetire(p)
       \/ \E now \in Time : BuildReconcile(p, now) \/ BuildUpgrade(p, now)
       \/ Bind(p) \/ Enter(p) \/ Stop(p)
       \/ \E f \in Field : Write(p, f)
  \/ ChangeSources
  \/ EditPlan \/ SignPlan \/ Overlay \/ TransitionRole \/ RelabelRole

Spec == Init /\ [][Next]_vars

-----------------------------------------------------------------------------
(* Properties.  A batch is torn if something was written while its proposal was *)
(* being read; of such a batch little can be said.                         *)

\* The registry is true of every file that was not written without it: nothing
\* but an edit, a submission, an interrupted batch or a torn one leaves it behind,
\* and the reconcile that next writes such a file makes it true again.
RegistryTruth ==
  HasRegistry(files) =>
    \A f \in Registered \ astray : files[f] = files.registry[f]

\* Once its Plan is approved a workspace is never retired, not even by a retire
\* that was proposed before: retire_generated refuses files that were changed,
\* and no reconcile registers the Plan as it has become.
ApprovedIsNeverRetired ==
  [][Complete(files) /\ files.plan # "proposed" => Complete(files')]_vars

\* A reconcile that derives roles has the effect it would have if it were built
\* in the very state in which its batch begins, however long it waited and though
\* it may have read a batch half written: else it is refused, or it is torn.
DerivationIsSerial ==
  [][\A p \in Process :
       /\ writer # p /\ writer' = p /\ job[p].kind = "reconcile"
       /\ ~ job[p].torn /\ "roles" \in job[p].targets
       => /\ PlanApproved(files)
          /\ job[p].targets = ReconcileTargets(files)
          /\ job[p].after.registry = Relisted(files, job[p].now)
          /\ \A g \in job[p].targets \ {"registry"} :
               job[p].after[g] = Wanted(files, job[p].now)[g]]_vars

Finishes(p) == writer = p /\ job[p].kind = "reconcile" /\ files' # files /\ todo' = {}

\* What a reconcile settles, and what it does not: diff finds drift after it at
\* every time but its own, and doctor does if the handoff carries a time; if the
\* user's files are not as at init, both find it as before; and if there is
\* approved work, whose records the reconcile has emptied, doctor does at every
\* time.
ReconcileSettles ==
  [][\A p \in Process :
       /\ Finishes(p) /\ ~ job[p].torn /\ "roles" \in job[p].targets
       => \A t \in Time :
            /\ Drift(files', tree', t)
                 <=> (files'.profile # tree' \/ t # job[p].now)
            /\ DoctorAccepts(files', tree', t)
                 <=> /\ files'.profile = tree'
                     /\ files'.plan = "governed" =>
                          t = job[p].now /\ files'.work = Absent]_vars

\* What a reconcile does to a role is in its report: one it adds, and one whose
\* state or history it replaces; it drops only what an overlay claims.
RoleChangesAreReported ==
  [][\A p \in Process, r \in Role :
       /\ writer = p /\ job[p].kind = "reconcile" /\ ~ job[p].torn
       /\ files'.roles # files.roles /\ files'.roles \in RolesFile
       => LET old == OnFile(files)[r]
              new == files'.roles.roles[r]
              report == job[p].after.reconciliation
          IN /\ old = Absent /\ new # Absent => r \in report.additions
             /\ old # Absent /\ new = Absent => files.claims[r] # "none"
             /\ old # Absent /\ new # Absent =>
                  \/ r \in report.drift
                  \/ new.state = old.state /\ new.history = old.history]_vars

\* doctor's check of the fingerprint finds any state that the history does not
\* end in, although transition_role of approvals_roles and a later one of roles
\* may together leave a gap in it.
AcceptedRoleIsRecorded ==
  files.roles \in RolesFile =>
    \A r \in Role :
      LET role == files.roles.roles[r]
      IN role # Absent /\ role.contract = role.state =>
           role.history # <<>> /\ role.history[Len(role.history)].to = role.state

phase ==
  CASE writer # Nobody /\ job[writer].kind = "init" -> "starting"
    [] ~ (writer # Nobody /\ job[writer].kind = "init") ->
         IF files.harness = Absent THEN "none"
         ELSE IF Complete(files) /\ HasRegistry(files) THEN "ready" ELSE "broken"

Phases == INSTANCE WorkspacePhases

\* A directory becomes a workspace at most once, and one that an init or a retire
\* has broken never becomes one again, by whatever commands.
PhasesRefined == Phases!PhaseSpec
=============================================================================

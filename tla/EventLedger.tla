----------------------------- MODULE EventLedger -----------------------------
(***************************************************************************)
(* core/lifecycle.py: the H6 event ledgers and their views.                *)
(*                                                                         *)
(* append_h6_events adds events to up to three ledger files; reconcile     *)
(* projects the ledgers into generated views, a checkpoint and a handoff   *)
(* (core/evidence.py) by which work is resumed.  Each is a command that    *)
(* reads the files it depends on, builds a manifest, and applies it later, *)
(* in one batch (see ManifestApply), if the files are still what was       *)
(* fingerprinted.  Commands run in several processes, and only applying    *)
(* takes the write lock.                                                   *)
(*                                                                         *)
(* A ledger file is the set of its events; a missing file is an empty set, *)
(* since no file without events is ever written.  An event stands for its  *)
(* whole record, fingerprint included.                                     *)
(***************************************************************************)
EXTENDS Naturals, Sequences

CONSTANTS Process,
          Ledgers,        \* the ledgers, in the order the code takes them
          Event,
          LedgerOf,       \* the ledger an event belongs to
          KeyOf,          \* entity_id, or event_id of an evaluation event
          Evaluations,    \* the ledger of evaluation events
          EvaluationOf,   \* the evaluation an event of that ledger is about
          Consumed,       \* the evaluation events of kind "consumed"
          Calls           \* the sets of events a caller appends at once

Ledger == {Ledgers[i] : i \in DOMAIN Ledgers}

ASSUME LedgerAssumption ==
  /\ Ledgers \in Seq(Ledger)
  /\ \A i, j \in DOMAIN Ledgers : Ledgers[i] = Ledgers[j] => i = j
  /\ LedgerOf \in [Event -> Ledger]
  /\ Evaluations \in Ledger
  /\ Consumed \subseteq Event
  /\ Calls \subseteq SUBSET Event

VARIABLES ledger,     \* ledger[l]: the events in its file
          view,       \* view[l]: the generated ledger view last applied
          pc,         \* where each process is
          at,         \* position in Ledgers of the ledger it is at
          incoming,   \* the events it is to append
          touched,    \* the ledgers its manifest writes
          payload,    \* payload[p][l]: what its manifest writes
          base,       \* base[p][l]: what its manifest fingerprinted
          viewBase,   \* the views its manifest fingerprinted
          torn        \* torn[p]: ledgers that changed after p read them and
                      \* before the fingerprint to protect them was taken

vars == <<ledger, view, pc, at, incoming, touched, payload, base, viewBase,
          torn>>

\* append_h6_events: "read", "bind", "appendable"; reconcile: "look",
\* "projected".
Locations == {"idle", "read", "bind", "appendable", "look", "projected"}

Nothing == [l \in Ledger |-> {}]
Files == [Ledger -> SUBSET Event]

TypeOK ==
  /\ ledger \in Files
  /\ view \in Files
  /\ pc \in [Process -> Locations]
  /\ at \in [Process -> 1..(Len(Ledgers) + 1)]
  /\ incoming \in [Process -> SUBSET Event]
  /\ touched \in [Process -> SUBSET Ledger]
  /\ payload \in [Process -> Files]
  /\ base \in [Process -> Files]
  /\ viewBase \in [Process -> Files]
  /\ torn \in [Process -> SUBSET Ledger]

Init ==
  /\ ledger = Nothing
  /\ view = Nothing
  /\ pc = [p \in Process |-> "idle"]
  /\ at = [p \in Process |-> 1]
  /\ incoming = [p \in Process |-> {}]
  /\ touched = [p \in Process |-> {}]
  /\ payload = [p \in Process |-> Nothing]
  /\ base = [p \in Process |-> Nothing]
  /\ viewBase = [p \in Process |-> Nothing]
  /\ torn = [p \in Process |-> {}]

\* The command ends; what it had in memory is gone.
Forget(p) ==
  /\ pc' = [pc EXCEPT ![p] = "idle"]
  /\ at' = [at EXCEPT ![p] = 1]
  /\ incoming' = [incoming EXCEPT ![p] = {}]
  /\ touched' = [touched EXCEPT ![p] = {}]
  /\ payload' = [payload EXCEPT ![p] = Nothing]
  /\ base' = [base EXCEPT ![p] = Nothing]
  /\ viewBase' = [viewBase EXCEPT ![p] = Nothing]

More(p) == at[p] <= Len(Ledgers)
Here(p) == Ledgers[at[p]]
IncomingHere(p) == {e \in incoming[p] : LedgerOf[e] = Here(p)}

-----------------------------------------------------------------------------
(* append_h6_events                                                        *)

StartAppend(p, events) ==
  /\ pc[p] = "idle"
  /\ pc' = [pc EXCEPT ![p] = "read"]
  /\ incoming' = [incoming EXCEPT ![p] = events]
  /\ UNCHANGED <<ledger, view, at, touched, payload, base, viewBase, torn>>

\* Nothing to add to a ledger that does not exist.
Skip(p) ==
  /\ pc[p] = "read"
  /\ More(p)
  /\ IncomingHere(p) = {} /\ ledger[Here(p)] = {}
  /\ at' = [at EXCEPT ![p] = @ + 1]
  /\ UNCHANGED <<ledger, view, pc, incoming, touched, payload, base, viewBase,
                 torn>>

\* Faulty variant: the records under one key are never compared.
NeverConflicts(p) == FALSE

\* Two records under one key, of the ledger or of the call.
Conflicts(p) ==
  \E e \in IncomingHere(p), f \in ledger[Here(p)] \union IncomingHere(p) :
    KeyOf[e] = KeyOf[f] /\ e # f

\* by_key: an incoming event takes the place of one under the same key.
Merged(p) ==
  {e \in ledger[Here(p)] : \A f \in IncomingHere(p) : KeyOf[e] # KeyOf[f]}
    \union IncomingHere(p)

\* The ledger is read and the new content made of it.
ReadLedger(p) ==
  /\ pc[p] = "read"
  /\ More(p)
  /\ IncomingHere(p) # {} \/ ledger[Here(p)] # {}
  /\ ~Conflicts(p)
  /\ payload' = [payload EXCEPT ![p][Here(p)] = Merged(p)]
  /\ pc' = [pc EXCEPT ![p] = "bind"]
  /\ UNCHANGED <<ledger, view, at, incoming, touched, base, viewBase, torn>>

RefuseConflict(p) ==
  /\ pc[p] = "read"
  /\ More(p)
  /\ Conflicts(p)
  /\ Forget(p)
  /\ torn' = [torn EXCEPT ![p] = {}]
  /\ UNCHANGED <<ledger, view>>

\* The target is read a second time, for expected_before_fingerprint.
Bind(p) ==
  /\ pc[p] = "bind"
  /\ base' = [base EXCEPT ![p][Here(p)] = ledger[Here(p)]]
  /\ touched' = [touched EXCEPT ![p] = @ \union {Here(p)}]
  /\ at' = [at EXCEPT ![p] = @ + 1]
  /\ pc' = [pc EXCEPT ![p] = "read"]
  /\ UNCHANGED <<ledger, view, incoming, payload, viewBase, torn>>

\* build_manifest: its workspace snapshot leaves the metadata directory out,
\* so only the targets are bound.
BuildAppend(p) ==
  /\ pc[p] = "read"
  /\ ~More(p)
  /\ pc' = [pc EXCEPT ![p] = "appendable"]
  /\ UNCHANGED <<ledger, view, at, incoming, touched, payload, base, viewBase,
                 torn>>

\* Process q has read ledger l and its fingerprint is still to be taken.
Unprotected(q, l) ==
  \/ pc[q] = "bind" /\ l = Here(q)
  \/ pc[q] = "look" /\ \E i \in 1..(at[q] - 1) : Ledgers[i] = l

\* apply_manifest: every target is as it was bound; all are replaced.
ApplyAppend(p) ==
  /\ pc[p] = "appendable"
  /\ \A l \in touched[p] : ledger[l] = base[p][l]
  /\ ledger' = [l \in Ledger |->
                  IF l \in touched[p] THEN payload[p][l] ELSE ledger[l]]
  /\ torn' = [q \in Process |->
                IF q = p THEN {}
                ELSE torn[q] \union
                     {l \in touched[p] :
                        Unprotected(q, l) /\ payload[p][l] # ledger[l]}]
  /\ Forget(p)
  /\ UNCHANGED view

-----------------------------------------------------------------------------
(* reconcile                                                               *)

\* Faulty variant: a registration is not outweighed.
ProjectionOfAll(l, events) == events

\* _h6_bundle: artifacts and evidence as they are, of each evaluation its
\* latest event, consumption outweighing registration.
Projection(l, events) ==
  IF l # Evaluations THEN events
  ELSE {e \in events :
          e \in Consumed \/ \A f \in events \intersect Consumed :
                              EvaluationOf[e] # EvaluationOf[f]}

Projected(files) == [l \in Ledger |-> Projection(l, files[l])]

\* make_checkpoint, of the evaluations in the view; the handoff that is written
\* with it carries it whole.
Checkpoint(files) ==
  LET about(events) == {EvaluationOf[e] : e \in events}
  IN [completed  |-> about(files[Evaluations] \intersect Consumed),
      incomplete |-> about(files[Evaluations] \ Consumed)]

\* recover_handoff, of a handoff, the checkpoint on file and the events that have
\* been recorded: the handoff is not stale, all it leaves open is consumed.
Recovers(handoff, checkpoint, events) ==
  /\ handoff = checkpoint
  /\ \A x \in checkpoint.incomplete :
       \E e \in events \intersect Consumed : EvaluationOf[e] = x

StartReconcile(p) ==
  /\ pc[p] = "idle"
  /\ pc' = [pc EXCEPT ![p] = "look"]
  /\ UNCHANGED <<ledger, view, at, incoming, touched, payload, base, viewBase,
                 torn>>

\* _read_h6_events, one ledger after the other.
Look(p) ==
  /\ pc[p] = "look"
  /\ More(p)
  /\ payload' = [payload EXCEPT ![p][Here(p)] =
                   Projection(Here(p), ledger[Here(p)])]
  /\ at' = [at EXCEPT ![p] = @ + 1]
  /\ UNCHANGED <<ledger, view, pc, incoming, touched, base, viewBase, torn>>

\* add_json_write binds the views, and build_manifest fingerprints the
\* workspace with its metadata directory, event ledgers included.
BuildReconcile(p) ==
  /\ pc[p] = "look"
  /\ ~More(p)
  /\ base' = [base EXCEPT ![p] = ledger]
  /\ viewBase' = [viewBase EXCEPT ![p] = view]
  /\ pc' = [pc EXCEPT ![p] = "projected"]
  /\ UNCHANGED <<ledger, view, at, incoming, touched, payload, torn>>

\* Faulty variant: the snapshot leaves the metadata directory out here, too.
ApplyReconcileBindsViews(p) ==
  /\ pc[p] = "projected"
  /\ view = viewBase[p]
  /\ view' = payload[p]
  /\ torn' = [torn EXCEPT ![p] = {}]
  /\ Forget(p)
  /\ UNCHANGED ledger

ApplyReconcile(p) ==
  /\ pc[p] = "projected"
  /\ ledger = base[p] /\ view = viewBase[p]
  /\ view' = payload[p]
  /\ torn' = [torn EXCEPT ![p] = {}]
  /\ Forget(p)
  /\ UNCHANGED ledger

-----------------------------------------------------------------------------
\* The command ends without effect: its manifest is not approved or no longer
\* fits the workspace, the dry run is discarded, the process is killed.
GiveUp(p) ==
  /\ pc[p] # "idle"
  /\ Forget(p)
  /\ torn' = [torn EXCEPT ![p] = {}]
  /\ UNCHANGED <<ledger, view>>

ProcessNext(p) ==
  \/ \E events \in Calls : StartAppend(p, events)
  \/ Skip(p) \/ ReadLedger(p) \/ RefuseConflict(p) \/ Bind(p)
  \/ BuildAppend(p) \/ ApplyAppend(p)
  \/ StartReconcile(p) \/ Look(p) \/ BuildReconcile(p) \/ ApplyReconcile(p)
  \/ GiveUp(p)

Next == \E p \in Process : ProcessNext(p)

Spec == Init /\ [][Next]_vars

-----------------------------------------------------------------------------
(* Properties                                                              *)

\* Ledgers are changed by appends only, and an append that takes effect adds its
\* events, all of them in one step, to what other commands have put on file by
\* then.  So an event once appended stays, stale manifests and conflicting records
\* notwithstanding.  The exception is a ledger that changed between being read
\* and being fingerprinted.
AppendsAddTheirEvents ==
  [][ledger' # ledger =>
       \E p \in Process :
         /\ pc[p] = "appendable" /\ pc'[p] = "idle"
         /\ \A l \in Ledger \ torn[p] :
              ledger'[l] =
                ledger[l] \union {e \in incoming[p] : LedgerOf[e] = l}]_vars

\* "appends H6 events without rewriting history": without the exception.
HistoryOnlyGrows ==
  [][\A l \in Ledger : ledger[l] \subseteq ledger'[l]]_vars

\* The views a reconcile applies are the projections of the ledgers at that
\* moment, all of them together, except of a ledger that was appended to between
\* its being read and the workspace being fingerprinted.
ViewsAreCurrent ==
  [][\A p \in Process :
       pc[p] = "projected" /\ pc'[p] = "idle" /\ view' # view =>
         \A l \in Ledger \ torn[p] : view'[l] = Projected(ledger)[l]]_vars

\* Once it may be resumed a handoff may be resumed until a reconcile replaces it
\* by one that leaves none of its evaluations open: what recover_handoff and
\* _h6_bundle take for the latest event of an evaluation agrees, unless a ledger
\* changed between being read and being fingerprinted.
ResumableUntilReconciled ==
  [][LET old == Checkpoint(view)
         new == Checkpoint(view')
     IN Recovers(old, old, ledger[Evaluations]) =>
          \/ Recovers(old, new, ledger'[Evaluations])
          \/ old.incomplete \intersect new.incomplete = {}
          \/ \E p \in Process : /\ pc[p] \in {"appendable", "projected"}
                                /\ pc'[p] = "idle" /\ Evaluations \in torn[p]]_vars
=============================================================================

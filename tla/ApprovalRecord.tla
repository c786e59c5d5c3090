---------------------------- MODULE ApprovalRecord ----------------------------
(***************************************************************************)
(* What the content workflow promises to a reader of the records: one      *)
(* approval is recorded, once and valid; one release for it, once; and the *)
(* approval ceases to be valid for the evidence it cites, or becomes so    *)
(* again, only when a reconcile is applied.                                *)
(***************************************************************************)
CONSTANTS Process, Approval, Release, ReleaseFor, None

VARIABLES work,         \* the approval that the delivery record is of
          release,      \* the release on file
          released,     \* what the delivery record says of a release
          valid,        \* the approval is valid for the evidence it cites
          reconciling,  \* processes with a reconcile ready to be applied
          spoilt        \* a torn submission was applied: nothing is promised

record == <<work, release, released>>
recordVars == <<work, release, released, valid, reconciling, spoilt>>

RecordInit ==
  /\ work = None /\ release = None
  /\ released = FALSE /\ valid = FALSE /\ spoilt = FALSE
  /\ reconciling = {}

\* A submission, with a release or without.
Record ==
  /\ work = None
  /\ work' \in Approval
  /\ release' \in {None} \union {r \in Release : ReleaseFor[r] = work'}
  /\ released' = (release' # None)
  /\ valid' = TRUE
  /\ UNCHANGED reconciling

AddRelease ==
  /\ work # None /\ release = None
  /\ release' \in {r \in Release : ReleaseFor[r] = work}
  /\ released' = TRUE
  /\ UNCHANGED <<work, valid, reconciling>>

Prepare(p) ==
  /\ reconciling' = reconciling \union {p}
  /\ UNCHANGED <<record, valid>>

\* The reconcile is applied, or given up.
Settle(p) ==
  /\ p \in reconciling
  /\ reconciling' = reconciling \ {p}
  /\ valid' \in IF work = None THEN {FALSE} ELSE BOOLEAN
  /\ UNCHANGED record

Spoil == spoilt' = TRUE

RecordNext ==
  \/ Spoil
  \/ /\ ~spoilt'
     /\ \/ Record
        \/ AddRelease
        \/ \E p \in Process : Prepare(p) \/ Settle(p)

RecordSpec == RecordInit /\ [][RecordNext]_recordVars
=============================================================================

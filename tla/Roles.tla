-------------------------------- MODULE Roles --------------------------------
(***************************************************************************)
(* core/roles.py, with transition_role of core/approvals_roles.py: role    *)
(* contracts, their transitions, and the roles a reconcile derives.        *)
(*                                                                         *)
(* A contract's wording never changes, so of its fingerprint only the      *)
(* lifecycle state it was taken of is kept (contract).  created_at is the  *)
(* time of the first entry of the history.  Both roles are proposed for    *)
(* every profile: discovery always records the facts the second needs.     *)
(***************************************************************************)
EXTENDS Naturals, Sequences

CONSTANTS Role,     \* the governance roles that are proposed
          Time,     \* values of `now`
          Absent    \* no such role, no such file

RoleState == {"proposed", "active", "merged", "split", "deprecated", "retired"}

\* core/roles.py, which doctor judges histories by.
ROLE_TRANSITIONS ==
  [proposed   |-> {"active", "deprecated", "retired"},
   active     |-> {"merged", "split", "deprecated"},
   merged     |-> {"retired"},
   split      |-> {"retired"},
   deprecated |-> {"retired"},
   retired    |-> {}]

\* The table of the same name in core/approvals_roles.py.
RELABELLINGS ==
  [proposed   |-> {"active", "retired"},
   active     |-> {"merged", "split", "deprecated", "retired"},
   merged     |-> {"retired"},
   split      |-> {"retired"},
   deprecated |-> {"retired", "active"},
   retired    |-> {}]

Transition == [from : RoleState \union {"none"}, to : RoleState, at : Time]
RoleRecord == [state : RoleState, contract : RoleState, history : Seq(Transition)]

ASSUME RolesAssumption == Absent \notin RoleRecord

Proposed(now) ==
  [state |-> "proposed", contract |-> "proposed",
   history |-> <<[from |-> "none", to |-> "proposed", at |-> now]>>]

\* Faulty variant: the history is not written.
TransitionUnrecorded(role, to, now) ==
  [role EXCEPT !.state = to, !.contract = to]

\* transition_role_state
Transitioned(role, to, now) ==
  [state |-> to, contract |-> to,
   history |-> Append(role.history, [from |-> role.state, to |-> to, at |-> now])]

\* approvals_roles.transition_role: neither history nor fingerprint.
Relabelled(role, to) == [role EXCEPT !.state = to]

\* Faulty variant: times and histories are always new.
NeverStable(old, now) == Proposed(now)

\* Faulty variant: what is on file stays as it is.
KeptAsItIs(old, now) == IF old # Absent THEN old ELSE Proposed(now)

\* _stabilize_role_registry: the proposed role, with the times and the history
\* of the one on file if their contract fingerprints are the same.
Stabilised(old, now) ==
  IF old # Absent /\ old.contract = "proposed"
  THEN [state |-> "proposed", contract |-> "proposed", history |-> old.history]
  ELSE Proposed(now)

\* doctor: the fingerprint is of the contract, and every entry is in the table.
Accepted(role) ==
  /\ role.contract = role.state
  /\ \A i \in DOMAIN role.history :
       LET step == role.history[i]
       IN step.from # "none" => step.to \in ROLE_TRANSITIONS[step.from]

-----------------------------------------------------------------------------
\* What a user's role overlay claims of a proposed role: a domain it owns, and
\* possibly its role_id too.
Claim == {"none", "id", "domain"}

\* The roles that are derived: those that no overlay claims.
Desired(roles, claims, now) ==
  [r \in Role |-> IF claims[r] = "none" THEN Stabilised(roles[r], now) ELSE Absent]

Reconciliation ==
  [additions : SUBSET Role, conflicts : SUBSET Role, drift : SUBSET Role]

\* reconcile_roles, of what is on file and all that is proposed.  Of its
\* categories, "retained" is the rest; both roles being proposed and sharing no
\* domain, nothing is merged, split, deprecated or without basis.
Reconciled(roles, claims) ==
  [additions |-> {r \in Role : claims[r] = "none" /\ roles[r] = Absent},
   conflicts |-> {r \in Role : claims[r] = "id"}
                   \union {r \in Role : claims[r] = "domain" /\ roles[r] = Absent},
   drift     |-> {r \in Role : /\ claims[r] # "id"
                               /\ roles[r] # Absent
                               /\ roles[r].state # "proposed"}]
=============================================================================

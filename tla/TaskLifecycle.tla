---------------------------- MODULE TaskLifecycle ----------------------------
(***************************************************************************)
(* core/state_machine.py: tasks, their transitions, and who owns which     *)
(* artifact.                                                               *)
(*                                                                         *)
(* The functions of the module are pure: whoever drives tasks keeps them,  *)
(* asks check_artifact_ownership before adding one, and hands transition a *)
(* record that was made out earlier, for the state the task had then.  The *)
(* driver is not part of the repository; here it keeps one record per task *)
(* and lets several actors work on it.                                     *)
(***************************************************************************)
EXTENDS Naturals, Sequences

CONSTANTS Task, Artifact, Actor,
          Users,            \* the actors "user" and "user:..."
          Nothing,          \* no record made out
          Targets,          \* the states records are made out to
          MaxTransitions    \* bound: transitions of a task

TASK_STATES == {"proposed", "ready", "running", "paused", "review",
                "validation", "awaiting_approval", "delivered", "failed",
                "cancelled"}

ASSUME TaskAssumption ==
  /\ Users \subseteq Actor
  /\ Targets \subseteq TASK_STATES
  /\ MaxTransitions \in Nat

TASK_TRANSITIONS ==
  [proposed |-> {"ready", "cancelled"},
   ready |-> {"running", "cancelled"},
   running |-> {"paused", "review", "failed", "cancelled"},
   paused |-> {"running", "failed", "cancelled"},
   review |-> {"validation", "failed", "cancelled"},
   validation |-> {"awaiting_approval", "failed", "cancelled"},
   awaiting_approval |-> {"delivered", "failed", "cancelled"},
   delivered |-> {},
   failed |-> {"proposed"},
   cancelled |-> {}]

VARIABLES state,      \* state[t]: "none" before the task is added
          owned,      \* owned[t]: artifacts_owned
          history,    \* history[t]: its transitions
          record      \* record[a]: the TransitionRecord a has made out

vars == <<state, owned, history, record>>

\* Records lacking evidence, artifacts, a reason or a time are left out: they
\* are refused in any state.
Records == [task : Task, from : TASK_STATES, to : TASK_STATES]
Steps == [from : TASK_STATES, to : TASK_STATES, actor : Actor]

TypeOK ==
  /\ state \in [Task -> TASK_STATES \union {"none"}]
  /\ owned \in [Task -> SUBSET Artifact]
  /\ history \in [Task -> Seq(Steps)]
  /\ record \in [Actor -> Records \union {Nothing}]
  /\ \A t \in Task : state[t] = "none" => owned[t] = {} /\ history[t] = <<>>

Init ==
  /\ state = [t \in Task |-> "none"]
  /\ owned = [t \in Task |-> {}]
  /\ history = [t \in Task |-> <<>>]
  /\ record = [a \in Actor |-> Nothing]

-----------------------------------------------------------------------------
Finished == {"delivered", "failed", "cancelled"}
Active(t) == state[t] \notin Finished \union {"none"}

\* Faulty variant: only running tasks are asked.
UnclaimedByRunning(artifacts) ==
  \A t \in Task : state[t] = "running" => owned[t] \intersect artifacts = {}

\* check_artifact_ownership: no task that is not finished owns any of them.
Unclaimed(artifacts) ==
  \A t \in Task : Active(t) => owned[t] \intersect artifacts = {}

\* A task is added.
Claim(t, artifacts) ==
  /\ state[t] = "none"
  /\ Unclaimed(artifacts)
  /\ state' = [state EXCEPT ![t] = "proposed"]
  /\ owned' = [owned EXCEPT ![t] = artifacts]
  /\ UNCHANGED <<history, record>>

\* Actor a makes out a record for the state it sees.
MakeOut(a, t, to) ==
  /\ record[a] = Nothing
  /\ state[t] # "none"
  /\ record' = [record EXCEPT ![a] = [task |-> t, from |-> state[t], to |-> to]]
  /\ UNCHANGED <<state, owned, history>>

\* Faulty variant: the record's source state is not compared.
AcceptableStale(a) ==
  LET r == record[a] IN
  /\ r.to \in TASK_TRANSITIONS[r.from]
  /\ r.from = "failed" => a \in Users

\* The guards of transition: it starts where the task is now, and it is a user
\* who takes a task out of "failed".
Acceptable(a) ==
  LET r == record[a] IN
  /\ r.from = state[r.task]
  /\ r.to \in TASK_TRANSITIONS[r.from]
  /\ r.from = "failed" => a \in Users

Transition(a) ==
  LET r == record[a] IN
  /\ r # Nothing
  /\ Acceptable(a)
  /\ Len(history[r.task]) < MaxTransitions
  /\ state' = [state EXCEPT ![r.task] = r.to]
  /\ history' = [history EXCEPT ![r.task] =
                   Append(@, [from |-> r.from, to |-> r.to, actor |-> a])]
  /\ record' = [record EXCEPT ![a] = Nothing]
  /\ UNCHANGED owned

\* A TransitionError, or the actor drops its record.
Reject(a) ==
  /\ record[a] # Nothing
  /\ record' = [record EXCEPT ![a] = Nothing]
  /\ UNCHANGED <<state, owned, history>>

Next ==
  \/ \E t \in Task, artifacts \in SUBSET Artifact : Claim(t, artifacts)
  \/ \E a \in Actor :
       \/ \E t \in Task, to \in Targets : MakeOut(a, t, to)
       \/ Transition(a)
       \/ Reject(a)

Spec == Init /\ [][Next]_vars

-----------------------------------------------------------------------------
(* Properties                                                              *)

\* The transitions of a task are a path through the table from "proposed" to
\* the state it is in, whatever stale records actors come with, and each time
\* it was taken out of "failed" a user did it.
HistoryExplainsState ==
  \A t \in Task :
    LET h == history[t] IN
    /\ state[t] = IF h # <<>> THEN h[Len(h)].to
                  ELSE IF state[t] = "none" THEN "none" ELSE "proposed"
    /\ \A i \in DOMAIN h :
         /\ h[i].from = IF i = 1 THEN "proposed" ELSE h[i - 1].to
         /\ h[i].to \in TASK_TRANSITIONS[h[i].from]
         /\ h[i].from = "failed" => h[i].actor \in Users

\* Delivered and cancelled tasks stay what they are.
FinalStays ==
  [][\A t \in Task :
       state[t] \in {"delivered", "cancelled"} => state'[t] = state[t]]_vars

Revived(t) == \E i \in DOMAIN history[t] : history[t][i].from = "failed"
Clash(t, u) ==
  t # u /\ Active(t) /\ Active(u) /\ owned[t] \intersect owned[u] # {}

\* Two active tasks own one artifact only if one of them had failed: a failed
\* task's artifacts are free to claim, and reviving it asks nobody.
ClashNeedsRevival ==
  \A t, u \in Task : Clash(t, u) => Revived(t) \/ Revived(u)
=============================================================================

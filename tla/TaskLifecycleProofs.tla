------------------------- MODULE TaskLifecycleProofs -------------------------
(***************************************************************************)
(* Task lifecycles for any tasks, artifacts and actors, and histories of   *)
(* any length: the table is followed, final states stay, and two active    *)
(* tasks share an artifact only after a revival.                           *)
(***************************************************************************)
EXTENDS TaskLifecycle, TLAPS

-----------------------------------------------------------------------------
(* The table                                                               *)

\* A transition ends in a state of the table, and starts in a finished one only
\* if that is "failed".
LEMMA TableFacts ==
  ASSUME NEW from \in TASK_STATES, NEW to \in TASK_TRANSITIONS[from]
  PROVE  to \in TASK_STATES /\ (from \in Finished => from = "failed")
<1>1. to \in TASK_STATES
  BY DEF TASK_TRANSITIONS, TASK_STATES
<1>2. from \in Finished => from = "failed"
  BY DEF TASK_TRANSITIONS, TASK_STATES, Finished
<1>. QED  BY <1>1, <1>2

\* Only "proposed" tasks come into being, and "none" is not a state.
LEMMA NoneIsNoState == "none" \notin TASK_STATES /\ "proposed" \in TASK_STATES
  BY DEF TASK_STATES

-----------------------------------------------------------------------------
(* Type correctness                                                        *)

\* New tasks are well formed.
LEMMA InitTypeOK == Init => TypeOK
  BY DEF Init, TypeOK

\* One Transition step, by its parts: the record's task takes the record's
\* step, and its history grows by it.
LEMMA TransitionParts ==
  ASSUME TypeOK, NEW a \in Actor, Transition(a)
  PROVE  /\ record[a] \in Records
         /\ record[a].task \in Task
         /\ record[a].from \in TASK_STATES
         /\ record[a].from = state[record[a].task]
         /\ record[a].to \in TASK_TRANSITIONS[record[a].from]
         /\ record[a].from = "failed" => a \in Users
         /\ record[a].to \in TASK_STATES
         /\ [from |-> record[a].from, to |-> record[a].to, actor |-> a] \in Steps
<1>1. record[a] \in Records
  BY DEF TypeOK, Transition
<1>2. /\ record[a].task \in Task
      /\ record[a].from \in TASK_STATES
      /\ record[a].to \in TASK_STATES
  BY <1>1 DEF Records
<1>3. /\ record[a].from = state[record[a].task]
      /\ record[a].to \in TASK_TRANSITIONS[record[a].from]
      /\ record[a].from = "failed" => a \in Users
  BY DEF Transition, Acceptable
<1>4. [from |-> record[a].from, to |-> record[a].to, actor |-> a] \in Steps
  BY <1>2 DEF Steps
<1>. QED  BY <1>1, <1>2, <1>3, <1>4

\* Every step keeps them well formed.
LEMMA NextTypeOK == TypeOK /\ [Next]_vars => TypeOK'
<1>. SUFFICES ASSUME TypeOK, [Next]_vars
              PROVE  TypeOK'
  OBVIOUS
<1>1. ASSUME NEW t \in Task, NEW artifacts \in SUBSET Artifact,
             Claim(t, artifacts)
      PROVE  TypeOK'
  BY <1>1, NoneIsNoState DEF Claim, TypeOK
<1>2. ASSUME NEW a \in Actor, NEW t \in Task, NEW to \in Targets,
             MakeOut(a, t, to)
      PROVE  TypeOK'
  <2>1. [task |-> t, from |-> state[t], to |-> to] \in Records
    BY <1>2, TaskAssumption DEF MakeOut, TypeOK, Records
  <2>. QED  BY <1>2, <2>1 DEF MakeOut, TypeOK
<1>3. ASSUME NEW a \in Actor, Transition(a)
      PROVE  TypeOK'
  <2>. DEFINE r == record[a]
              step == [from |-> r.from, to |-> r.to, actor |-> a]
  <2>1. /\ r.task \in Task /\ r.to \in TASK_STATES /\ step \in Steps
        /\ state[r.task] # "none"
    BY <1>3, TransitionParts, NoneIsNoState
  <2>2. Append(history[r.task], step) \in Seq(Steps)
    BY <2>1 DEF TypeOK
  <2>3. /\ state' = [state EXCEPT ![r.task] = r.to]
        /\ history' = [history EXCEPT ![r.task] = Append(@, step)]
        /\ record' = [record EXCEPT ![a] = Nothing]
        /\ owned' = owned
    BY <1>3 DEF Transition
  <2>. HIDE DEF r, step
  <2>4. /\ history' \in [Task -> Seq(Steps)]
        /\ state' \in [Task -> TASK_STATES \union {"none"}]
    BY <2>1, <2>2, <2>3 DEF TypeOK
  <2>5. /\ record' \in [Actor -> Records \union {Nothing}]
        /\ owned' \in [Task -> SUBSET Artifact]
    BY <2>3 DEF TypeOK
  <2>6. ASSUME NEW t \in Task, state'[t] = "none"
        PROVE  owned'[t] = {} /\ history'[t] = <<>>
    <3>1. t # r.task
      BY <2>1, <2>3, <2>6, NoneIsNoState DEF TypeOK
    <3>. QED  BY <3>1, <2>3, <2>6 DEF TypeOK
  <2>. QED  BY <2>4, <2>5, <2>6 DEF TypeOK
<1>4. ASSUME NEW a \in Actor, Reject(a)
      PROVE  TypeOK'
  BY <1>4 DEF Reject, TypeOK
<1>5. CASE UNCHANGED vars
  BY <1>5 DEF vars, TypeOK
<1>. QED  BY <1>1, <1>2, <1>3, <1>4, <1>5 DEF Next

\* Tasks, ownership, histories and records have their types in every state.
THEOREM TypeCorrect == Spec => []TypeOK
<1>. QED  BY InitTypeOK, NextTypeOK, PTL DEF Spec

-----------------------------------------------------------------------------
(* Histories                                                               *)

\* HistoryExplainsState for one task, given what its variables hold.
Explained(s, h) ==
  /\ s = IF h # <<>> THEN h[Len(h)].to
         ELSE IF s = "none" THEN "none" ELSE "proposed"
  /\ \A i \in DOMAIN h :
       /\ h[i].from = IF i = 1 THEN "proposed" ELSE h[i - 1].to
       /\ h[i].to \in TASK_TRANSITIONS[h[i].from]
       /\ h[i].from = "failed" => h[i].actor \in Users

\* HistoryExplainsState, task by task.
LEMMA RowByRow ==
  HistoryExplainsState <=> \A t \in Task : Explained(state[t], history[t])
  BY DEF HistoryExplainsState, Explained

\* A step from the current state keeps the history an explanation.
LEMMA AppendExplains ==
  ASSUME NEW s \in TASK_STATES, NEW h \in Seq(Steps), Explained(s, h),
         NEW to \in TASK_TRANSITIONS[s], NEW a \in Actor,
         s = "failed" => a \in Users,
         NEW step, step = [from |-> s, to |-> to, actor |-> a],
         step \in Steps
  PROVE  Explained(to, Append(h, step))
<1>. DEFINE g == Append(h, step)
<1>1. /\ g \in Seq(Steps) /\ Len(g) = Len(h) + 1 /\ g[Len(g)] = step
      /\ \A i \in 1..Len(h) : g[i] = h[i]
      /\ DOMAIN g = 1..(Len(h) + 1) /\ DOMAIN h = 1..Len(h)
  OBVIOUS
<1>2. g # <<>> /\ g[Len(g)].to = to
  BY <1>1
<1>3. ASSUME NEW i \in DOMAIN g
      PROVE  /\ g[i].from = IF i = 1 THEN "proposed" ELSE g[i - 1].to
             /\ g[i].to \in TASK_TRANSITIONS[g[i].from]
             /\ g[i].from = "failed" => g[i].actor \in Users
  <2>1. CASE i \in DOMAIN h
    <3>1. g[i] = h[i] /\ (i # 1 => g[i - 1] = h[i - 1])
      BY <1>1, <2>1
    <3>. QED  BY <3>1, <2>1 DEF Explained
  <2>2. CASE i \notin DOMAIN h
    <3>1. i = Len(h) + 1 /\ g[i] = step
      BY <1>1, <1>3, <2>2
    <3>2. CASE h = <<>>
      <4>1. i = 1 /\ s = "proposed"
        BY <3>1, <3>2, NoneIsNoState DEF Explained
      <4>. QED  BY <4>1, <3>1
    <3>3. CASE h # <<>>
      <4>1. i # 1 /\ i - 1 = Len(h) /\ Len(h) \in 1..Len(h)
        BY <3>1, <3>3
      <4>2. g[i - 1] = h[Len(h)] /\ h[Len(h)].to = s
        BY <4>1, <1>1, <3>3 DEF Explained
      <4>. QED  BY <4>1, <4>2, <3>1
    <3>. QED  BY <3>2, <3>3
  <2>. QED  BY <2>1, <2>2
<1>. QED  BY <1>2, <1>3 DEF Explained

\* Every step keeps histories explanations.
LEMMA NextHistory ==
  TypeOK /\ HistoryExplainsState /\ [Next]_vars => HistoryExplainsState'
<1>. SUFFICES ASSUME TypeOK, HistoryExplainsState, [Next]_vars,
                     NEW t \in Task
              PROVE  Explained(state'[t], history'[t])
  BY DEF HistoryExplainsState, Explained
<1>0. Explained(state[t], history[t])
  BY RowByRow
<1>1. ASSUME NEW u \in Task, NEW artifacts \in SUBSET Artifact,
             Claim(u, artifacts)
      PROVE  Explained(state'[t], history'[t])
  <2>1. CASE u = t
    <3>1. state'[t] = "proposed" /\ history'[t] = <<>>
      BY <1>1, <2>1 DEF Claim, TypeOK
    <3>. QED  BY <3>1 DEF Explained
  <2>2. CASE u # t
    <3>1. state'[t] = state[t] /\ history'[t] = history[t]
      BY <1>1, <2>2 DEF Claim, TypeOK
    <3>. QED  BY <3>1, <1>0
  <2>. QED  BY <2>1, <2>2
<1>2. ASSUME NEW a \in Actor, Transition(a)
      PROVE  Explained(state'[t], history'[t])
  <2>. DEFINE r == record[a]
              step == [from |-> r.from, to |-> r.to, actor |-> a]
  <2>1. CASE r.task = t
    <3>1. /\ state'[t] = r.to
          /\ history'[t] = Append(history[t], step)
      BY <1>2, <2>1 DEF Transition, TypeOK
    <3>2. /\ state[t] \in TASK_STATES /\ r.to \in TASK_TRANSITIONS[state[t]]
          /\ state[t] = "failed" => a \in Users
          /\ step = [from |-> state[t], to |-> r.to, actor |-> a]
          /\ step \in Steps
      BY <1>2, <2>1, TransitionParts
    <3>3. history[t] \in Seq(Steps)
      BY DEF TypeOK
    <3>. HIDE DEF r, step
    <3>4. Explained(r.to, Append(history[t], step))
      BY <1>0, <3>2, <3>3, AppendExplains
    <3>. QED  BY <3>1, <3>4
  <2>2. CASE r.task # t
    <3>1. state'[t] = state[t] /\ history'[t] = history[t]
      BY <1>2, <2>2 DEF Transition, TypeOK
    <3>. QED  BY <3>1, <1>0
  <2>. QED  BY <2>1, <2>2
<1>3. CASE UNCHANGED <<state, history>>
  BY <1>3, <1>0
<1>. QED
  BY <1>1, <1>2, <1>3 DEF Next, MakeOut, Reject, vars

\* Whatever stale records actors come with, the transitions of a task are a path
\* through the table from "proposed" to where it is, and users revived it.
THEOREM PathsFollowTable == Spec => []HistoryExplainsState
<1>1. Init => HistoryExplainsState
  <2>1. ASSUME Init, NEW t \in Task
        PROVE  Explained(state[t], history[t])
    <3>1. state[t] = "none" /\ history[t] = <<>>
      BY <2>1 DEF Init
    <3>. QED  BY <3>1 DEF Explained
  <2>. QED  BY <2>1, RowByRow
<1>. QED  BY <1>1, InitTypeOK, NextTypeOK, NextHistory, PTL DEF Spec

\* A delivered or cancelled task is left alone by every step.
THEOREM FinalStatesStay == Spec => FinalStays
<1>1. ASSUME TypeOK, [Next]_vars, NEW t \in Task,
             state[t] \in {"delivered", "cancelled"}
      PROVE  state'[t] = state[t]
  <2>1. ASSUME NEW u \in Task, NEW artifacts \in SUBSET Artifact,
               Claim(u, artifacts)
        PROVE  state'[t] = state[t]
    BY <1>1, <2>1 DEF Claim, TypeOK
  <2>2. ASSUME NEW a \in Actor, Transition(a)
        PROVE  state'[t] = state[t]
    <3>1. record[a].task # t
      <4>1. SUFFICES ASSUME record[a].task = t PROVE FALSE
        OBVIOUS
      <4>2. /\ record[a].from \in TASK_STATES
            /\ record[a].from = state[t]
            /\ record[a].to \in TASK_TRANSITIONS[record[a].from]
        BY <4>1, <1>1, <2>2, TransitionParts
      <4>3. record[a].from \in Finished => record[a].from = "failed"
        BY <4>2, TableFacts
      <4>. QED  BY <4>2, <4>3, <1>1 DEF Finished
    <3>. QED  BY <3>1, <2>2, <1>1 DEF Transition, TypeOK
  <2>3. CASE UNCHANGED state
    BY <2>3
  <2>. QED  BY <1>1, <2>1, <2>2, <2>3 DEF Next, MakeOut, Reject, vars
<1>2. TypeOK /\ [Next]_vars =>
        [\A t \in Task : state[t] \in {"delivered", "cancelled"}
                           => state'[t] = state[t]]_vars
  BY <1>1
<1>. QED  BY <1>2, TypeCorrect, PTL DEF Spec, FinalStays

-----------------------------------------------------------------------------
(* Ownership                                                               *)

\* Every step keeps ClashNeedsRevival: whoever comes second is refused, or revived.
LEMMA NextClash == TypeOK /\ ClashNeedsRevival /\ [Next]_vars => ClashNeedsRevival'
<1>. SUFFICES ASSUME TypeOK, ClashNeedsRevival, [Next]_vars,
                     NEW t \in Task, NEW u \in Task, Clash(t, u)'
              PROVE  (Revived(t) \/ Revived(u))'
  BY DEF ClashNeedsRevival
<1>0. Clash(t, u) => Revived(t) \/ Revived(u)
  BY DEF ClashNeedsRevival
<1>1. ASSUME NEW v \in Task, NEW artifacts \in SUBSET Artifact,
             Claim(v, artifacts)
      PROVE  (Revived(t) \/ Revived(u))'
  <2>1. /\ history' = history
        /\ \A w \in Task : w # v => /\ state'[w] = state[w]
                                    /\ owned'[w] = owned[w]
        /\ owned'[v] = artifacts
    BY <1>1 DEF Claim, TypeOK
  <2>2. v # t
    <3>1. SUFFICES ASSUME v = t PROVE FALSE
      OBVIOUS
    <3>2. Active(u) /\ owned[u] \intersect artifacts # {}
      BY <2>1, <3>1 DEF Clash, Active
    <3>. QED  BY <3>2, <1>1 DEF Claim, Unclaimed
  <2>3. v # u
    <3>1. SUFFICES ASSUME v = u PROVE FALSE
      OBVIOUS
    <3>2. Active(t) /\ owned[t] \intersect artifacts # {}
      BY <2>1, <3>1 DEF Clash, Active
    <3>. QED  BY <3>2, <1>1 DEF Claim, Unclaimed
  <2>4. Clash(t, u)
    BY <2>1, <2>2, <2>3 DEF Clash, Active
  <2>. QED  BY <1>0, <2>1, <2>4 DEF Revived
<1>2. ASSUME NEW a \in Actor, Transition(a)
      PROVE  (Revived(t) \/ Revived(u))'
  <2>. DEFINE r == record[a]
              step == [from |-> r.from, to |-> r.to, actor |-> a]
  <2>1. /\ r.task \in Task /\ r.from \in TASK_STATES
        /\ r.from = state[r.task] /\ r.to \in TASK_TRANSITIONS[r.from]
        /\ step \in Steps
    BY <1>2, TransitionParts
  <2>2. /\ owned' = owned
        /\ \A w \in Task : w # r.task => /\ state'[w] = state[w]
                                         /\ history'[w] = history[w]
        /\ history'[r.task] = Append(history[r.task], step)
    BY <1>2, <2>1 DEF Transition, TypeOK
  <2>3. step.from = state[r.task]
    BY <2>1
  <2>4. r.from \in Finished => r.from = "failed"
    BY <2>1, TableFacts
  <2>. HIDE DEF r, step
  <2>5. ASSUME NEW w \in Task, Revived(w)
        PROVE  Revived(w)'
    <3>1. PICK i \in DOMAIN history[w] : history[w][i].from = "failed"
      BY <2>5 DEF Revived
    <3>2. CASE w = r.task
      <4>1. i \in DOMAIN history'[w] /\ history'[w][i] = history[w][i]
        BY <3>1, <3>2, <2>1, <2>2 DEF TypeOK
      <4>. QED  BY <3>1, <4>1 DEF Revived
    <3>3. CASE w # r.task
      BY <3>1, <3>3, <2>2 DEF Revived
    <3>. QED  BY <3>2, <3>3
  <2>6. ASSUME NEW w \in Task, Active(w)', ~Active(w)
        PROVE  Revived(w)'
    <3>1. w = r.task
      BY <2>2, <2>6 DEF Active
    <3>2. state[w] = "failed"
      BY <3>1, <2>1, <2>4, <2>6, NoneIsNoState DEF Active
    <3>3. /\ Len(history[w]) + 1 \in DOMAIN history'[w]
          /\ history'[w][Len(history[w]) + 1] = step
      BY <3>1, <2>1, <2>2 DEF TypeOK
    <3>. QED  BY <3>1, <3>2, <3>3, <2>3 DEF Revived
  <2>7. CASE Active(t) /\ Active(u)
    <3>1. Clash(t, u)
      BY <2>2, <2>7 DEF Clash
    <3>. QED  BY <1>0, <2>5, <3>1
  <2>8. CASE ~Active(t) \/ ~Active(u)
    BY <2>6, <2>8 DEF Clash
  <2>. QED  BY <2>7, <2>8
<1>3. CASE UNCHANGED <<state, owned, history>>
  BY <1>0, <1>3 DEF Clash, Active, Revived
<1>. QED
  BY <1>1, <1>2, <1>3 DEF Next, MakeOut, Reject, vars

\* However tasks are added and moved, two active tasks own one artifact only if
\* one of them was taken out of "failed".
THEOREM ClashesComeFromRevivals == Spec => []ClashNeedsRevival
<1>1. Init => ClashNeedsRevival
  BY DEF Init, ClashNeedsRevival, Clash, Active
<1>. QED  BY <1>1, InitTypeOK, NextTypeOK, NextClash, PTL DEF Spec
=============================================================================

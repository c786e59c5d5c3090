-------------------------- MODULE EventLedgerProofs --------------------------
(***************************************************************************)
(* Proofs about EventLedger, for any number of processes, ledgers, events  *)
(* and any calls.                                                          *)
(*                                                                         *)
(* A command keeps in memory what it made of a ledger (payload) and what   *)
(* protects it (base).  The invariant says what these have to do with each *)
(* other and, until the fingerprint is taken, with the file: as long as no *)
(* other command tears the pair apart, an append's payload is its base and *)
(* the events it brings, and a reconcile's payload is the projection of its base.  Both    *)
(* properties follow at the moment of applying, when the base is compared  *)
(* with the file.                                                          *)
(***************************************************************************)
EXTENDS EventLedger, TLAPS

\* The ledgers p is done with.
Behind(p) == {Ledgers[i] : i \in 1..(at[p] - 1)}

\* p has a current ledger wherever it is about to use one; what it has bound
\* lies behind it.
Position(p) ==
  /\ pc[p] = "idle" => at[p] = 1
  /\ pc[p] = "bind" => at[p] <= Len(Ledgers)
  /\ touched[p] \subseteq Behind(p)
  /\ pc[p] \in {"appendable", "projected"} => at[p] = Len(Ledgers) + 1

\* The events that p is to append to l.
Brought(p, l) == {e \in incoming[p] : LedgerOf[e] = l}

\* What an append writes is what it replaces and the events it brings; ledgers it
\* passes over are brought none.
AppendKeeps(p) ==
  /\ pc[p] = "bind" /\ Here(p) \notin torn[p] =>
       payload[p][Here(p)] = ledger[Here(p)] \union Brought(p, Here(p))
  /\ pc[p] \in {"read", "bind", "appendable"} =>
       /\ \A l \in touched[p] \ torn[p] :
            payload[p][l] = base[p][l] \union Brought(p, l)
       /\ \A l \in Behind(p) \ touched[p] : Brought(p, l) = {}

\* What a reconcile writes is the projection of what it looked at.
LookKeeps(p) ==
  /\ pc[p] = "look" =>
       \A l \in Behind(p) \ torn[p] : payload[p][l] = Projection(l, ledger[l])
  /\ pc[p] = "projected" =>
       \A l \in Ledger \ torn[p] : payload[p][l] = Projection(l, base[p][l])

Row(p) == Position(p) /\ AppendKeeps(p) /\ LookKeeps(p)

\* The inductive invariant.
IInv == TypeOK /\ \A p \in Process : Row(p)

\* A step that is not q's leaves what Row(q) speaks of alone, the ledgers aside.
SameMemory(q) ==
  /\ pc'[q] = pc[q]
  /\ at'[q] = at[q]
  /\ incoming'[q] = incoming[q]
  /\ touched'[q] = touched[q]
  /\ payload'[q] = payload[q]
  /\ base'[q] = base[q]

-----------------------------------------------------------------------------
(* Types                                                                   *)

\* The ledgers are numbered from 1, each once.
LEMMA LedgerNumbers ==
  /\ Len(Ledgers) \in Nat
  /\ Ledger = {Ledgers[i] : i \in 1..Len(Ledgers)}
  /\ \A i \in 1..Len(Ledgers) : Ledgers[i] \in Ledger
  /\ \A i, j \in 1..Len(Ledgers) : Ledgers[i] = Ledgers[j] => i = j
BY LedgerAssumption DEF LedgerAssumption, Ledger

\* The ledger a command is at, while there is one.
LEMMA HereType ==
  ASSUME TypeOK, NEW p \in Process, More(p)
  PROVE  /\ at[p] \in 1..Len(Ledgers)
         /\ at[p] + 1 \in 1..(Len(Ledgers) + 1)
         /\ Here(p) \in Ledger
BY LedgerNumbers DEF TypeOK, More, Here

\* A new content is a set of events.
LEMMA ContentTypes ==
  ASSUME TypeOK, NEW p \in Process, More(p)
  PROVE  /\ ledger[Here(p)] \in SUBSET Event
         /\ Merged(p) \in SUBSET Event
         /\ Projection(Here(p), ledger[Here(p)]) \in SUBSET Event
<1>1. ledger[Here(p)] \in SUBSET Event
  BY HereType DEF TypeOK, Files
<1>2. IncomingHere(p) \in SUBSET Event
  BY DEF IncomingHere, TypeOK
<1>3. Merged(p) \in SUBSET Event
  BY <1>1, <1>2 DEF Merged
<1>4. Projection(Here(p), ledger[Here(p)]) \in SUBSET Event
  BY <1>1 DEF Projection
<1> QED
  BY <1>1, <1>3, <1>4

\* Ending a command keeps its memory well typed.
LEMMA ForgetType ==
  ASSUME TypeOK, NEW p \in Process, Forget(p)
  PROVE  /\ pc' \in [Process -> Locations]
         /\ at' \in [Process -> 1..(Len(Ledgers) + 1)]
         /\ incoming' \in [Process -> SUBSET Event]
         /\ touched' \in [Process -> SUBSET Ledger]
         /\ payload' \in [Process -> Files]
         /\ base' \in [Process -> Files]
         /\ viewBase' \in [Process -> Files]
<1>1. 1 \in 1..(Len(Ledgers) + 1)
  BY LedgerNumbers
<1>2. Nothing \in Files
  BY DEF Nothing, Files
<1> QED
  BY <1>1, <1>2 DEF TypeOK, Forget, Locations

\* Ledgers, views and processes are well formed at the start.
LEMMA InitType == Init => TypeOK
<1>1. 1 \in 1..(Len(Ledgers) + 1)
  BY LedgerNumbers
<1>2. Nothing \in Files
  BY DEF Nothing, Files
<1> QED
  BY <1>1, <1>2 DEF Init, TypeOK, Locations

\* Setting one entry of a process' files to a set of events keeps them files.
LEMMA FilesUpdate ==
  ASSUME NEW g \in [Process -> Files], NEW p \in Process, NEW l \in Ledger,
         NEW c \in SUBSET Event
  PROVE  [g EXCEPT ![p][l] = c] \in [Process -> Files]
BY DEF Files

\* Every step keeps them well formed.
LEMMA StepType ==
  ASSUME TypeOK, NEW p \in Process, Position(p), ProcessNext(p)
  PROVE  TypeOK'
<1>1. CASE \E events \in Calls : StartAppend(p, events)
  BY <1>1, LedgerAssumption DEF LedgerAssumption, StartAppend, TypeOK, Locations
<1>2. CASE Skip(p)
  BY <1>2, HereType DEF Skip, TypeOK
<1>3. CASE ReadLedger(p)
  <2>1. payload' \in [Process -> Files]
    BY <1>3, HereType, ContentTypes, FilesUpdate DEF ReadLedger, TypeOK
  <2> QED
    BY <1>3, <2>1 DEF ReadLedger, TypeOK, Locations
<1>4. CASE RefuseConflict(p)
  BY <1>4, ForgetType DEF RefuseConflict, TypeOK
<1>5. CASE Bind(p)
  <2>1. More(p)
    BY <1>5 DEF Bind, Position, More
  <2>2. base' \in [Process -> Files]
    BY <1>5, <2>1, HereType, ContentTypes, FilesUpdate DEF Bind, TypeOK
  <2> QED
    BY <1>5, <2>1, <2>2, HereType DEF Bind, TypeOK, Locations
<1>6. CASE BuildAppend(p)
  BY <1>6 DEF BuildAppend, TypeOK, Locations
<1>7. CASE ApplyAppend(p)
  <2>1. ledger' \in Files
    BY <1>7 DEF ApplyAppend, TypeOK, Files
  <2>2. torn' \in [Process -> SUBSET Ledger]
    BY <1>7 DEF ApplyAppend, TypeOK
  <2> QED
    BY <1>7, <2>1, <2>2, ForgetType DEF ApplyAppend, TypeOK
<1>8. CASE StartReconcile(p)
  BY <1>8 DEF StartReconcile, TypeOK, Locations
<1>9. CASE Look(p)
  <2>1. payload' \in [Process -> Files]
    BY <1>9, HereType, ContentTypes, FilesUpdate DEF Look, TypeOK
  <2> QED
    BY <1>9, <2>1, HereType DEF Look, TypeOK, Locations
<1>10. CASE BuildReconcile(p)
  BY <1>10 DEF BuildReconcile, TypeOK, Locations
<1>11. CASE ApplyReconcile(p)
  BY <1>11, ForgetType DEF ApplyReconcile, TypeOK
<1>12. CASE GiveUp(p)
  BY <1>12, ForgetType DEF GiveUp, TypeOK
<1> QED
  BY <1>1, <1>2, <1>3, <1>4, <1>5, <1>6, <1>7, <1>8, <1>9, <1>10, <1>11, <1>12
     DEF ProcessNext

-----------------------------------------------------------------------------
(* The rows                                                                *)

\* A process that does nothing knows nothing.
LEMMA InitRow == ASSUME Init, NEW p \in Process PROVE Row(p)
BY DEF Init, Row, Position, AppendKeeps, LookKeeps

\* A command at rest satisfies its row.
LEMMA RestingRow ==
  ASSUME TypeOK, NEW p \in Process, Forget(p)
  PROVE  Row(p)'
<1>1. pc'[p] = "idle" /\ at'[p] = 1 /\ touched'[p] = {}
  BY DEF Forget, TypeOK
<1> QED
  BY <1>1 DEF Row, Position, AppendKeeps, LookKeeps

\* Rows are undisturbed by steps of others that leave the ledgers alone.
LEMMA OthersRow ==
  ASSUME NEW q \in Process, Row(q), SameMemory(q), torn'[q] = torn[q],
         ledger' = ledger
  PROVE  Row(q)'
BY DEF Row, Position, AppendKeeps, LookKeeps, SameMemory, Behind, Here, Brought

\* The ledgers behind a position, and behind the next one.
LEMMA BehindGrows ==
  ASSUME TypeOK, TypeOK', NEW p \in Process, More(p), at'[p] = at[p] + 1
  PROVE  /\ Behind(p)' = Behind(p) \union {Here(p)}
         /\ Here(p) \notin Behind(p)
<1>1. at[p] \in 1..Len(Ledgers) /\ at'[p] - 1 = at[p]
  BY HereType, LedgerNumbers
<1>2. 1..at[p] = 1..(at[p] - 1) \union {at[p]}
  BY <1>1
<1>3. Behind(p)' = Behind(p) \union {Here(p)}
  BY <1>1, <1>2 DEF Behind, Here
<1>4. ASSUME NEW i \in 1..(at[p] - 1) PROVE Ledgers[i] # Here(p)
  BY <1>1, <1>4, LedgerNumbers DEF Here
<1> QED
  BY <1>3, <1>4 DEF Behind

\* What is behind a command are ledgers.
LEMMA BehindLedgers ==
  ASSUME TypeOK, NEW p \in Process
  PROVE  Behind(p) \subseteq Ledger
<1>1. at[p] \in 1..(Len(Ledgers) + 1)
  BY DEF TypeOK
<1>2. \A i \in 1..(at[p] - 1) : i \in 1..Len(Ledgers)
  BY <1>1, LedgerNumbers
<1> QED
  BY <1>2, LedgerNumbers DEF Behind

\* Past the last ledger, all of them are behind.
LEMMA BehindAll ==
  ASSUME TypeOK, NEW p \in Process, ~More(p)
  PROVE  at[p] = Len(Ledgers) + 1 /\ Behind(p) = Ledger
<1>1. at[p] = Len(Ledgers) + 1
  BY LedgerNumbers DEF TypeOK, More
<1>2. at[p] - 1 = Len(Ledgers)
  BY <1>1, LedgerNumbers
<1> QED
  BY <1>1, <1>2, LedgerNumbers DEF Behind

\* A command that starts has read nothing yet.
LEMMA StartRow ==
  ASSUME TypeOK, NEW p \in Process, Row(p),
         (\E events \in Calls : StartAppend(p, events)) \/ StartReconcile(p)
  PROVE  Row(p)'
<1>1. at[p] = 1 /\ touched[p] = {} /\ Behind(p) = {}
  BY DEF Row, Position, Behind, StartAppend, StartReconcile
<1>2. at' = at /\ touched' = touched /\ pc'[p] \in {"read", "look"}
  BY DEF StartAppend, StartReconcile, TypeOK
<1>3. Behind(p)' = {}
  BY <1>1, <1>2 DEF Behind
<1> QED
  BY <1>1, <1>2, <1>3 DEF Row, Position, AppendKeeps, LookKeeps

\* A step over a ledger that is not there.
LEMMA SkipRow ==
  ASSUME TypeOK, TypeOK', NEW p \in Process, Row(p), Skip(p)
  PROVE  Row(p)'
<1>1. at'[p] = at[p] + 1 /\ pc[p] = "read" /\ pc' = pc
  BY DEF Skip, TypeOK
<1>2. Behind(p)' = Behind(p) \union {Here(p)}
  BY <1>1, BehindGrows DEF Skip
<1>3. Brought(p, Here(p)) = {}
  BY DEF Skip, IncomingHere, Brought
<1>4. \A l : Brought(p, l)' = Brought(p, l)
  BY DEF Skip, Brought
<1> QED
  BY <1>1, <1>2, <1>3, <1>4 DEF Skip, Row, Position, AppendKeeps, LookKeeps

\* Without a conflict nothing that was read is dropped.
LEMMA MergedKeeps ==
  ASSUME NEW p \in Process, ~Conflicts(p)
  PROVE  Merged(p) = ledger[Here(p)] \union Brought(p, Here(p))
BY DEF Merged, Conflicts, IncomingHere, Brought

\* What a process knows after its first reading of a ledger.
LEMMA ReadRow ==
  ASSUME TypeOK, TypeOK', NEW p \in Process, Row(p), ReadLedger(p)
  PROVE  Row(p)'
<1>1. pc[p] = "read" /\ pc'[p] = "bind" /\ More(p) /\ at' = at
  BY DEF ReadLedger, TypeOK
<1>2. Here(p)' = Here(p) /\ Behind(p)' = Behind(p) /\ Here(p) \in Ledger
  BY <1>1, HereType DEF Here, Behind
<1>3. payload'[p] = [payload[p] EXCEPT ![Here(p)] = Merged(p)]
  BY <1>2 DEF ReadLedger, TypeOK
<1>4. payload[p] \in [Ledger -> SUBSET Event]
  BY DEF TypeOK, Files
<1>5. payload'[p][Here(p)] = Merged(p)
  BY <1>2, <1>3, <1>4
<1>6. Here(p) \notin Behind(p)
  <2>1. \A i \in 1..(at[p] - 1) : Ledgers[i] # Here(p)
    BY <1>1, HereType, LedgerNumbers DEF Here
  <2> QED
    BY <2>1 DEF Behind
<1>7. \A l \in touched[p] : payload'[p][l] = payload[p][l]
  BY <1>2, <1>3, <1>4, <1>6 DEF Row, Position, TypeOK
<1>8. /\ payload'[p][Here(p)] = ledger[Here(p)] \union Brought(p, Here(p))
      /\ \A l : Brought(p, l)' = Brought(p, l)
  BY <1>5, MergedKeeps DEF ReadLedger, Brought
<1>9. Position(p)'
  BY <1>1, <1>2, HereType DEF Row, Position, ReadLedger
<1>10. AppendKeeps(p)'
  BY <1>1, <1>2, <1>7, <1>8 DEF Row, AppendKeeps, ReadLedger
<1>11. LookKeeps(p)'
  BY <1>1 DEF LookKeeps
<1> QED
  BY <1>9, <1>10, <1>11 DEF Row

\* What it knows after the second, of which it takes the fingerprint.
LEMMA BindRow ==
  ASSUME TypeOK, TypeOK', NEW p \in Process, Row(p), Bind(p)
  PROVE  Row(p)'
<1>1. pc[p] = "bind" /\ pc'[p] = "read" /\ More(p) /\ at'[p] = at[p] + 1
  BY DEF Bind, TypeOK, Row, Position, More
<1>2. Here(p) \in Ledger /\ Behind(p)' = Behind(p) \union {Here(p)}
  BY <1>1, HereType, BehindGrows
<1>3. touched'[p] = touched[p] \union {Here(p)}
  BY DEF Bind, TypeOK
<1>4. base'[p] = [base[p] EXCEPT ![Here(p)] = ledger[Here(p)]]
  BY <1>2 DEF Bind, TypeOK
<1>5. base[p] \in [Ledger -> SUBSET Event]
  BY DEF TypeOK, Files
<1>6. base'[p][Here(p)] = ledger[Here(p)]
  BY <1>2, <1>4, <1>5
<1>7. \A l \in Ledger \ {Here(p)} : base'[p][l] = base[p][l]
  BY <1>4, <1>5
<1>8. touched[p] \subseteq Ledger
  BY DEF TypeOK
<1>9. Position(p)'
  BY <1>1, <1>2, <1>3 DEF Row, Position
<1>10. AppendKeeps(p)'
  <2>1. \A l : Brought(p, l)' = Brought(p, l)
    BY DEF Bind, Brought
  <2> QED
    BY <1>1, <1>2, <1>3, <1>6, <1>7, <1>8, <2>1 DEF Row, AppendKeeps, Bind
<1>11. LookKeeps(p)'
  BY <1>1 DEF LookKeeps
<1> QED
  BY <1>9, <1>10, <1>11 DEF Row

\* An append has merged its events into what it read.
LEMMA BuildAppendRow ==
  ASSUME TypeOK, NEW p \in Process, Row(p), BuildAppend(p)
  PROVE  Row(p)'
<1>1. pc[p] = "read" /\ pc'[p] = "appendable"
  BY DEF BuildAppend, TypeOK
<1>2. at[p] = Len(Ledgers) + 1 /\ Behind(p)' = Behind(p)
  BY BehindAll DEF BuildAppend, Behind
<1>3. \A l : Brought(p, l)' = Brought(p, l)
  BY DEF BuildAppend, Brought
<1> QED
  BY <1>1, <1>2, <1>3 DEF BuildAppend, Row, Position, AppendKeeps, LookKeeps

\* A reconcile reads a ledger for the first time, and projects it.
LEMMA LookRow ==
  ASSUME TypeOK, TypeOK', NEW p \in Process, Row(p), Look(p)
  PROVE  Row(p)'
<1>1. pc[p] = "look" /\ pc' = pc /\ More(p) /\ at'[p] = at[p] + 1
  BY DEF Look, TypeOK
<1>2. /\ Here(p) \in Ledger
      /\ Behind(p)' = Behind(p) \union {Here(p)}
      /\ Here(p) \notin Behind(p)
  BY <1>1, HereType, BehindGrows
<1>3. payload'[p] = [payload[p] EXCEPT ![Here(p)] =
                       Projection(Here(p), ledger[Here(p)])]
  BY <1>2 DEF Look, TypeOK
<1>4. payload[p] \in [Ledger -> SUBSET Event] /\ Behind(p) \subseteq Ledger
  BY BehindLedgers DEF TypeOK, Files
<1>5. payload'[p][Here(p)] = Projection(Here(p), ledger[Here(p)])
  BY <1>2, <1>3, <1>4
<1>6. \A l \in Behind(p) : payload'[p][l] = payload[p][l]
  BY <1>2, <1>3, <1>4
<1>7. Position(p)' /\ AppendKeeps(p)'
  BY <1>1, <1>2 DEF Look, Row, Position, AppendKeeps
<1>8. \A l \in Behind(p)' \ torn'[p] : payload'[p][l] = Projection(l, ledger'[l])
  BY <1>1, <1>2, <1>5, <1>6 DEF Look, Row, LookKeeps
<1> QED
  BY <1>1, <1>7, <1>8 DEF Row, LookKeeps

\* A reconcile that has read its ledgers fingerprints the workspace.
LEMMA BuildReconcileRow ==
  ASSUME TypeOK, NEW p \in Process, Row(p), BuildReconcile(p)
  PROVE  Row(p)'
<1>1. pc[p] = "look" /\ pc'[p] = "projected" /\ base'[p] = ledger
  BY DEF BuildReconcile, TypeOK
<1>2. at[p] = Len(Ledgers) + 1 /\ Behind(p)' = Behind(p) /\ Behind(p) = Ledger
  BY BehindAll DEF BuildReconcile, Behind
<1> QED
  BY <1>1, <1>2
     DEF BuildReconcile, Row, Position, AppendKeeps, LookKeeps

\* What an append does to a row of another process: where it changes a ledger
\* that the other has read and not bound, the other is torn from then on.
LEMMA AppliedRow ==
  ASSUME TypeOK, NEW p \in Process, NEW q \in Process \ {p}, Row(q),
         ApplyAppend(p), SameMemory(q)
  PROVE  Row(q)'
<1>1. torn[q] \subseteq torn'[q]
  BY DEF ApplyAppend, TypeOK
<1>2. /\ Here(q)' = Here(q) /\ Behind(q)' = Behind(q)
      /\ \A l : Brought(q, l)' = Brought(q, l)
  BY DEF SameMemory, Here, Behind, Brought
<1>3. ASSUME NEW l \in Ledger, Unprotected(q, l), l \notin torn'[q]
      PROVE  ledger'[l] = ledger[l]
  BY <1>3 DEF ApplyAppend, TypeOK
<1>4. Position(q)'
  BY <1>2 DEF Row, Position, SameMemory
<1>5. AppendKeeps(q)'
  <2>1. ASSUME pc[q] = "bind", Here(q) \notin torn'[q]
        PROVE  payload[q][Here(q)] = ledger'[Here(q)] \union Brought(q, Here(q))
    <3>1. Here(q) \in Ledger /\ Unprotected(q, Here(q))
      BY <2>1, HereType DEF Row, Position, More, Unprotected
    <3> QED
      BY <1>1, <1>3, <2>1, <3>1 DEF Row, AppendKeeps
  <2> QED
    BY <1>1, <1>2, <2>1 DEF Row, AppendKeeps, SameMemory
<1>6. LookKeeps(q)'
  <2>1. ASSUME pc[q] = "look", NEW l \in Behind(q) \ torn'[q]
        PROVE  payload[q][l] = Projection(l, ledger'[l])
    <3>1. l \in Ledger /\ Unprotected(q, l)
      BY <2>1, BehindLedgers DEF Behind, Unprotected
    <3> QED
      BY <1>1, <1>3, <2>1, <3>1 DEF Row, LookKeeps
  <2> QED
    BY <1>1, <1>2, <2>1 DEF Row, LookKeeps, SameMemory
<1> QED
  BY <1>4, <1>5, <1>6 DEF Row

\* A step of p leaves the memory of the others alone.
LEMMA OthersMemory ==
  ASSUME TypeOK, NEW p \in Process, NEW q \in Process \ {p}, ProcessNext(p)
  PROVE  /\ SameMemory(q)
         /\ ~ApplyAppend(p) => ledger' = ledger /\ torn'[q] = torn[q]
<1> USE DEF SameMemory, TypeOK
<1>1. CASE \E events \in Calls : StartAppend(p, events)
  BY <1>1 DEF StartAppend
<1>2. CASE Skip(p) \/ ReadLedger(p) \/ Bind(p) \/ BuildAppend(p)
  BY <1>2 DEF Skip, ReadLedger, Bind, BuildAppend
<1>3. CASE RefuseConflict(p) \/ ApplyReconcile(p) \/ GiveUp(p)
  BY <1>3 DEF RefuseConflict, ApplyReconcile, GiveUp, Forget
<1>4. CASE ApplyAppend(p)
  BY <1>4 DEF ApplyAppend, Forget
<1>5. CASE StartReconcile(p) \/ Look(p) \/ BuildReconcile(p)
  BY <1>5 DEF StartReconcile, Look, BuildReconcile
<1> QED
  BY <1>1, <1>2, <1>3, <1>4, <1>5 DEF ProcessNext

\* What a process knows survives every step of its own.
LEMMA StepRow ==
  ASSUME TypeOK, TypeOK', NEW p \in Process, NEW q \in Process,
         Row(p), Row(q), ProcessNext(p)
  PROVE  Row(q)'
<1>1. CASE q = p
  <2>1. CASE Forget(p)
    BY <1>1, <2>1, RestingRow
  <2>2. CASE ~Forget(p)
    BY <1>1, <2>2, StartRow, SkipRow, ReadRow, BindRow, BuildAppendRow, LookRow,
       BuildReconcileRow
       DEF ProcessNext, RefuseConflict, ApplyAppend, ApplyReconcile, GiveUp
  <2> QED
    BY <2>1, <2>2
<1>2. CASE q # p
  BY <1>2, OthersMemory, OthersRow, AppliedRow
<1> QED
  BY <1>1, <1>2

-----------------------------------------------------------------------------
(* The theorems                                                            *)

\* A step that changes nothing keeps the invariant.
LEMMA Stuttering ==
  ASSUME IInv, UNCHANGED vars
  PROVE  IInv'
<1>1. TypeOK'
  BY DEF IInv, TypeOK, vars
<1>2. \A q \in Process : Row(q)'
  BY OthersRow DEF IInv, vars, SameMemory
<1> QED
  BY <1>1, <1>2 DEF IInv

\* The invariant holds in every interleaving.
THEOREM Invariance == Spec => []IInv
<1>1. Init => IInv
  BY InitType, InitRow DEF IInv
<1>2. ASSUME IInv, [Next]_vars
      PROVE  IInv'
  <2>1. CASE \E p \in Process : ProcessNext(p)
    <3>1. PICK p \in Process : ProcessNext(p)
      BY <2>1
    <3>2. TypeOK'
      BY <1>2, <3>1, StepType DEF IInv, Row
    <3>3. ASSUME NEW q \in Process PROVE Row(q)'
      BY <1>2, <3>1, <3>2, StepRow DEF IInv
    <3> QED
      BY <3>2, <3>3 DEF IInv
  <2>2. CASE UNCHANGED vars
    BY <1>2, <2>2, Stuttering
  <2> QED
    BY <1>2, <2>1, <2>2 DEF Next
<1> QED
  BY <1>1, <1>2, PTL DEF Spec

\* Ledgers, views and what commands hold of them stay sets of events.
THEOREM TypeCorrect == Spec => []TypeOK
<1>1. IInv => TypeOK
  BY DEF IInv
<1> QED
  BY <1>1, Invariance, PTL

\* An append that was not torn apart adds its events to each ledger it is
\* applied to, and has none for the others.
LEMMA AppendAdds ==
  ASSUME IInv, NEW p \in Process, ApplyAppend(p), NEW l \in Ledger \ torn[p]
  PROVE  ledger'[l] = ledger[l] \union Brought(p, l)
<1>1. pc[p] = "appendable" /\ Behind(p) = Ledger
  <2>1. pc[p] = "appendable" /\ ~More(p)
    BY LedgerNumbers DEF ApplyAppend, IInv, Row, Position, More
  <2> QED
    BY <2>1, BehindAll DEF IInv
<1>2. CASE l \in touched[p]
  <2>1. payload[p][l] = base[p][l] \union Brought(p, l)
    BY <1>1, <1>2 DEF IInv, Row, AppendKeeps
  <2> QED
    BY <1>2, <2>1 DEF ApplyAppend
<1>3. CASE l \notin touched[p]
  <2>1. Brought(p, l) = {}
    BY <1>1, <1>3 DEF IInv, Row, AppendKeeps
  <2> QED
    BY <1>3, <2>1 DEF ApplyAppend
<1> QED
  BY <1>2, <1>3

\* No other step changes a ledger.
LEMMA OnlyAppendsChange ==
  ASSUME IInv, [Next]_vars, ledger' # ledger
  PROVE  \E p \in Process :
           /\ pc[p] = "appendable" /\ pc'[p] = "idle"
           /\ \A l \in Ledger \ torn[p] :
                ledger'[l] = ledger[l] \union Brought(p, l)
<1>1. PICK p \in Process : ApplyAppend(p)
  BY DEF Next, ProcessNext, vars, StartAppend, Skip, ReadLedger,
         RefuseConflict, Bind, BuildAppend, StartReconcile, Look,
         BuildReconcile, ApplyReconcile, GiveUp
<1>2. pc[p] = "appendable" /\ pc'[p] = "idle"
  BY <1>1 DEF ApplyAppend, Forget, IInv, TypeOK
<1> QED
  BY <1>1, <1>2, AppendAdds

\* Every append that takes effect adds all of its events, to all that others had
\* appended before it, but for ledgers that changed between its two reads.
THEOREM AppendsAreExact == Spec => AppendsAddTheirEvents
<1>1. IInv /\ [Next]_vars =>
        [ledger' # ledger =>
           \E p \in Process :
             /\ pc[p] = "appendable" /\ pc'[p] = "idle"
             /\ \A l \in Ledger \ torn[p] :
                  ledger'[l] =
                    ledger[l] \union {e \in incoming[p] : LedgerOf[e] = l}]_vars
  BY OnlyAppendsChange DEF Brought
<1> QED
  BY <1>1, Invariance, PTL DEF Spec, AppendsAddTheirEvents

\* Reconciling is the only step that changes the views; it writes the projection
\* of what it had fingerprinted, and that is what the ledgers are when it does.
THEOREM ReconciledViews == Spec => ViewsAreCurrent
<1>1. ASSUME IInv, [Next]_vars, NEW p \in Process,
             pc[p] = "projected", pc'[p] = "idle", view' # view,
             NEW l \in Ledger \ torn[p]
      PROVE  view'[l] = Projected(ledger)[l]
  <2>1. PICK q \in Process : ApplyReconcile(q)
    BY <1>1
       DEF Next, ProcessNext, vars, StartAppend, Skip, ReadLedger,
           RefuseConflict, Bind, BuildAppend, ApplyAppend, StartReconcile,
           Look, BuildReconcile, GiveUp
  <2>2. q = p
    BY <1>1, <2>1 DEF ApplyReconcile, Forget, IInv, TypeOK
  <2>3. payload[p][l] = Projection(l, base[p][l])
    BY <1>1 DEF IInv, Row, LookKeeps
  <2> QED
    BY <2>1, <2>2, <2>3 DEF ApplyReconcile, Projected
<1>2. IInv /\ [Next]_vars =>
        [\A p \in Process :
           pc[p] = "projected" /\ pc'[p] = "idle" /\ view' # view =>
             \A l \in Ledger \ torn[p] : view'[l] = Projected(ledger)[l]]_vars
  BY <1>1
<1> QED
  BY <1>2, Invariance, PTL DEF Spec, ViewsAreCurrent
\* What is consumed in the ledger is not left open by its projection.
LEMMA ConsumedIsClosed ==
  ASSUME NEW events \in SUBSET Event, NEW e \in events \intersect Consumed
  PROVE  \A f \in Projection(Evaluations, events) \ Consumed :
           EvaluationOf[f] # EvaluationOf[e]
BY DEF Projection

\* Appends that were not torn keep what the ledger says to be consumed, and
\* reconciles close it.
THEOREM ResumableHandoffs == Spec => ResumableUntilReconciled
<1> DEFINE Torn == \E p \in Process : /\ pc[p] \in {"appendable", "projected"}
                                      /\ pc'[p] = "idle" /\ Evaluations \in torn[p]
           Kept == LET old == Checkpoint(view)
                       new == Checkpoint(view')
                   IN Recovers(old, old, ledger[Evaluations]) =>
                        \/ Recovers(old, new, ledger'[Evaluations])
                        \/ old.incomplete \intersect new.incomplete = {}
                        \/ Torn
<1>1. ASSUME IInv, [Next]_vars PROVE Kept
  <2> SUFFICES ASSUME ~ Torn,
                      Recovers(Checkpoint(view), Checkpoint(view), ledger[Evaluations])
               PROVE  \/ Recovers(Checkpoint(view), Checkpoint(view'), ledger'[Evaluations])
                      \/ Checkpoint(view).incomplete
                           \intersect Checkpoint(view').incomplete = {}
    OBVIOUS
  <2>1. Evaluations \in Ledger
    BY LedgerAssumption
  <2>2. CASE \E p \in Process : ApplyReconcile(p)
    <3>1. PICK p \in Process : ApplyReconcile(p)
      BY <2>2
    <3>2. pc[p] = "projected" /\ pc'[p] = "idle" /\ ledger = base[p] /\ view' = payload[p]
      BY <1>1, <3>1 DEF ApplyReconcile, Forget, IInv, TypeOK
    <3>3. view'[Evaluations] = Projection(Evaluations, ledger[Evaluations])
      BY <1>1, <2>1, <3>2 DEF IInv, Row, LookKeeps
    <3>4. ledger[Evaluations] \in SUBSET Event
      BY <1>1, <2>1 DEF IInv, TypeOK, Files
    <3>5. ASSUME NEW x \in Checkpoint(view).incomplete PROVE x \notin Checkpoint(view').incomplete
      <4>1. PICK e \in ledger[Evaluations] \intersect Consumed : EvaluationOf[e] = x
        BY <3>5 DEF Recovers
      <4>2. \A f \in view'[Evaluations] \ Consumed : EvaluationOf[f] # x
        BY <3>3, <3>4, <4>1, ConsumedIsClosed
      <4> QED BY <4>2 DEF Checkpoint
    <3> QED BY <3>5
  <2>3. CASE ~ \E p \in Process : ApplyReconcile(p)
    <3>1. view' = view
      BY <1>1, <2>3
         DEF Next, ProcessNext, vars, StartAppend, Skip, ReadLedger,
             RefuseConflict, Bind, BuildAppend, ApplyAppend, StartReconcile,
             Look, BuildReconcile, GiveUp
    <3>2. ledger[Evaluations] \subseteq ledger'[Evaluations]
      <4>1. CASE ledger' # ledger
        <5>1. PICK p \in Process :
                /\ pc[p] = "appendable" /\ pc'[p] = "idle"
                /\ \A l \in Ledger \ torn[p] :
                     ledger'[l] = ledger[l] \union Brought(p, l)
          BY <1>1, <4>1, OnlyAppendsChange
        <5>2. Evaluations \notin torn[p]
          BY <5>1
        <5> QED
          BY <2>1, <5>1, <5>2
      <4> QED
        BY <4>1
    <3> QED BY <3>1, <3>2 DEF Recovers
  <2> QED BY <2>2, <2>3
<1>2. IInv /\ [Next]_vars => [Kept]_vars
  BY <1>1
<1> QED
  BY <1>2, Invariance, PTL DEF Spec, ResumableUntilReconciled
=============================================================================

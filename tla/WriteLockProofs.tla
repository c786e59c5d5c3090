--------------------------- MODULE WriteLockProofs ---------------------------
(***************************************************************************)
(* write_lock(root) is mutually exclusive, for any processes, threads,     *)
(* roots and nesting.                                                      *)
(*                                                                         *)
(* The inductive invariant is TypeOK with LocksMatchBlocks: that depths    *)
(* count the open blocks is what makes the innermost exits keep the file   *)
(* lock, and that the RLock count is what its owner accounts for is what   *)
(* keeps the count a natural number.  Mutual exclusion follows from        *)
(* FlocksMatch: two threads inside one root would both hold its file lock. *)
(* That it implements WorkspaceMutex follows as well: the occupant of a    *)
(* root is the holder of its file lock, which changes hands by way of      *)
(* nobody only.                                                            *)
(***************************************************************************)
EXTENDS WriteLock, FiniteSetTheorems, SequenceTheorems, TLAPS

-----------------------------------------------------------------------------
(* Counting the blocks of a root                                           *)

\* The positions of a root in a sequence of blocks are finitely many, and
\* there are none of them exactly when their count is 0.
LEMMA OccurrencesCounted ==
  ASSUME NEW s \in Seq(Root), NEW r
  PROVE  /\ IsFiniteSet(Occurrences(s, r))
         /\ Cardinality(Occurrences(s, r)) \in Nat
         /\ Cardinality(Occurrences(s, r)) = 0 <=> Occurrences(s, r) = {}
<1>1. IsFiniteSet(1..Len(s))
  BY FS_Interval
<1>2. Occurrences(s, r) \subseteq 1..Len(s)
  BY DEF Occurrences
<1>3. IsFiniteSet(Occurrences(s, r))
  BY <1>1, <1>2, FS_Subset
<1>4. QED
  BY <1>3, FS_CardinalityType, FS_EmptySet

\* Opening a block adds one occurrence of its root and none of another.
LEMMA CountPush ==
  ASSUME NEW s \in Seq(Root), NEW q \in Root, NEW r \in Root
  PROVE  /\ Append(s, q) \in Seq(Root)
         /\ Len(Append(s, q)) = Len(s) + 1
         /\ Cardinality(Occurrences(Append(s, q), r)) =
              Cardinality(Occurrences(s, r)) + (IF r = q THEN 1 ELSE 0)
<1>1. /\ Append(s, q) \in Seq(Root)
      /\ Len(Append(s, q)) = Len(s) + 1
  OBVIOUS
<1>2. CASE r = q
  <2>1. Occurrences(Append(s, q), r) = Occurrences(s, r) \union {Len(s) + 1}
    BY <1>2 DEF Occurrences
  <2>2. Len(s) + 1 \notin Occurrences(s, r)
    BY DEF Occurrences
  <2>3. IsFiniteSet(Occurrences(s, r))
    BY OccurrencesCounted
  <2>4. Cardinality(Occurrences(s, r) \union {Len(s) + 1}) =
          Cardinality(Occurrences(s, r)) + 1
    BY <2>2, <2>3, FS_AddElement
  <2>5. QED
    BY <1>1, <1>2, <2>1, <2>4
<1>3. CASE r # q
  <2>1. Occurrences(Append(s, q), r) = Occurrences(s, r)
    BY <1>3 DEF Occurrences
  <2>2. QED
    BY <1>1, <1>3, <2>1, OccurrencesCounted
<1>4. QED
  BY <1>2, <1>3

\* There is an innermost block exactly when there is a block.
LEMMA NonEmptyLength ==
  ASSUME NEW s \in Seq(Root), s # <<>>
  PROVE  Len(s) = 1 \/ Len(s) > 1
<1>1. Len(s) \in Nat
  BY LenProperties
<1>2. Len(s) # 0
  BY EmptySeq
<1>3. QED
  BY <1>1, <1>2

\* Closing the innermost block removes one occurrence of its root.
LEMMA CountPop ==
  ASSUME NEW s \in Seq(Root), s # <<>>, NEW r \in Root
  PROVE  /\ Pop(s) \in Seq(Root)
         /\ Len(Pop(s)) = Len(s) - 1
         /\ s[Len(s)] \in Root
         /\ Cardinality(Occurrences(s, r)) =
              Cardinality(Occurrences(Pop(s), r))
                + (IF r = s[Len(s)] THEN 1 ELSE 0)
<1>1. Len(s) \in Nat /\ (Len(s) = 1 \/ Len(s) > 1)
  <2>1. Len(s) \in Nat
    OBVIOUS
  <2>2. QED
    BY <2>1, NonEmptyLength
<1> DEFINE t == Pop(s)
           q == s[Len(s)]
<1>2. \A i \in 1..Len(s) : s[i] \in Root
  OBVIOUS
<1>3. /\ t \in Seq(Root)
      /\ Len(t) = Len(s) - 1
      /\ \A i \in 1..(Len(s) - 1) : t[i] = s[i]
  <2>1. \A i \in 1..(Len(s) - 1) : s[i] \in Root
    BY <1>1, <1>2
  <2>2. /\ t \in Seq(Root)
        /\ Len(t) = IF 1 <= Len(s) - 1 THEN Len(s) - 1 - 1 + 1 ELSE 0
        /\ \A i \in 1..(Len(s) - 1 - 1 + 1) : t[i] = s[1 + i - 1]
    BY <1>1, <2>1, SubSeqProperties DEF Pop
  <2>3. Len(t) = Len(s) - 1
    <3>1. CASE Len(s) = 1
      BY <2>2, <3>1
    <3>2. CASE Len(s) > 1
      BY <1>1, <2>2, <3>2
    <3>3. QED
      BY <1>1, <3>1, <3>2
  <2>4. ASSUME NEW i \in 1..(Len(s) - 1)
        PROVE  t[i] = s[i]
    <3>1. i \in 1..(Len(s) - 1 - 1 + 1) /\ 1 + i - 1 = i
      BY <1>1
    <3>2. t[i] = s[1 + i - 1]
      BY <2>2, <3>1
    <3>3. QED
      BY <3>1, <3>2
  <2>5. QED
    BY <2>2, <2>3, <2>4
<1>4. q \in Root
  BY <1>1, <1>2
<1> HIDE DEF t, q
<1>5. DOMAIN s = 1..Len(s) /\ DOMAIN t = 1..(Len(s) - 1)
  BY <1>3
<1>6. CASE r = q
  <2>1. Occurrences(s, r) = Occurrences(t, r) \union {Len(s)}
    BY <1>1, <1>3, <1>5, <1>6 DEF Occurrences, q
  <2>2. Len(s) \notin Occurrences(t, r)
    BY <1>1, <1>5 DEF Occurrences
  <2>3. /\ IsFiniteSet(Occurrences(t, r))
        /\ Cardinality(Occurrences(t, r)) \in Nat
    BY <1>3, OccurrencesCounted
  <2>4. Cardinality(Occurrences(s, r)) = Cardinality(Occurrences(t, r)) + 1
    BY <2>1, <2>2, <2>3, FS_AddElement
  <2>5. QED
    BY <1>3, <1>4, <1>6, <2>4 DEF t, q
<1>7. CASE r # q
  <2>1. Occurrences(s, r) = Occurrences(t, r)
    BY <1>1, <1>3, <1>5, <1>7 DEF Occurrences, q
  <2>2. Cardinality(Occurrences(t, r)) \in Nat
    BY <1>3, OccurrencesCounted
  <2>3. QED
    BY <1>3, <1>4, <1>7, <2>1, <2>2 DEF t, q
<1>8. QED
  BY <1>6, <1>7

-----------------------------------------------------------------------------
(* The inductive invariant                                                 *)

IInv == TypeOK /\ LocksMatchBlocks

\* No lock is held initially.
LEMMA InitEstablishes == Init => IInv
<1> SUFFICES ASSUME Init PROVE IInv
  OBVIOUS
<1> USE LockAssumption
<1>1. TypeOK
  BY DEF Init, TypeOK, Locations
<1>2. \A r \in Root : Occurrences(<<>>, r) = {}
  BY DEF Occurrences
<1>3. DepthsMatch /\ FlocksMatch
  BY <1>2, FS_EmptySet DEF Init, DepthsMatch, FlocksMatch, Inside
<1>4. RLocksMatch
  BY DEF Init, RLocksMatch, Holds
<1>5. QED
  BY <1>1, <1>3, <1>4 DEF IInv, LocksMatchBlocks

\* Taking the RLock adds one recursion to what the thread accounts for.
LEMMA TakeRLockKeeps ==
  ASSUME NEW t \in Thread, IInv, TakeRLock(t), pc[t] = "enter",
         pc' \in [Thread -> Locations], blocks' \in [Thread -> Seq(Root)],
         \A u \in Thread \ {t} : pc'[u] = pc[u] /\ blocks'[u] = blocks[u],
         Holds(t)' = Holds(t) + 1
  PROVE  /\ RLocksMatch'
         /\ rlockOwner' \in [Proc -> Thread \union {Nobody}]
         /\ rlockCount' \in [Proc -> Nat]
<1> USE LockAssumption DEF IInv, TypeOK, LocksMatchBlocks
<1>1. /\ rlockOwner' \in [Proc -> Thread \union {Nobody}]
      /\ rlockCount' \in [Proc -> Nat]
  BY DEF TakeRLock
<1>2. \A u \in Thread \ {t} : Holds(u)' = Holds(u)
  BY DEF Holds
<1>3. \A u \in Thread : Holds(u) \in Nat
  BY DEF Holds
<1> DEFINE p == ProcOf[t]
<1>4. CASE rlockOwner[p] = t
  <2>1. rlockCount[p] = Holds(t) /\ Holds(t) > 0
    BY <1>4 DEF RLocksMatch
  <2>2. rlockOwner' = rlockOwner /\ rlockCount' = [rlockCount EXCEPT ![p] = @ + 1]
    BY <1>4 DEF TakeRLock
  <2>3. ASSUME NEW u \in Thread
        PROVE  /\ rlockOwner'[ProcOf[u]] = u <=> Holds(u)' > 0
               /\ Holds(u)' > 0 => rlockCount'[ProcOf[u]] = Holds(u)'
    <3>1. CASE u = t
      BY <1>3, <1>4, <2>1, <2>2, <3>1
    <3>2. CASE u # t
      BY <1>2, <1>3, <1>4, <2>2, <3>2 DEF RLocksMatch
    <3>3. QED
      BY <3>1, <3>2
  <2>4. ASSUME NEW x \in Proc
        PROVE  /\ rlockOwner'[x] = Nobody <=> rlockCount'[x] = 0
               /\ rlockOwner'[x] # Nobody => ProcOf[rlockOwner'[x]] = x
    BY <1>3, <1>4, <2>1, <2>2 DEF RLocksMatch
  <2>5. QED
    BY <1>1, <2>3, <2>4 DEF RLocksMatch
<1>5. CASE rlockOwner[p] = Nobody
  <2>1. rlockCount[p] = 0 /\ Holds(t) = 0
    BY <1>3, <1>5 DEF RLocksMatch
  <2>2. /\ rlockOwner' = [rlockOwner EXCEPT ![p] = t]
        /\ rlockCount' = [rlockCount EXCEPT ![p] = @ + 1]
    BY DEF TakeRLock
  <2>3. \A u \in Thread : ProcOf[u] = p => Holds(u) = 0
    BY <1>3, <1>5 DEF RLocksMatch
  <2>4. ASSUME NEW u \in Thread
        PROVE  /\ rlockOwner'[ProcOf[u]] = u <=> Holds(u)' > 0
               /\ Holds(u)' > 0 => rlockCount'[ProcOf[u]] = Holds(u)'
    <3>1. CASE u = t
      BY <1>3, <2>1, <2>2, <3>1
    <3>2. CASE u # t
      BY <1>2, <1>3, <2>2, <2>3, <3>2 DEF RLocksMatch
    <3>3. QED
      BY <3>1, <3>2
  <2>5. ASSUME NEW x \in Proc
        PROVE  /\ rlockOwner'[x] = Nobody <=> rlockCount'[x] = 0
               /\ rlockOwner'[x] # Nobody => ProcOf[rlockOwner'[x]] = x
    BY <2>1, <2>2 DEF RLocksMatch
  <2>6. QED
    BY <1>1, <2>4, <2>5 DEF RLocksMatch
<1>6. QED
  BY <1>1, <1>4, <1>5 DEF TakeRLock, RLockAvailable

\* Dropping it removes one.
LEMMA DropRLockKeeps ==
  ASSUME NEW t \in Thread, IInv, DropRLock(t), Holds(t) > 0,
         pc' \in [Thread -> Locations], blocks' \in [Thread -> Seq(Root)],
         \A u \in Thread \ {t} : pc'[u] = pc[u] /\ blocks'[u] = blocks[u],
         Holds(t)' = Holds(t) - 1
  PROVE  /\ RLocksMatch'
         /\ rlockOwner' \in [Proc -> Thread \union {Nobody}]
         /\ rlockCount' \in [Proc -> Nat]
<1> USE LockAssumption DEF IInv, TypeOK, LocksMatchBlocks
<1>1. \A u \in Thread \ {t} : Holds(u)' = Holds(u)
  BY DEF Holds
<1>2. \A u \in Thread : Holds(u) \in Nat
  BY DEF Holds
<1>3. /\ rlockOwner[ProcOf[t]] = t
      /\ rlockCount[ProcOf[t]] = Holds(t)
  BY DEF RLocksMatch
<1>4. /\ rlockOwner' \in [Proc -> Thread \union {Nobody}]
      /\ rlockCount' \in [Proc -> Nat]
  BY <1>2, <1>3 DEF DropRLock
<1>5. RLocksMatch'
  BY <1>1, <1>2, <1>3, <1>4 DEF RLocksMatch, DropRLock
<1>6. QED
  BY <1>4, <1>5

\* A thread is inside the roots whose depth is positive.
LEMMA InsideIsDepth ==
  ASSUME IInv, NEW t \in Thread, NEW r \in Root
  PROVE  Inside(t, r) <=> depths[t][r] > 0
<1>1. blocks[t] \in Seq(Root)
  BY DEF IInv, TypeOK
<1>2. /\ Cardinality(Occurrences(blocks[t], r)) \in Nat
      /\ Cardinality(Occurrences(blocks[t], r)) = 0 <=> ~Inside(t, r)
  BY <1>1, OccurrencesCounted DEF Inside
<1>3. QED
  BY <1>2 DEF IInv, LocksMatchBlocks, DepthsMatch

\* Opening a block of root q keeps depths and blocks in step.
LEMMA PushKeeps ==
  ASSUME IInv, NEW t \in Thread, NEW q \in Root,
         blocks' = [blocks EXCEPT ![t] = Append(@, q)],
         depths' = [depths EXCEPT ![t][q] = @ + 1]
  PROVE  /\ blocks' \in [Thread -> Seq(Root)]
         /\ depths' \in [Thread -> [Root -> Nat]]
         /\ DepthsMatch'
         /\ Len(blocks'[t]) = Len(blocks[t]) + 1
         /\ \A u \in Thread \ {t} : blocks'[u] = blocks[u]
         /\ \A u \in Thread, r \in Root :
              Inside(u, r)' <=> Inside(u, r) \/ (u = t /\ r = q)
<1>1. blocks \in [Thread -> Seq(Root)] /\ depths \in [Thread -> [Root -> Nat]]
  BY DEF IInv, TypeOK
<1>2. /\ Append(blocks[t], q) \in Seq(Root)
      /\ Len(Append(blocks[t], q)) = Len(blocks[t]) + 1
      /\ \A r \in Root : Cardinality(Occurrences(Append(blocks[t], q), r)) =
            Cardinality(Occurrences(blocks[t], r)) + (IF r = q THEN 1 ELSE 0)
  BY <1>1, CountPush
<1>3. /\ blocks' \in [Thread -> Seq(Root)]
      /\ depths' \in [Thread -> [Root -> Nat]]
      /\ blocks'[t] = Append(blocks[t], q)
      /\ \A u \in Thread \ {t} : blocks'[u] = blocks[u]
  BY <1>1, <1>2
<1>4. DepthsMatch'
  BY <1>1, <1>2, <1>3 DEF DepthsMatch, IInv, LocksMatchBlocks
<1>5. ASSUME NEW u \in Thread, NEW r \in Root
      PROVE  Inside(u, r)' <=> Inside(u, r) \/ (u = t /\ r = q)
  <2>1. CASE u # t
    BY <1>3, <2>1 DEF Inside
  <2>2. CASE u = t
    <3>1. /\ Cardinality(Occurrences(blocks[t], r)) \in Nat
          /\ Inside(t, r) <=> Cardinality(Occurrences(blocks[t], r)) # 0
          /\ Inside(t, r)' <=>
               Cardinality(Occurrences(Append(blocks[t], q), r)) # 0
      BY <1>1, <1>2, <1>3, OccurrencesCounted DEF Inside
    <3>2. QED
      BY <1>2, <2>2, <3>1
  <2>3. QED
    BY <2>1, <2>2
<1>6. QED
  BY <1>2, <1>3, <1>4, <1>5

\* Closing the innermost block does too, and the thread is still inside its
\* root if the depth was more than 1.
LEMMA PopKeeps ==
  ASSUME IInv, NEW t \in Thread, blocks[t] # <<>>,
         blocks' = [blocks EXCEPT ![t] = Pop(@)],
         depths' = [depths EXCEPT ![t][Top(t)] = @ - 1]
  PROVE  /\ Top(t) \in Root
         /\ Inside(t, Top(t))
         /\ blocks' \in [Thread -> Seq(Root)]
         /\ depths' \in [Thread -> [Root -> Nat]]
         /\ DepthsMatch'
         /\ Len(blocks'[t]) = Len(blocks[t]) - 1
         /\ \A u \in Thread \ {t} : blocks'[u] = blocks[u]
         /\ \A u \in Thread, r \in Root :
              Inside(u, r)' <=>
                /\ Inside(u, r)
                /\ u = t /\ r = Top(t) => depths[t][r] > 1
<1> DEFINE q == Top(t)
<1>1. blocks \in [Thread -> Seq(Root)] /\ depths \in [Thread -> [Root -> Nat]]
  BY DEF IInv, TypeOK
<1>2. blocks[t] \in Seq(Root)
  BY <1>1
<1>3. /\ Pop(blocks[t]) \in Seq(Root)
      /\ Len(Pop(blocks[t])) = Len(blocks[t]) - 1
      /\ \A r \in Root : Cardinality(Occurrences(blocks[t], r)) =
            Cardinality(Occurrences(Pop(blocks[t]), r))
              + (IF r = q THEN 1 ELSE 0)
  BY <1>2, CountPop DEF Top
<1>4. q \in Root
  <2>1. Len(blocks[t]) = 1 \/ Len(blocks[t]) > 1
    BY <1>2, NonEmptyLength
  <2>2. QED
    BY <1>2, <2>1 DEF Top
<1> HIDE DEF q
<1>5. \A r \in Root :
        /\ depths[t][r] = Cardinality(Occurrences(blocks[t], r))
        /\ Cardinality(Occurrences(Pop(blocks[t]), r)) \in Nat
        /\ Cardinality(Occurrences(Pop(blocks[t]), r)) = 0 <=>
             Occurrences(Pop(blocks[t]), r) = {}
  BY <1>3, OccurrencesCounted DEF IInv, LocksMatchBlocks, DepthsMatch
<1>6. depths[t][q] \in Nat /\ depths[t][q] > 0
  BY <1>3, <1>4, <1>5
<1>7. Inside(t, q)
  BY <1>4, <1>6, InsideIsDepth
<1>8. /\ depths' = [depths EXCEPT ![t][q] = @ - 1]
      /\ blocks' \in [Thread -> Seq(Root)]
      /\ depths' \in [Thread -> [Root -> Nat]]
      /\ blocks'[t] = Pop(blocks[t])
      /\ \A u \in Thread \ {t} : blocks'[u] = blocks[u]
  BY <1>1, <1>3, <1>4, <1>6 DEF q
<1>9. DepthsMatch'
  <2>1. DepthsMatch
    BY DEF IInv, LocksMatchBlocks
  <2>2. ASSUME NEW u \in Thread \ {t}, NEW r \in Root
        PROVE  depths'[u][r] = Cardinality(Occurrences(blocks'[u], r))
    BY <1>1, <1>4, <1>8, <2>1, <2>2 DEF DepthsMatch
  <2>3. ASSUME NEW r \in Root \ {q}
        PROVE  depths'[t][r] = Cardinality(Occurrences(blocks'[t], r))
    <3>1. depths'[t][r] = depths[t][r]
      BY <1>1, <1>4, <1>8, <2>3
    <3>2. QED
      BY <1>3, <1>5, <1>8, <2>3, <3>1
  <2>4. depths'[t][q] = Cardinality(Occurrences(blocks'[t], q))
    <3>1. depths'[t][q] = depths[t][q] - 1
      BY <1>1, <1>4, <1>8
    <3>2. QED
      BY <1>3, <1>4, <1>5, <1>8, <3>1
  <2>5. QED
    BY <2>2, <2>3, <2>4 DEF DepthsMatch
<1>10. ASSUME NEW u \in Thread, NEW r \in Root
       PROVE  Inside(u, r)' <=>
                Inside(u, r) /\ (u = t /\ r = q => depths[t][r] > 1)
  <2>1. CASE u # t
    BY <1>8, <2>1 DEF Inside
  <2>2. CASE u = t
    <3>1. /\ Inside(t, r)' <=> Cardinality(Occurrences(Pop(blocks[t]), r)) # 0
          /\ Inside(t, r) <=> depths[t][r] > 0
      BY <1>5, <1>8, InsideIsDepth DEF Inside
    <3>2. QED
      BY <1>3, <1>5, <2>2, <3>1
  <2>3. QED
    BY <2>1, <2>2
<1>11. QED
  BY <1>3, <1>4, <1>7, <1>8, <1>9, <1>10 DEF q

-----------------------------------------------------------------------------
(* One lemma per kind of step                                              *)

\* Coming to a with-statement.
LEMMA CallKeeps ==
  ASSUME IInv, NEW t \in Thread, NEW r \in Root, Call(t, r)
  PROVE  IInv'
<1> USE LockAssumption DEF IInv, LocksMatchBlocks
<1>1. TypeOK'
  BY DEF Call, TypeOK, Locations
<1>2. DepthsMatch' /\ FlocksMatch'
  BY DEF Call, DepthsMatch, FlocksMatch, Inside
<1>3. \A u \in Thread : Holds(u)' = Holds(u)
  BY DEF Call, Holds, TypeOK
<1>4. RLocksMatch'
  BY <1>3 DEF Call, RLocksMatch
<1>5. QED
  BY <1>1, <1>2, <1>4

\* Entering a root the thread is inside of: one block, one RLock recursion more.
LEMMA EnterNestedKeeps ==
  ASSUME IInv, NEW t \in Thread, EnterNested(t)
  PROVE  IInv'
<1> DEFINE q == want[t]
<1>1. /\ q \in Root
      /\ blocks' = [blocks EXCEPT ![t] = Append(@, q)]
      /\ depths' = [depths EXCEPT ![t][q] = @ + 1]
      /\ depths[t][q] > 0
  BY DEF EnterNested, IInv, TypeOK
<1> HIDE DEF q
<1>2. /\ blocks' \in [Thread -> Seq(Root)]
      /\ depths' \in [Thread -> [Root -> Nat]]
      /\ DepthsMatch'
      /\ Len(blocks'[t]) = Len(blocks[t]) + 1
      /\ \A u \in Thread \ {t} : blocks'[u] = blocks[u]
      /\ \A u \in Thread, r \in Root :
           Inside(u, r)' <=> Inside(u, r) \/ (u = t /\ r = q)
  BY <1>1, PushKeeps
<1>3. /\ pc' \in [Thread -> Locations]
      /\ \A u \in Thread \ {t} : pc'[u] = pc[u]
      /\ pc[t] = "enter" /\ pc'[t] = "run"
      /\ flock' = flock /\ want' = want /\ expired' = expired
      /\ TakeRLock(t)
  BY DEF EnterNested, IInv, TypeOK, Locations
<1>4. Holds(t)' = Holds(t) + 1
  BY <1>2, <1>3 DEF Holds, IInv, TypeOK
<1>5. /\ RLocksMatch'
      /\ rlockOwner' \in [Proc -> Thread \union {Nobody}]
      /\ rlockCount' \in [Proc -> Nat]
  BY <1>2, <1>3, <1>4, TakeRLockKeeps
<1>6. FlocksMatch'
  BY <1>1, <1>2, <1>3, InsideIsDepth DEF FlocksMatch, IInv, LocksMatchBlocks
<1>7. QED
  BY <1>2, <1>3, <1>5, <1>6 DEF IInv, TypeOK, LocksMatchBlocks

\* The RLock is taken, the file lock is not yet.
LEMMA EnterOuterKeeps ==
  ASSUME IInv, NEW t \in Thread, EnterOuter(t)
  PROVE  IInv'
<1>1. /\ pc' \in [Thread -> Locations]
      /\ expired' \in [Thread -> BOOLEAN]
      /\ \A u \in Thread \ {t} : pc'[u] = pc[u]
      /\ pc[t] = "enter" /\ pc'[t] = "poll"
      /\ flock' = flock /\ want' = want /\ blocks' = blocks /\ depths' = depths
      /\ TakeRLock(t)
  BY DEF EnterOuter, IInv, TypeOK, Locations
<1>2. Holds(t)' = Holds(t) + 1
  BY <1>1 DEF Holds, IInv, TypeOK
<1>3. blocks' \in [Thread -> Seq(Root)]
  BY <1>1 DEF IInv, TypeOK
<1>4. /\ RLocksMatch'
      /\ rlockOwner' \in [Proc -> Thread \union {Nobody}]
      /\ rlockCount' \in [Proc -> Nat]
  BY <1>1, <1>2, <1>3, TakeRLockKeeps
<1>5. DepthsMatch' /\ FlocksMatch'
  BY <1>1 DEF DepthsMatch, FlocksMatch, Inside, IInv, LocksMatchBlocks
<1>6. QED
  BY <1>1, <1>4, <1>5 DEF IInv, TypeOK, LocksMatchBlocks

\* A failed open and a passing deadline touch nothing the invariant relates.
LEMMA QuietStepKeeps ==
  ASSUME IInv, NEW t \in Thread, OpenFails(t) \/ DeadlinePasses(t)
  PROVE  IInv'
<1>1. TypeOK'
  BY DEF OpenFails, DeadlinePasses, IInv, TypeOK, Locations
<1>2. DepthsMatch' /\ FlocksMatch'
  BY DEF OpenFails, DeadlinePasses, DepthsMatch, FlocksMatch, Inside, IInv,
         LocksMatchBlocks
<1>3. \A u \in Thread : Holds(u)' = Holds(u)
  BY DEF OpenFails, DeadlinePasses, Holds, IInv, TypeOK
<1>4. RLocksMatch'
  BY <1>3 DEF OpenFails, DeadlinePasses, RLocksMatch, IInv, LocksMatchBlocks
<1>5. QED
  BY <1>1, <1>2, <1>4 DEF IInv, LocksMatchBlocks

\* The file lock is free, so the thread's new block is the root's only one.
LEMMA LockKeeps ==
  ASSUME IInv, NEW t \in Thread, Lock(t)
  PROVE  IInv'
<1> USE LockAssumption
<1> DEFINE q == want[t]
<1>1. /\ q \in Root
      /\ blocks' = [blocks EXCEPT ![t] = Append(@, q)]
      /\ depths' = [depths EXCEPT ![t][q] = 1]
      /\ flock' = [flock EXCEPT ![q] = t]
      /\ flock[q] = Nobody
      /\ rlockOwner' = rlockOwner /\ rlockCount' = rlockCount
      /\ want' = want /\ expired' = expired
  BY DEF Lock, IInv, TypeOK
<1> HIDE DEF q
<1>2. \A u \in Thread : ~Inside(u, q)
  BY <1>1 DEF IInv, LocksMatchBlocks, FlocksMatch
<1>3. depths[t][q] = 0
  BY <1>1, <1>2, InsideIsDepth DEF IInv, TypeOK
<1>4. depths' = [depths EXCEPT ![t][q] = @ + 1]
  BY <1>1, <1>3 DEF IInv, TypeOK
<1>5. /\ blocks' \in [Thread -> Seq(Root)]
      /\ depths' \in [Thread -> [Root -> Nat]]
      /\ DepthsMatch'
      /\ Len(blocks'[t]) = Len(blocks[t]) + 1
      /\ \A u \in Thread \ {t} : blocks'[u] = blocks[u]
      /\ \A u \in Thread, r \in Root :
           Inside(u, r)' <=> Inside(u, r) \/ (u = t /\ r = q)
  BY <1>1, <1>4, PushKeeps
<1>6. /\ pc' \in [Thread -> Locations]
      /\ \A u \in Thread \ {t} : pc'[u] = pc[u]
      /\ pc[t] = "poll" /\ pc'[t] = "run"
  BY DEF Lock, IInv, TypeOK, Locations
<1>7. ASSUME NEW u \in Thread PROVE Holds(u)' = Holds(u)
  <2>1. CASE u = t
    <3>1. Len(blocks[t]) \in Nat
      BY DEF IInv, TypeOK
    <3>2. Holds(t) = Len(blocks[t]) + 1
      BY <1>6, <3>1 DEF Holds
    <3>3. Holds(t)' = Len(blocks'[t])
      BY <1>5, <1>6, <3>1 DEF Holds
    <3>4. QED
      BY <1>5, <2>1, <3>2, <3>3
  <2>2. CASE u # t
    BY <1>5, <1>6, <2>2 DEF Holds
  <2>3. QED
    BY <2>1, <2>2
<1>8. RLocksMatch'
  BY <1>1, <1>7 DEF RLocksMatch, IInv, LocksMatchBlocks
<1>9. flock' \in [Root -> Thread \union {Nobody}]
  BY <1>1 DEF IInv, TypeOK
<1>10. FlocksMatch'
  BY <1>1, <1>2, <1>5, <1>9 DEF FlocksMatch, IInv, LocksMatchBlocks, TypeOK
<1>11. QED
  BY <1>1, <1>5, <1>6, <1>8, <1>9, <1>10 DEF IInv, TypeOK, LocksMatchBlocks

\* A time-out and the closing of the handle after an outermost block.
LEMMA LastDropKeeps ==
  ASSUME IInv, NEW t \in Thread, TimeOut(t) \/ CloseHandle(t)
  PROVE  IInv'
<1>1. /\ pc' \in [Thread -> Locations]
      /\ \A u \in Thread \ {t} : pc'[u] = pc[u]
      /\ pc[t] \in {"poll", "close"} /\ pc'[t] = "run"
      /\ flock' = flock /\ want' = want /\ expired' = expired
      /\ blocks' = blocks /\ depths' = depths
      /\ DropRLock(t)
  BY DEF TimeOut, PollExpires, CloseHandle, IInv, TypeOK, Locations
<1>2. blocks[t] \in Seq(Root) /\ blocks' \in [Thread -> Seq(Root)]
  BY <1>1 DEF IInv, TypeOK
<1>3. Len(blocks[t]) \in Nat
  BY <1>2
<1>4. Holds(t) > 0 /\ Holds(t)' = Holds(t) - 1
  BY <1>1, <1>3 DEF Holds
<1>5. /\ RLocksMatch'
      /\ rlockOwner' \in [Proc -> Thread \union {Nobody}]
      /\ rlockCount' \in [Proc -> Nat]
  BY <1>1, <1>2, <1>4, DropRLockKeeps
<1>6. DepthsMatch' /\ FlocksMatch'
  BY <1>1 DEF DepthsMatch, FlocksMatch, Inside, IInv, LocksMatchBlocks
<1>7. QED
  BY <1>1, <1>5, <1>6 DEF IInv, TypeOK, LocksMatchBlocks

\* Leaving an inner block keeps the file lock, since another block is open.
LEMMA LeaveNestedKeeps ==
  ASSUME IInv, NEW t \in Thread, LeaveNested(t)
  PROVE  IInv'
<1> DEFINE q == Top(t)
<1>1. /\ blocks[t] # <<>>
      /\ blocks' = [blocks EXCEPT ![t] = Pop(@)]
      /\ depths' = [depths EXCEPT ![t][q] = @ - 1]
      /\ depths[t][q] > 1
      /\ flock' = flock /\ want' = want /\ expired' = expired /\ pc' = pc
      /\ pc[t] = "run"
      /\ DropRLock(t)
  BY DEF LeaveNested
<1>2. /\ q \in Root
      /\ blocks' \in [Thread -> Seq(Root)]
      /\ depths' \in [Thread -> [Root -> Nat]]
      /\ DepthsMatch'
      /\ Len(blocks'[t]) = Len(blocks[t]) - 1
      /\ \A u \in Thread \ {t} : blocks'[u] = blocks[u]
      /\ \A u \in Thread, r \in Root :
           Inside(u, r)' <=>
             Inside(u, r) /\ (u = t /\ r = q => depths[t][r] > 1)
  BY <1>1, PopKeeps
<1> HIDE DEF q
<1>3. pc' \in [Thread -> Locations]
  BY <1>1 DEF IInv, TypeOK
<1>4. Len(blocks[t]) \in Nat /\ (Len(blocks[t]) = 1 \/ Len(blocks[t]) > 1)
  <2>1. blocks[t] \in Seq(Root)
    BY DEF IInv, TypeOK
  <2>2. Len(blocks[t]) \in Nat
    BY <2>1
  <2>3. QED
    BY <1>1, <2>1, <2>2, NonEmptyLength
<1>5. Holds(t) > 0 /\ Holds(t)' = Holds(t) - 1
  BY <1>1, <1>2, <1>4 DEF Holds
<1>6. /\ RLocksMatch'
      /\ rlockOwner' \in [Proc -> Thread \union {Nobody}]
      /\ rlockCount' \in [Proc -> Nat]
  BY <1>1, <1>2, <1>3, <1>5, DropRLockKeeps
<1>7. FlocksMatch'
  BY <1>1, <1>2 DEF FlocksMatch, IInv, LocksMatchBlocks
<1>8. QED
  BY <1>1, <1>2, <1>3, <1>6, <1>7 DEF IInv, TypeOK, LocksMatchBlocks

\* Leaving the outermost block of a root gives up its file lock.
LEMMA LeaveOuterKeeps ==
  ASSUME IInv, NEW t \in Thread, LeaveOuter(t)
  PROVE  IInv'
<1> USE LockAssumption
<1> DEFINE q == Top(t)
<1>1. /\ blocks[t] # <<>>
      /\ blocks' = [blocks EXCEPT ![t] = Pop(@)]
      /\ depths' = [depths EXCEPT ![t][q] = 0]
      /\ depths[t][q] = 1
      /\ flock' = [flock EXCEPT ![q] = Nobody]
      /\ want' = want /\ expired' = expired
      /\ rlockOwner' = rlockOwner /\ rlockCount' = rlockCount
      /\ pc[t] = "run"
  BY DEF LeaveOuter
<1>2. depths' = [depths EXCEPT ![t][q] = @ - 1]
  BY <1>1 DEF IInv, TypeOK
<1>3. /\ q \in Root
      /\ Inside(t, q)
      /\ blocks' \in [Thread -> Seq(Root)]
      /\ depths' \in [Thread -> [Root -> Nat]]
      /\ DepthsMatch'
      /\ Len(blocks'[t]) = Len(blocks[t]) - 1
      /\ \A u \in Thread \ {t} : blocks'[u] = blocks[u]
      /\ \A u \in Thread, r \in Root :
           Inside(u, r)' <=>
             Inside(u, r) /\ (u = t /\ r = q => depths[t][r] > 1)
  BY <1>1, <1>2, PopKeeps
<1> HIDE DEF q
<1>4. /\ pc' \in [Thread -> Locations]
      /\ \A u \in Thread \ {t} : pc'[u] = pc[u]
      /\ pc'[t] = "close"
  BY DEF LeaveOuter, IInv, TypeOK, Locations
<1>5. Len(blocks[t]) \in Nat
  BY DEF IInv, TypeOK
<1>6. ASSUME NEW u \in Thread PROVE Holds(u)' = Holds(u)
  <2>1. CASE u = t
    BY <1>1, <1>3, <1>4, <1>5, <2>1 DEF Holds
  <2>2. CASE u # t
    BY <1>3, <1>4, <2>2 DEF Holds
  <2>3. QED
    BY <2>1, <2>2
<1>7. RLocksMatch'
  BY <1>1, <1>6 DEF RLocksMatch, IInv, LocksMatchBlocks
<1>8. flock' \in [Root -> Thread \union {Nobody}]
  BY <1>1 DEF IInv, TypeOK
<1>9. FlocksMatch'
  <2>1. ASSUME NEW u \in Thread, NEW r \in Root
        PROVE  flock'[r] = u <=> Inside(u, r)'
    <3>1. CASE r = q
      BY <1>1, <1>3, <1>8, <2>1, <3>1 DEF FlocksMatch, IInv, LocksMatchBlocks, TypeOK
    <3>2. CASE r # q
      BY <1>1, <1>3, <3>2 DEF FlocksMatch, IInv, LocksMatchBlocks, TypeOK
    <3>3. QED
      BY <3>1, <3>2
  <2>2. QED
    BY <2>1 DEF FlocksMatch, Inside
<1>10. QED
  BY <1>1, <1>3, <1>4, <1>7, <1>8, <1>9 DEF IInv, TypeOK, LocksMatchBlocks

\* A process dies with all of its threads' blocks, locks and depths.
LEMMA CrashKeeps ==
  ASSUME IInv, NEW p \in Proc, Crash(p)
  PROVE  IInv'
<1> USE LockAssumption
<1> DEFINE dead == {t \in Thread : ProcOf[t] = p}
<1>1. /\ rlockOwner' = [rlockOwner EXCEPT ![p] = Nobody]
      /\ rlockCount' = [rlockCount EXCEPT ![p] = 0]
      /\ flock' = [r \in Root |-> IF flock[r] \in dead THEN Nobody ELSE flock[r]]
      /\ depths' = [t \in Thread |->
                      IF t \in dead THEN [r \in Root |-> 0] ELSE depths[t]]
      /\ blocks' = [t \in Thread |-> IF t \in dead THEN <<>> ELSE blocks[t]]
      /\ pc' = [t \in Thread |-> IF t \in dead THEN "run" ELSE pc[t]]
      /\ expired' = [t \in Thread |-> IF t \in dead THEN FALSE ELSE expired[t]]
      /\ want' = want
  BY DEF Crash
<1>0. dead \subseteq Thread /\ \A t \in Thread : t \in dead <=> ProcOf[t] = p
  OBVIOUS
<1> HIDE DEF dead
<1>2. TypeOK'
  <2>1. /\ rlockOwner' \in [Proc -> Thread \union {Nobody}]
        /\ rlockCount' \in [Proc -> Nat]
        /\ flock' \in [Root -> Thread \union {Nobody}]
    BY <1>1 DEF IInv, TypeOK
  <2>2. depths' \in [Thread -> [Root -> Nat]]
    BY <1>1 DEF IInv, TypeOK
  <2>3. blocks' \in [Thread -> Seq(Root)]
    <3>1. <<>> \in Seq(Root)
      BY EmptySeq
    <3>2. QED
      BY <1>1, <3>1 DEF IInv, TypeOK
  <2>4. /\ pc' \in [Thread -> Locations]
        /\ want' \in [Thread -> Root]
        /\ expired' \in [Thread -> BOOLEAN]
    BY <1>1 DEF IInv, TypeOK, Locations
  <2>5. QED
    BY <2>1, <2>2, <2>3, <2>4 DEF TypeOK
<1>3. \A r \in Root : Occurrences(<<>>, r) = {}
  BY DEF Occurrences
<1>4. ASSUME NEW t \in Thread
      PROVE  /\ t \in dead => blocks'[t] = <<>> /\ pc'[t] = "run"
             /\ t \notin dead => blocks'[t] = blocks[t] /\ pc'[t] = pc[t]
             /\ t \in dead => \A r \in Root : depths'[t][r] = 0 /\ ~Inside(t, r)'
             /\ t \notin dead => depths'[t] = depths[t]
             /\ t \notin dead => \A r \in Root : Inside(t, r)' <=> Inside(t, r)
  BY <1>1, <1>3 DEF Inside
<1>5. DepthsMatch'
  <2>1. ASSUME NEW t \in Thread, NEW r \in Root
        PROVE  depths'[t][r] = Cardinality(Occurrences(blocks'[t], r))
    <3>1. CASE t \in dead
      BY <1>3, <1>4, <3>1, FS_EmptySet
    <3>2. CASE t \notin dead
      BY <1>4, <3>2 DEF DepthsMatch, IInv, LocksMatchBlocks
    <3>3. QED
      BY <3>1, <3>2
  <2>2. QED
    BY <2>1 DEF DepthsMatch, Occurrences
<1>6. FlocksMatch'
  <2>1. ASSUME NEW t \in Thread, NEW r \in Root
        PROVE  flock'[r] = t <=> Inside(t, r)'
    <3>1. flock'[r] = t <=> flock[r] = t /\ t \notin dead
      BY <1>0, <1>1 DEF IInv, TypeOK
    <3>2. flock[r] = t <=> Inside(t, r)
      BY DEF FlocksMatch, IInv, LocksMatchBlocks
    <3>3. QED
      BY <1>4, <3>1, <3>2
  <2>2. QED
    BY <2>1 DEF FlocksMatch, Inside
<1>7. ASSUME NEW t \in Thread
      PROVE  /\ t \in dead => Holds(t)' = 0
             /\ t \notin dead => Holds(t)' = Holds(t)
  <2>1. CASE t \in dead
    <3>1. blocks'[t] = <<>> /\ pc'[t] = "run"
      BY <1>4, <2>1
    <3>2. Len(blocks'[t]) = 0
      BY <3>1, EmptySeq
    <3>3. Holds(t)' = Len(blocks'[t]) + 0
      BY <3>1 DEF Holds
    <3>4. QED
      BY <2>1, <3>2, <3>3
  <2>2. CASE t \notin dead
    BY <1>4, <2>2 DEF Holds
  <2>3. QED
    BY <2>1, <2>2
<1>8. RLocksMatch'
  <2>1. rlockOwner' \in [Proc -> Thread \union {Nobody}]
    BY <1>2 DEF TypeOK
  <2>2. ASSUME NEW t \in Thread
        PROVE  /\ rlockOwner'[ProcOf[t]] = t <=> Holds(t)' > 0
               /\ Holds(t)' > 0 => rlockCount'[ProcOf[t]] = Holds(t)'
    <3>1. CASE t \in dead
      BY <1>0, <1>1, <1>7, <3>1 DEF IInv, TypeOK
    <3>2. CASE t \notin dead
      BY <1>0, <1>1, <1>7, <3>2 DEF RLocksMatch, IInv, LocksMatchBlocks, TypeOK
    <3>3. QED
      BY <3>1, <3>2
  <2>3. ASSUME NEW x \in Proc
        PROVE  /\ rlockOwner'[x] = Nobody <=> rlockCount'[x] = 0
               /\ rlockOwner'[x] # Nobody => ProcOf[rlockOwner'[x]] = x
    BY <1>1 DEF RLocksMatch, IInv, LocksMatchBlocks, TypeOK
  <2>4. QED
    BY <2>2, <2>3 DEF RLocksMatch, Holds
<1>9. QED
  BY <1>2, <1>5, <1>6, <1>8 DEF IInv, LocksMatchBlocks

-----------------------------------------------------------------------------
(* The theorems                                                            *)

\* Every step preserves the invariant.
LEMMA StepKeeps == IInv /\ [Next]_vars => IInv'
<1> SUFFICES ASSUME IInv, [Next]_vars PROVE IInv'
  OBVIOUS
<1>1. ASSUME NEW t \in Thread, ThreadNext(t) PROVE IInv'
  BY <1>1, CallKeeps, EnterNestedKeeps, EnterOuterKeeps, QuietStepKeeps,
     LockKeeps, LastDropKeeps, LeaveNestedKeeps, LeaveOuterKeeps
     DEF ThreadNext
<1>2. ASSUME NEW p \in Proc, Crash(p) PROVE IInv'
  BY <1>2, CrashKeeps
<1>3. CASE UNCHANGED vars
  BY <1>3 DEF vars, IInv, TypeOK, LocksMatchBlocks, DepthsMatch, FlocksMatch,
              RLocksMatch, Inside, Holds
<1>4. QED
  BY <1>1, <1>2, <1>3 DEF Next

\* write_lock's variables keep their types: in particular no RLock is released
\* more often than it was taken, on any path out of a block or a time-out.
THEOREM TypeCorrect == Spec => []TypeOK
<1>1. IInv => TypeOK
  BY DEF IInv
<1>2. QED
  BY InitEstablishes, StepKeeps, <1>1, PTL DEF Spec

\* The RLock, the file locks and the thread-local depths always agree with the
\* blocks that are open.
THEOREM LocksAgree == Spec => []LocksMatchBlocks
<1>1. IInv => LocksMatchBlocks
  BY DEF IInv
<1>2. QED
  BY InitEstablishes, StepKeeps, <1>1, PTL DEF Spec

\* At most one thread of all processes is inside a workspace root.
THEOREM MutuallyExclusive == Spec => []MutualExclusion
<1>1. IInv => MutualExclusion
  BY DEF IInv, LocksMatchBlocks, FlocksMatch, MutualExclusion
<1>2. QED
  BY InitEstablishes, StepKeeps, <1>1, PTL DEF Spec

-----------------------------------------------------------------------------
(* Waiting                                                                 *)

\* Whoever owns the RLock of its process can go on.
LEMMA OwnerGoesOn ==
  ASSUME IInv, NEW u \in Thread, rlockOwner[ProcOf[u]] = u
  PROVE  CanGoOn(u)
<1>1. Holds(u) > 0 /\ pc[u] \in Locations
  BY DEF IInv, LocksMatchBlocks, RLocksMatch, TypeOK
<1>2. CASE pc[u] = "run"
  <2>1. blocks[u] \in Seq(Root) /\ Len(blocks[u]) > 0
    BY <1>1, <1>2 DEF Holds, IInv, TypeOK
  <2>2. /\ blocks[u] # <<>>
        /\ Top(u) \in Root
        /\ Len(blocks[u]) \in Occurrences(blocks[u], Top(u))
    BY <2>1 DEF Top, Occurrences
  <2>3. Inside(u, Top(u))
    BY <2>2 DEF Inside
  <2>4. QED
    BY <1>2, <2>2, <2>3, InsideIsDepth DEF CanGoOn
<1>3. CASE pc[u] = "enter"
  BY <1>3 DEF CanGoOn, RLockAvailable
<1>4. QED
  BY <1>1, <1>2, <1>3 DEF CanGoOn, Locations

\* A thread that waits for an RLock, the one wait without a deadline, holds
\* nothing that others could wait for, and waits for a thread that can go on:
\* no circle of threads, processes and roots waits for itself without end.
THEOREM NoCircularWait == Spec => []WaitersHoldNothing
<1>1. ASSUME IInv, NEW t \in Thread, pc[t] = "enter", ~RLockAvailable(t)
      PROVE  /\ blocks[t] = <<>>
             /\ \A r \in Root : flock[r] # t
             /\ \E u \in Thread : rlockOwner[ProcOf[t]] = u /\ CanGoOn(u)
  <2>1. rlockOwner[ProcOf[t]] \in Thread \ {t} /\ ProcOf[t] \in Proc
    BY <1>1, LockAssumption DEF RLockAvailable, IInv, TypeOK
  <2>2. /\ \A u \in Thread : rlockOwner[ProcOf[u]] = u <=> Holds(u) > 0
        /\ \A p \in Proc :
             rlockOwner[p] # Nobody => ProcOf[rlockOwner[p]] = p
    BY <1>1 DEF IInv, LocksMatchBlocks, RLocksMatch
  <2>3. blocks[t] = <<>>
    <3>1. blocks[t] \in Seq(Root) /\ Len(blocks[t]) \in Nat
      BY <1>1 DEF IInv, TypeOK
    <3>2. ~(Len(blocks[t]) > 0)
      <4>1. Holds(t) = Len(blocks[t])
        BY <1>1, <3>1 DEF Holds
      <4>2. ~(Holds(t) > 0)
        BY <2>1, <2>2
      <4>3. QED
        BY <4>1, <4>2
    <3>3. QED
      BY <3>1, <3>2, EmptySeq
  <2>4. ASSUME NEW r \in Root PROVE flock[r] # t
    <3>1. ~Inside(t, r)
      BY <2>3 DEF Inside, Occurrences
    <3>2. QED
      BY <1>1, <3>1 DEF IInv, LocksMatchBlocks, FlocksMatch
  <2>5. PICK u \in Thread : rlockOwner[ProcOf[t]] = u
    BY <2>1
  <2>6. ProcOf[u] = ProcOf[t]
    BY <2>1, <2>2, <2>5, LockAssumption
  <2>7. QED
    BY <1>1, <2>3, <2>4, <2>5, <2>6, OwnerGoesOn
<1>2. IInv => WaitersHoldNothing
  BY <1>1 DEF WaitersHoldNothing
<1>3. QED
  BY InitEstablishes, StepKeeps, <1>2, PTL DEF Spec

-----------------------------------------------------------------------------
(* The refinement                                                          *)

\* Whoever has an open block of a root is whoever holds its file lock.
LEMMA OccupantHolds ==
  ASSUME IInv, NEW r \in Root
  PROVE  Occupant(r) = flock[r]
<1>1. flock[r] \in Thread \union {Nobody}
  BY DEF IInv, TypeOK
<1>2. \A t \in Thread : flock[r] = t <=> Inside(t, r)
  BY DEF IInv, LocksMatchBlocks, FlocksMatch
<1>3. CASE flock[r] = Nobody
  BY <1>2, <1>3, LockAssumption DEF Occupant
<1>4. CASE flock[r] \in Thread
  <2>1. Inside(flock[r], r)
    BY <1>2, <1>4
  <2>2. \A t \in Thread : Inside(t, r) => t = flock[r]
    BY <1>2
  <2>3. (CHOOSE t \in Thread : Inside(t, r)) = flock[r]
    BY <1>4, <2>1, <2>2
  <2>4. QED
    BY <1>4, <2>1, <2>3 DEF Occupant
<1>5. QED
  BY <1>1, <1>3, <1>4

OccupantsHold == \A r \in Root : Occupant(r) = flock[r]

\* What a step does to the file lock of one root: a thread takes it when it is
\* free, its holder drops it, or it stays as it is.
LEMMA FileLockSteps ==
  ASSUME IInv, [Next]_vars, NEW r \in Root
  PROVE  \/ \E t \in Thread : flock[r] = Nobody /\ flock'[r] = t
         \/ \E t \in Thread : flock[r] = t /\ flock'[r] = Nobody
         \/ flock'[r] = flock[r]
<1>0. flock \in [Root -> Thread \union {Nobody}]
  BY DEF IInv, TypeOK
<1>1. ASSUME NEW t \in Thread, Lock(t)
      PROVE  flock'[r] = flock[r] \/ (flock[r] = Nobody /\ flock'[r] = t)
  BY <1>0, <1>1 DEF Lock
<1>2. ASSUME NEW t \in Thread, LeaveOuter(t)
      PROVE  flock'[r] = flock[r] \/ (flock[r] = t /\ flock'[r] = Nobody)
  <2>1. CASE r = Top(t)
    <3>1. depths[t][r] = 1 /\ flock' = [flock EXCEPT ![r] = Nobody]
      BY <1>2, <2>1 DEF LeaveOuter
    <3>2. Inside(t, r)
      BY <3>1, InsideIsDepth
    <3>3. flock[r] = t
      BY <3>2 DEF IInv, LocksMatchBlocks, FlocksMatch
    <3>4. QED
      BY <1>0, <3>1, <3>3
  <2>2. CASE r # Top(t)
    BY <1>0, <1>2, <2>2 DEF LeaveOuter
  <2>3. QED
    BY <2>1, <2>2
<1>3. ASSUME NEW t \in Thread, ThreadNext(t), ~Lock(t), ~LeaveOuter(t)
      PROVE  flock' = flock
  BY <1>3 DEF ThreadNext, Call, EnterNested, EnterOuter, OpenFails,
     DeadlinePasses, TimeOut, PollExpires, LeaveNested, CloseHandle
<1>4. ASSUME NEW p \in Proc, Crash(p)
      PROVE  \/ flock'[r] = flock[r]
             \/ flock[r] \in Thread /\ flock'[r] = Nobody
  <2>1. flock'[r] = IF flock[r] \in {t \in Thread : ProcOf[t] = p}
                    THEN Nobody ELSE flock[r]
    BY <1>4 DEF Crash
  <2>2. QED
    BY <2>1
<1>5. CASE UNCHANGED vars
  BY <1>5 DEF vars
<1>6. QED
  BY <1>1, <1>2, <1>3, <1>4, <1>5 DEF Next

\* write_lock implements the abstract critical section of every root: whoever
\* has an open block of it came when it was free and goes by leaving or dying,
\* even though three layers of locking and the nesting of blocks realise it.
THEOREM MutexImplemented == Spec => MutexRefined
<1>1. Init => \A r \in Root : Mutex(r)!MutexInit
  <2> SUFFICES ASSUME Init, NEW r \in Root PROVE Mutex(r)!MutexInit
    OBVIOUS
  <2>1. Occupant(r) = flock[r]
    BY InitEstablishes, OccupantHolds
  <2>2. QED
    BY <2>1 DEF Mutex!MutexInit, Init
<1>2. IInv /\ IInv' /\ [Next]_vars
        => [\A r \in Root : Mutex(r)!MutexNext \/ UNCHANGED Occupant(r)]_vars
  <2>1. IInv => OccupantsHold
    BY OccupantHolds DEF OccupantsHold
  <2>2. IInv' => OccupantsHold'
    BY <2>1, PTL
  <2> SUFFICES ASSUME IInv, IInv', [Next]_vars, NEW r \in Root
               PROVE  Mutex(r)!MutexNext \/ UNCHANGED Occupant(r)
    OBVIOUS
  <2>3. QED
    BY <2>1, <2>2, FileLockSteps
       DEF OccupantsHold, Mutex!MutexNext, Mutex!Acquire, Mutex!Release
<1>3. QED
  BY InitEstablishes, StepKeeps, <1>1, <1>2, PTL DEF Spec, MutexRefined
=============================================================================

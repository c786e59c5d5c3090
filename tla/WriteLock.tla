------------------------------ MODULE WriteLock ------------------------------
(***************************************************************************)
(* storage/atomic.py, write_lock(root): the re-entrant, cross-process      *)
(* critical section every write of a workspace goes through.               *)
(*                                                                         *)
(*   - _WRITE_LOCK, one RLock per process, taken without a timeout and     *)
(*     shared by all roots of the process: rlockOwner, rlockCount;         *)
(*   - one lock file per root, polled with a deadline: flock;              *)
(*   - _LOCK_STATE.depths, thread-local: depths;                           *)
(*   - the with-blocks a thread is inside of, innermost last: blocks.      *)
(*                                                                         *)
(* Time is abstracted: only whether a poller's deadline has passed.        *)
(***************************************************************************)
EXTENDS Naturals, Sequences, FiniteSets

CONSTANTS Proc, Thread,
          ProcOf,       \* the process each thread belongs to
          Root,         \* workspace roots
          Nobody,
          MaxNesting    \* bound: with-blocks a thread nests

ASSUME LockAssumption ==
  /\ ProcOf \in [Thread -> Proc]
  /\ Nobody \notin Thread
  /\ MaxNesting \in Nat \ {0}

VARIABLES rlockOwner,   \* rlockOwner[p]: thread of p that owns _WRITE_LOCK
          rlockCount,   \* rlockCount[p]: its recursion count
          flock,        \* flock[r]: thread whose handle holds the file lock
          depths,       \* depths[t][r]: _LOCK_STATE.depths of thread t
          blocks,       \* blocks[t]: roots of the with-blocks t is inside of
          pc,           \* where t is: see Locations
          want,         \* want[t]: root t is entering
          expired       \* expired[t]: the deadline of t's poll has passed

vars == <<rlockOwner, rlockCount, flock, depths, blocks, pc, want, expired>>

\* "run": in a body or outside of every block; "enter": at `with _WRITE_LOCK`;
\* "poll": in _acquire_process_lock; "close": file lock dropped, RLock not yet.
Locations == {"run", "enter", "poll", "close"}

Occurrences(s, r) == {i \in DOMAIN s : s[i] = r}
Inside(t, r) == Occurrences(blocks[t], r) # {}
Top(t) == blocks[t][Len(blocks[t])]
Pop(s) == SubSeq(s, 1, Len(s) - 1)

TypeOK ==
  /\ rlockOwner \in [Proc -> Thread \union {Nobody}]
  /\ rlockCount \in [Proc -> Nat]
  /\ flock \in [Root -> Thread \union {Nobody}]
  /\ depths \in [Thread -> [Root -> Nat]]
  /\ blocks \in [Thread -> Seq(Root)]
  /\ pc \in [Thread -> Locations]
  /\ want \in [Thread -> Root]
  /\ expired \in [Thread -> BOOLEAN]

Init ==
  /\ rlockOwner = [p \in Proc |-> Nobody]
  /\ rlockCount = [p \in Proc |-> 0]
  /\ flock = [r \in Root |-> Nobody]
  /\ depths = [t \in Thread |-> [r \in Root |-> 0]]
  /\ blocks = [t \in Thread |-> <<>>]
  /\ pc = [t \in Thread |-> "run"]
  /\ want \in [Thread -> Root]
  /\ expired = [t \in Thread |-> FALSE]

-----------------------------------------------------------------------------
(* The RLock: re-entrant for its owner, free when its count returns to 0.   *)

RLockAvailable(t) == rlockOwner[ProcOf[t]] \in {t, Nobody}

TakeRLock(t) ==
  /\ RLockAvailable(t)
  /\ rlockOwner' = [rlockOwner EXCEPT ![ProcOf[t]] = t]
  /\ rlockCount' = [rlockCount EXCEPT ![ProcOf[t]] = @ + 1]

DropRLock(t) ==
  /\ rlockCount' = [rlockCount EXCEPT ![ProcOf[t]] = @ - 1]
  /\ rlockOwner' = [rlockOwner EXCEPT ![ProcOf[t]] =
                      IF rlockCount[ProcOf[t]] = 1 THEN Nobody ELSE @]

-----------------------------------------------------------------------------
(* Entering                                                                *)

\* A caller reaches `with write_lock(r)`, outside of any block or in a body.
Call(t, r) ==
  /\ pc[t] = "run"
  /\ Len(blocks[t]) < MaxNesting
  /\ want' = [want EXCEPT ![t] = r]
  /\ pc' = [pc EXCEPT ![t] = "enter"]
  /\ UNCHANGED <<rlockOwner, rlockCount, flock, depths, blocks, expired>>

\* depths[key] is positive: this thread already holds the file lock.
EnterNested(t) ==
  /\ pc[t] = "enter"
  /\ depths[t][want[t]] > 0
  /\ TakeRLock(t)
  /\ depths' = [depths EXCEPT ![t][want[t]] = @ + 1]
  /\ blocks' = [blocks EXCEPT ![t] = Append(@, want[t])]
  /\ pc' = [pc EXCEPT ![t] = "run"]
  /\ UNCHANGED <<flock, want, expired>>

\* First entry: the lock file is opened and the deadline set.
EnterOuter(t) ==
  /\ pc[t] = "enter"
  /\ depths[t][want[t]] = 0
  /\ TakeRLock(t)
  /\ expired' = [expired EXCEPT ![t] = FALSE]
  /\ pc' = [pc EXCEPT ![t] = "poll"]
  /\ UNCHANGED <<flock, depths, blocks, want>>

\* First entry whose lock file cannot be opened: the RLock is taken and left.
OpenFails(t) ==
  /\ pc[t] = "enter"
  /\ depths[t][want[t]] = 0
  /\ RLockAvailable(t)
  /\ pc' = [pc EXCEPT ![t] = "run"]
  /\ UNCHANGED <<rlockOwner, rlockCount, flock, depths, blocks, want, expired>>

\* Faulty variant: an expired deadline is taken for a successful attempt.
LockEvenIfHeld(t) ==
  /\ pc[t] = "poll"
  /\ flock[want[t]] = Nobody \/ expired[t]
  /\ flock' = [flock EXCEPT ![want[t]] = t]
  /\ depths' = [depths EXCEPT ![t][want[t]] = 1]
  /\ blocks' = [blocks EXCEPT ![t] = Append(@, want[t])]
  /\ pc' = [pc EXCEPT ![t] = "run"]
  /\ UNCHANGED <<rlockOwner, rlockCount, want, expired>>

\* flock(LOCK_EX | LOCK_NB) succeeds, whether or not the deadline has passed.
Lock(t) ==
  /\ pc[t] = "poll"
  /\ flock[want[t]] = Nobody
  /\ flock' = [flock EXCEPT ![want[t]] = t]
  /\ depths' = [depths EXCEPT ![t][want[t]] = 1]
  /\ blocks' = [blocks EXCEPT ![t] = Append(@, want[t])]
  /\ pc' = [pc EXCEPT ![t] = "run"]
  /\ UNCHANGED <<rlockOwner, rlockCount, want, expired>>

\* _LOCK_TIMEOUT_SECONDS go by while t polls.
DeadlinePasses(t) ==
  /\ pc[t] = "poll"
  /\ ~expired[t]
  /\ expired' = [expired EXCEPT ![t] = TRUE]
  /\ UNCHANGED <<rlockOwner, rlockCount, flock, depths, blocks, pc, want>>

\* An attempt fails after the deadline.
PollExpires(t) ==
  /\ pc[t] = "poll"
  /\ flock[want[t]] # Nobody
  /\ expired[t]
  /\ UNCHANGED <<flock, depths, blocks, want, expired>>

\* Faulty variants: the RLock is kept, or a poll nested in another block has no
\* deadline.
TimeOutKeepsRLock(t) ==
  /\ PollExpires(t)
  /\ pc' = [pc EXCEPT ![t] = "run"]
  /\ UNCHANGED <<rlockOwner, rlockCount>>
TimeOutOnlyOutermost(t) ==
  /\ PollExpires(t)
  /\ blocks[t] = <<>>
  /\ DropRLock(t)
  /\ pc' = [pc EXCEPT ![t] = "run"]

\* AtomicWriteError is raised: the handle is closed and the RLock left; an
\* enclosing body sees the exception.
TimeOut(t) ==
  /\ PollExpires(t)
  /\ DropRLock(t)
  /\ pc' = [pc EXCEPT ![t] = "run"]

-----------------------------------------------------------------------------
(* Leaving, normally or by an exception: innermost block first             *)

\* Faulty variants: the inner exit forgets the depth, or drops the file lock.
LeaveNestedForgetsDepth(t) ==
  /\ pc[t] = "run"
  /\ blocks[t] # <<>>
  /\ depths[t][Top(t)] > 1
  /\ depths' = [depths EXCEPT ![t][Top(t)] = 0]
  /\ blocks' = [blocks EXCEPT ![t] = Pop(@)]
  /\ DropRLock(t)
  /\ UNCHANGED <<flock, pc, want, expired>>

LeaveNestedUnlocks(t) ==
  /\ pc[t] = "run"
  /\ blocks[t] # <<>>
  /\ depths[t][Top(t)] > 1
  /\ depths' = [depths EXCEPT ![t][Top(t)] = @ - 1]
  /\ flock' = [flock EXCEPT ![Top(t)] = Nobody]
  /\ blocks' = [blocks EXCEPT ![t] = Pop(@)]
  /\ DropRLock(t)
  /\ UNCHANGED <<pc, want, expired>>

LeaveNested(t) ==
  /\ pc[t] = "run"
  /\ blocks[t] # <<>>
  /\ depths[t][Top(t)] > 1
  /\ depths' = [depths EXCEPT ![t][Top(t)] = @ - 1]
  /\ blocks' = [blocks EXCEPT ![t] = Pop(@)]
  /\ DropRLock(t)
  /\ UNCHANGED <<flock, pc, want, expired>>

\* depths.pop, then the file lock; the RLock is still held.
LeaveOuter(t) ==
  /\ pc[t] = "run"
  /\ blocks[t] # <<>>
  /\ depths[t][Top(t)] = 1
  /\ depths' = [depths EXCEPT ![t][Top(t)] = 0]
  /\ flock' = [flock EXCEPT ![Top(t)] = Nobody]
  /\ blocks' = [blocks EXCEPT ![t] = Pop(@)]
  /\ pc' = [pc EXCEPT ![t] = "close"]
  /\ UNCHANGED <<rlockOwner, rlockCount, want, expired>>

CloseHandle(t) ==
  /\ pc[t] = "close"
  /\ DropRLock(t)
  /\ pc' = [pc EXCEPT ![t] = "run"]
  /\ UNCHANGED <<flock, depths, blocks, want, expired>>

-----------------------------------------------------------------------------
\* The process is killed: its threads are gone, its handles closed by the
\* operating system; p stands for a fresh process from then on.
Crash(p) ==
  LET dead == {t \in Thread : ProcOf[t] = p} IN
  /\ rlockOwner' = [rlockOwner EXCEPT ![p] = Nobody]
  /\ rlockCount' = [rlockCount EXCEPT ![p] = 0]
  /\ flock' = [r \in Root |-> IF flock[r] \in dead THEN Nobody ELSE flock[r]]
  /\ depths' = [t \in Thread |->
                  IF t \in dead THEN [r \in Root |-> 0] ELSE depths[t]]
  /\ blocks' = [t \in Thread |-> IF t \in dead THEN <<>> ELSE blocks[t]]
  /\ pc' = [t \in Thread |-> IF t \in dead THEN "run" ELSE pc[t]]
  /\ expired' = [t \in Thread |-> IF t \in dead THEN FALSE ELSE expired[t]]
  /\ UNCHANGED want

LeaveLevel(t, n) ==
  Len(blocks[t]) = n /\ (LeaveNested(t) \/ LeaveOuter(t))

ThreadNext(t) ==
  \/ \E r \in Root : Call(t, r)
  \/ EnterNested(t) \/ EnterOuter(t) \/ OpenFails(t)
  \/ Lock(t) \/ DeadlinePasses(t) \/ TimeOut(t)
  \/ LeaveNested(t) \/ LeaveOuter(t) \/ CloseHandle(t)

Next ==
  \/ \E t \in Thread : ThreadNext(t)
  \/ \E p \in Proc : Crash(p)

Spec == Init /\ [][Next]_vars

(***************************************************************************)
(* Fairness.  The scheduler runs a thread that can run, the clock advances *)
(* and a poller polls every 10 ms.  A body makes finitely many nested      *)
(* calls and ends, hence strong fairness of leaving at each nesting level. *)
(* Nothing is assumed of callers, of errors opening the lock file, of      *)
(* crashes, or of which waiting thread gets an RLock first.                *)
(***************************************************************************)
Fairness ==
  \A t \in Thread :
    /\ WF_vars(EnterNested(t) \/ EnterOuter(t) \/ OpenFails(t))
    /\ WF_vars(DeadlinePasses(t))
    /\ WF_vars(Lock(t) \/ TimeOut(t))
    /\ \A n \in 1..MaxNesting : SF_vars(LeaveLevel(t, n))
    /\ WF_vars(CloseHandle(t))

FairSpec == Spec /\ Fairness

-----------------------------------------------------------------------------
(* Properties                                                              *)

\* No two threads, of one process or of two, are inside the critical section
\* of one root: the mutual exclusion write_lock's docstring promises.
MutualExclusion ==
  \A t, u \in Thread, r \in Root : Inside(t, r) /\ Inside(u, r) => t = u

\* The per-thread depth counts the open blocks, so it is the outermost exit,
\* and no other, that gives the file lock up.
DepthsMatch ==
  \A t \in Thread, r \in Root :
    depths[t][r] = Cardinality(Occurrences(blocks[t], r))

\* A file lock is held exactly by the thread with an open block of its root.
FlocksMatch ==
  \A t \in Thread, r \in Root : flock[r] = t <=> Inside(t, r)

\* The RLock recursions a thread accounts for.
Holds(t) ==
  Len(blocks[t]) + (IF pc[t] \in {"poll", "close"} THEN 1 ELSE 0)

\* The RLock is owned, with the right count, exactly while its owner has open
\* blocks or is on its way in or out.
RLocksMatch ==
  /\ \A t \in Thread :
       /\ rlockOwner[ProcOf[t]] = t <=> Holds(t) > 0
       /\ Holds(t) > 0 => rlockCount[ProcOf[t]] = Holds(t)
  /\ \A p \in Proc :
       /\ rlockOwner[p] = Nobody <=> rlockCount[p] = 0
       /\ rlockOwner[p] # Nobody => ProcOf[rlockOwner[p]] = p

\* The bookkeeping agrees with the blocks actually open, through nesting,
\* time-outs and crashes: nothing stays held behind a time-out, and nothing is
\* dropped under an enclosing block.
LocksMatchBlocks == DepthsMatch /\ FlocksMatch /\ RLocksMatch

\* t can go on from where it is, whatever the other threads do: out of a block,
\* into one, to the next attempt or the end of a poll.
CanGoOn(t) ==
  \/ pc[t] = "run" /\ blocks[t] # <<>> /\ depths[t][Top(t)] > 0
  \/ pc[t] = "enter" /\ RLockAvailable(t)
  \/ pc[t] \in {"poll", "close"}

\* The one wait without a deadline, for the RLock of the process, closes no
\* circle: whoever waits there is inside of no block of any root, and the owner
\* it waits for is not waiting itself, but for a file lock, with a deadline.
WaitersHoldNothing ==
  \A t \in Thread : pc[t] = "enter" /\ ~RLockAvailable(t) =>
    /\ blocks[t] = <<>>
    /\ \A r \in Root : flock[r] # t
    /\ \E u \in Thread : rlockOwner[ProcOf[t]] = u /\ CanGoOn(u)

\* Waiting for another process' file lock ends, in the lock or by a time-out,
\* even when two processes wait for each other's roots.
PollEnds == \A t \in Thread : pc[t] = "poll" ~> pc[t] # "poll"

\* No thread keeps the process-wide RLock for ever, so the other threads of
\* its process, whatever root they want, are not shut out by a lock that
\* another process holds.
RLockIsReleased ==
  \A p \in Proc, t \in Thread : rlockOwner[p] = t ~> rlockOwner[p] # t

\* The thread with an open block of root r, whatever the locks say.
Occupant(r) ==
  IF \E t \in Thread : Inside(t, r)
  THEN CHOOSE t \in Thread : Inside(t, r)
  ELSE Nobody

\* write_lock implements the abstract critical section of every root: an
\* occupant comes only to a free root, and goes by leaving or by dying.
Mutex(r) == INSTANCE WorkspaceMutex WITH Agent <- Thread, holder <- Occupant(r)
MutexRefined ==
  /\ \A r \in Root : Mutex(r)!MutexInit
  /\ [][\A r \in Root : Mutex(r)!MutexNext \/ UNCHANGED Occupant(r)]_vars
=============================================================================

--------------------------- MODULE WorkspaceMutex ---------------------------
(***************************************************************************)
(* What storage/atomic.py promises about a workspace root: at any time at  *)
(* most one agent is inside its critical section, and an agent that dies   *)
(* leaves the section.  How that is achieved (a process-wide RLock, a file *)
(* lock, a per-thread depth) is in WriteLock; ManifestApply is built on    *)
(* the actions of this module.                                             *)
(***************************************************************************)
CONSTANTS Agent,    \* whoever may enter: threads of processes, or appliers
          Nobody    \* the section is free; no agent is called that

VARIABLE holder     \* the agent inside the critical section

MutexInit == holder = Nobody

Acquire(a) ==
  /\ holder = Nobody
  /\ holder' = a

Release(a) ==
  /\ holder = a
  /\ holder' = Nobody

\* Agent a dies: the operating system drops its file lock.
Vanish(a) == holder' = IF holder = a THEN Nobody ELSE holder

MutexNext == \E a \in Agent : Acquire(a) \/ Release(a) \/ Vanish(a)

MutexSpec == MutexInit /\ [][MutexNext]_holder
=============================================================================

----------------------------- MODULE AtomicBatch -----------------------------
(***************************************************************************)
(* What storage/manifest.py promises to those who respect the write lock:  *)
(* a batch of writes takes effect as a whole or not at all, and the answer *)
(* says which.  Only an applier that cannot answer (killed, or with        *)
(* rollback errors reported) may leave part of its batch behind.           *)
(***************************************************************************)
CONSTANTS Applier, File, Batches, New

VARIABLES store,     \* the files as seen between batches
          answer     \* answer[a]: what a's last apply reported

batchVars == <<store, answer>>

RangeOf(s) == {s[i] : i \in DOMAIN s}

BatchInit == answer = [a \in Applier |-> "none"]

\* The user starts over: the old answer is history.
Forget(a) ==
  /\ answer' = [answer EXCEPT ![a] = "none"]
  /\ UNCHANGED store

\* All targets of one batch get their payload at once.
CommitBatch(a) ==
  \E targets \in Batches :
    /\ store' = [f \in File |->
                   IF f \in RangeOf(targets) THEN New[a] ELSE store[f]]
    /\ answer' = [answer EXCEPT ![a] = "applied"]

\* Refused before the first write, or rolled back.
LeaveUnchanged(a) ==
  /\ answer' = [answer EXCEPT ![a] = "unchanged"]
  /\ UNCHANGED store

\* No clean answer: some of the targets may have their payload.
Tear(a) ==
  \E targets \in Batches : \E torn \in SUBSET RangeOf(targets) :
    /\ store' = [f \in File |-> IF f \in torn THEN New[a] ELSE store[f]]
    /\ answer' = [answer EXCEPT ![a] = "unknown"]

BatchNext ==
  \E a \in Applier : Forget(a) \/ CommitBatch(a) \/ LeaveUnchanged(a) \/ Tear(a)

BatchSpec == BatchInit /\ [][BatchNext]_batchVars
=============================================================================

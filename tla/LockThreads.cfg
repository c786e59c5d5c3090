SPECIFICATION FairSpec
CONSTANTS
  p1 = p1
  p2 = p2
  t1 = t1
  t2 = t2
  t3 = t3
  Proc = {p1, p2}
  Thread = {t1, t2, t3}
  ProcOf <- MCProcOf
  Root = {r1, r2}
  Nobody = Nobody
  MaxNesting = 2

INVARIANTS MutualExclusion LocksMatchBlocks WaitersHoldNothing
PROPERTIES MutexRefined PollEnds RLockIsReleased

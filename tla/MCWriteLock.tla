----------------------------- MODULE MCWriteLock -----------------------------
(* Two processes, one of them with two threads, and two workspace roots.    *)
EXTENDS WriteLock, TLC

CONSTANTS p1, p2, t1, t2, t3

MCProcOf == (t1 :> p1) @@ (t2 :> p1) @@ (t3 :> p2)
=============================================================================

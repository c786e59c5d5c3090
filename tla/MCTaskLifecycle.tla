--------------------------- MODULE MCTaskLifecycle ---------------------------
(* A user and a role; the states that claiming and reviving depend on.      *)
EXTENDS TaskLifecycle

WorkStates == {"proposed", "ready", "running", "failed", "cancelled"}
=============================================================================

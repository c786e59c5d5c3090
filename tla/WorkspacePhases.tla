--------------------------- MODULE WorkspacePhases ---------------------------
(***************************************************************************)
(* What init promises of a directory, and no more: it becomes a workspace  *)
(* at most once.  A workspace that is broken, by an init that dies or by a *)
(* retire, has no way back.                                                *)
(***************************************************************************)
VARIABLE phase

PhaseInit == phase = "none"

Begin == phase = "none" /\ phase' = "starting"
Abandon == phase = "starting" /\ phase' = "none"  \* before its first file
Complete == phase = "starting" /\ phase' = "ready"
Break == phase \in {"starting", "ready"} /\ phase' = "broken"

PhaseNext == Begin \/ Abandon \/ Complete \/ Break

PhaseSpec == PhaseInit /\ [][PhaseNext]_phase
=============================================================================

---------------------------- MODULE MCEventLedger ----------------------------
(* Two processes; one evidence event and one evaluation: its registration,  *)
(* a conflicting one under the same key, and its consumption.               *)
EXTENDS EventLedger, TLC

CONSTANTS evidence, evaluations, ev, reg, reg2, con, k1, k2, k3

TwoLedgers == <<evidence, evaluations>>
MCLedgerOf == [e \in Event |-> IF e = ev THEN evidence ELSE evaluations]
MCKeyOf == (ev :> k1) @@ (reg :> k2) @@ (reg2 :> k2) @@ (con :> k3)
OneEvaluation == [e \in Event |-> k2]
MCCalls == {{ev}, {reg}, {reg2}, {ev, con}}
=============================================================================

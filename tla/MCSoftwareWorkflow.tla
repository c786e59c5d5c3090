------------------------- MODULE MCSoftwareWorkflow -------------------------
(* Three versions of the Plan, one of them not declared approved; contracts *)
(* of the same rows, and one work for each.  Two versions have an approval, *)
(* both resting on the one evidence record.                                 *)
EXTENDS SoftwareWorkflow, TLC

CONSTANTS v1, v2, draft, a1, a2, c1, c2, w1, w2, e, rows

VersionApproved == (a1 :> v1) @@ (a2 :> v2)
OneEvidence == [a \in PlanApproval |-> {e}]
VersionContract == (v1 :> c1) @@ (v2 :> c2) @@ (draft :> c2)
SameRows == [c \in Contract |-> rows]
WorkContract == (w1 :> c1) @@ (w2 :> c2)

\* The two versions differ in nothing but their names, and with them those of
\* their approval, contract and work.  (Nothing is derived from the draft.)
Same == [x \in {v1, v2, a1, a2, c1, c2, w1, w2} |-> x]
Swapped == (v1 :> v2) @@ (v2 :> v1) @@ (a1 :> a2) @@ (a2 :> a1)
           @@ (c1 :> c2) @@ (c2 :> c1) @@ (w1 :> w2) @@ (w2 :> w1)
Interchangeable == {f @@ g : f \in Permutations(Process), g \in {Same, Swapped}}
=============================================================================

-------------------------- MODULE MCContentWorkflow --------------------------
(* Two versions of the Plan that select different variants of one brief, and *)
(* a draft.  e1 is about the variants, e2 covers the check as well and is    *)
(* what the approvals of the Plan rest on.  For either variant one approval  *)
(* cites both and one only e2.                                               *)
EXTENDS ContentWorkflow, TLC

CONSTANTS v1, v2, draft, a1, a2, b, x, y, f1, f2, c, e1, e2, w1, w2, u1, u2, r1, r2

VersionApproved == (a1 :> v1) @@ (a2 :> v2)
PlanEvidence == [a \in PlanApproval |-> {e2}]
OneBrief == [v \in Plan |-> b]
VersionVariants == (v1 :> {x}) @@ (v2 :> {y}) @@ (draft :> {x})
VersionSelects == (v1 :> x) @@ (v2 :> y) @@ (draft :> None)
VersionFinding == (v1 :> f1) @@ (v2 :> f2) @@ (draft :> f2)
OneCheck == [d \in Brief |-> {c}]
EvidenceSupports == (e1 :> {b, x, y}) @@ (e2 :> {b, x, y, c})
ApprovalBrief == [a \in Approval |-> b]
ApprovalReview ==
  (w1 :> [finding |-> f1, variant |-> x, refs |-> {e1, e2}]) @@
  (w2 :> [finding |-> f2, variant |-> y, refs |-> {e1, e2}]) @@
  (u1 :> [finding |-> f1, variant |-> x, refs |-> {e2}]) @@
  (u2 :> [finding |-> f2, variant |-> y, refs |-> {e2}])
ReleaseApproval == (r1 :> w1) @@ (r2 :> w2)

\* The two versions differ in nothing but their names.  (Nothing is derived from
\* the draft.)
Same == [z \in {v1, v2, a1, a2, x, y, f1, f2, w1, w2, u1, u2, r1, r2} |-> z]
Swapped == (v1 :> v2) @@ (v2 :> v1) @@ (a1 :> a2) @@ (a2 :> a1)
           @@ (x :> y) @@ (y :> x) @@ (f1 :> f2) @@ (f2 :> f1)
           @@ (w1 :> w2) @@ (w2 :> w1) @@ (u1 :> u2) @@ (u2 :> u1)
           @@ (r1 :> r2) @@ (r2 :> r1)
Interchangeable == {f @@ g : f \in Permutations(Process), g \in {Same, Swapped}}
=============================================================================

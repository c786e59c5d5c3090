-------------------------- MODULE MCRetireGenerated --------------------------
(* Two files from init and one that a first reconcile adds.                 *)
EXTENDS RetireGenerated, TLC

CONSTANTS profile, plan, roles, old, user

OneEdit == {<<plan, user>>}
FirstReconcile == {{plan}, {roles}}
RetirersAlike == Permutations(Retirer)
=============================================================================

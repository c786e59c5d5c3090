------------------------ MODULE MCWorkspaceLifecycle ------------------------
(* Two commands at a time, two states of the user's files, two times.       *)
EXTENDS WorkspaceLifecycle, TLC

Alike == Permutations(Process) \union Permutations(Tree) \union Permutations(Time)
=============================================================================

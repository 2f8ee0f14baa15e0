-------------------------- MODULE MCWorkspaceCache --------------------------
(* Symmetry for model checking WorkspaceCache. *)
EXTENDS WorkspaceCache, TLC

MCSymmetry == Permutations(Threads) \cup Permutations(Locks)
=============================================================================

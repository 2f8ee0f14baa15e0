----------------------------- MODULE MCDailyRun -----------------------------
(* Symmetry for model checking DailyRun. *)
EXTENDS DailyRun, TLC

MCSymmetry == Permutations(Jobs) \cup Permutations(Workers)
=============================================================================

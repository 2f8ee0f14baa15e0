------------------------- MODULE MCSettlementWorker -------------------------
(* Symmetry for model checking the settlement modules. *)
EXTENDS SettlementAlerts, TLC

MCSymmetry == Permutations(Workers)
=============================================================================

----------------------------- MODULE MCGasBatch -----------------------------
(* Constants for model checking GasBatch. *)
EXTENDS GasBatch, TLC

MCTwoItems == 1 .. 2
MCOneItem == {1}

MCSymmetry == Permutations(Workers)
=============================================================================

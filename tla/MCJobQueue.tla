----------------------------- MODULE MCJobQueue -----------------------------
(* Constants for model checking JobQueue. *)
EXTENDS JobQueue, TLC

MCItems == 1 .. 3
MCOneItem == {1}

(* Worker slots are interchangeable; used by runs without liveness. *)
MCSymmetry == Permutations(Workers)
=============================================================================

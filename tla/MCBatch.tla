------------------------------- MODULE MCBatch -------------------------------
(* Model values for Batch. *)
EXTENDS Batch, TLC

CONSTANTS g1, g2

Symmetry == Permutations(Goroutines)
=============================================================================

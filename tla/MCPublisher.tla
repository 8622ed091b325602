---------------------------- MODULE MCPublisher ----------------------------
(* Small instances of Publisher for TLC. *)
EXTENDS Publisher, TLC

Users == Permutations(Callers)
=============================================================================

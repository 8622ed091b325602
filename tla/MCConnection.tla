---------------------------- MODULE MCConnection ----------------------------
(* Small instances of Connection for TLC. *)
EXTENDS Connection, TLC

Users == Permutations(Closers) \cup Permutations(Callers) \cup Permutations(Subs)
=============================================================================

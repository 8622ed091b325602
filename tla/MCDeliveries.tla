---------------------------- MODULE MCDeliveries ----------------------------
(* Model values for Deliveries. *)
EXTENDS Deliveries

CONSTANTS m1, m2
=============================================================================

----------------------------- MODULE MCTopology -----------------------------
(* The instances of Topology that TLC checks. *)
EXTENDS Topology

Both == {"exclusive", "autoDelete"}

(* A queue with a name, somebody else's, and one that nobody named.          *)
Usual == {<<"own", {}>>, <<"foreign", {}>>, <<"unnamed", Both>>}

(* A QueueConfig without a name.                                             *)
Unnamed == {<<"unnamed", {}>>}
=============================================================================

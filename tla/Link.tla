-------------------------------- MODULE Link --------------------------------
(***************************************************************************)
(* What a Connection promises the publishers and consumers built on it,    *)
(* with the reconnect loop, its locks and its callbacks abstracted away.   *)
(*                                                                         *)
(* A subscriber sees a sequence of connection generations.  It is told of  *)
(* a new generation by a signal put in a one-place buffer of its own, some *)
(* time after the generation became usable: between the two it can already *)
(* open channels on the new connection, and that gap is what the owners of *)
(* channels have to cope with.  Connection implements this specification;  *)
(* Publisher uses it as its environment.                                   *)
(***************************************************************************)
EXTENDS Naturals

CONSTANTS Subs,     \* the publishers and consumers of one connection
          MaxGen    \* bound: connections ever established

ASSUME LinkAssumption == MaxGen \in Nat \ {0}

VARIABLES gen,        \* generation of the current connection
          up,         \* it is open
          over,       \* the reconnect loop has returned: no generation follows
          owed,       \* subscribers have not been told of this generation yet
          listed,     \* who is registered for reconnect signals
          signalled   \* whose one-place buffer holds a signal

linkVars == <<gen, up, over, owed, listed, signalled>>

LinkTypeOK ==
    /\ gen \in 1..MaxGen
    /\ up \in BOOLEAN
    /\ over \in BOOLEAN
    /\ owed \in BOOLEAN
    /\ listed \subseteq Subs
    /\ signalled \subseteq Subs

LinkInit ==
    /\ gen = 1
    /\ up = TRUE
    /\ over = FALSE
    /\ owed = FALSE
    /\ listed = {}
    /\ signalled = {}

(* The transport fails, the broker closes the connection, or the user does. *)
Lose ==
    /\ up
    /\ up' = FALSE
    /\ UNCHANGED <<gen, over, owed, listed, signalled>>

(* A dial succeeds; the connection may be dead again by the time it is used. *)
Reconnect ==
    /\ ~up
    /\ ~over
    /\ ~owed
    /\ gen < MaxGen
    /\ gen' = gen + 1
    /\ up' \in BOOLEAN
    /\ owed' = TRUE
    /\ UNCHANGED <<over, listed, signalled>>

(* notifySubscribers: a full buffer already holds the news. *)
Signal ==
    /\ owed
    /\ owed' = FALSE
    /\ signalled' = signalled \cup listed
    /\ UNCHANGED <<gen, up, over, listed>>

(* The loop returns: closed by the user, or reconnection was given up. *)
Finish ==
    /\ ~over
    /\ ~owed
    /\ over' = TRUE
    /\ UNCHANGED <<gen, up, owed, listed, signalled>>

Subscribe(s) ==
    /\ listed' = listed \cup {s}
    /\ UNCHANGED <<gen, up, over, owed, signalled>>

Unsubscribe(s) ==
    /\ listed' = listed \ {s}
    /\ UNCHANGED <<gen, up, over, owed, signalled>>

(* The owner of the buffer receives the signal. *)
Take(s) ==
    /\ s \in signalled
    /\ signalled' = signalled \ {s}
    /\ UNCHANGED <<gen, up, over, owed, listed>>

LinkEnv == Lose \/ Reconnect \/ Signal \/ Finish

LinkNext == LinkEnv \/ \E s \in Subs : Subscribe(s) \/ Unsubscribe(s) \/ Take(s)

LinkSpec == LinkInit /\ [][LinkNext]_linkVars /\ WF_linkVars(Signal)
=============================================================================

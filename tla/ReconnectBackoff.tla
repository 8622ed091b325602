-------------------------- MODULE ReconnectBackoff --------------------------
(***************************************************************************)
(* The delays between the dials of one outage (rabbitmq.go, the loop of    *)
(* handleReconnect over Config.reconnectDelay).  A duration is an int64    *)
(* number of nanoseconds; the code doubles it as a float64, which is exact *)
(* for a power of two, and converts the result back.  Go leaves the        *)
(* conversion of a float outside the range of int64 to the implementation: *)
(* amd64 yields the least int64, arm64 the greatest.                       *)
(*                                                                         *)
(* Width stands for the 64 bits and one unit for the configured delay, so  *)
(* the instance reaches the end of the range after Width attempts instead  *)
(* of after 64 less the 30 bits of a second in nanoseconds.                *)
(***************************************************************************)
EXTENDS Integers

CONSTANTS ReconnectDelay,       \* Config.ReconnectDelay, 0 for the default
          ReconnectDelayMax,    \* Config.ReconnectDelayMax, 0 for the default
          MaxReconnectAttempts, \* Config.MaxReconnectAttempts, 0 for unlimited
          Width,                \* bits of a duration
          MaxAttempt            \* bound: attempts of one outage

VARIABLES loop,     \* "select", "attempt", "wait" or "returned"
          attempt,  \* the attempt of the current outage
          delay     \* the delay time.After was last given in this outage

vars == <<loop, attempt, delay>>

MaxDuration == 2^(Width - 1) - 1
MinDuration == -(2^(Width - 1))

\* time.Duration(f): every result a build can produce.
ToDuration(f) == IF f <= MaxDuration THEN {f} ELSE {MinDuration, MaxDuration}

Least(a, b) == IF a <= b THEN a ELSE b

reconnectDelay(n) ==
    LET base == IF ReconnectDelay <= 0 THEN 1 ELSE ReconnectDelay
        most == IF ReconnectDelayMax <= 0 THEN 60 ELSE ReconnectDelayMax
    IN  {Least(d, most) : d \in ToDuration(base * 2^n)}

Init == loop = "select" /\ attempt = 0 /\ delay = 0

\* The connection is lost: a new outage starts at attempt 0.
Lost ==
    /\ loop = "select"
    /\ loop' = "attempt" /\ attempt' = 0 /\ delay' = 0

Exhausted == MaxReconnectAttempts > 0 /\ attempt >= MaxReconnectAttempts

GiveUp ==
    /\ loop = "attempt" /\ Exhausted
    /\ loop' = "returned"
    /\ UNCHANGED <<attempt, delay>>

Wait ==
    /\ loop = "attempt" /\ ~Exhausted
    /\ \E d \in reconnectDelay(attempt) : delay' = d
    /\ loop' = "wait"
    /\ UNCHANGED attempt

DialFails ==
    /\ loop = "wait" /\ attempt < MaxAttempt
    /\ loop' = "attempt" /\ attempt' = attempt + 1
    /\ UNCHANGED delay

DialRefused == loop = "wait" /\ loop' = "returned" /\ UNCHANGED <<attempt, delay>>

\* Close ends the loop between outages and while it waits.
Closed == loop \in {"select", "wait"} /\ loop' = "returned" /\ UNCHANGED <<attempt, delay>>

DialOk == loop = "wait" /\ loop' = "select" /\ UNCHANGED <<attempt, delay>>

Next == Lost \/ GiveUp \/ Wait \/ DialFails \/ DialRefused \/ DialOk \/ Closed

Spec == Init /\ [][Next]_vars

(* Within an outage the loop never waits less than it did the time before:
   "The delay increases exponentially up to ReconnectDelayMax". *)
DelayNeverShrinks == [][Wait => delay' >= delay]_vars

=============================================================================

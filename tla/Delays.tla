------------------------------- MODULE Delays -------------------------------
(***************************************************************************)
(* The delays of a broker-held message: the ladder, the rung a requested   *)
(* delay is held at, the life of the holding queue, and the backoff of     *)
(* BackoffRetryMiddleware (publisher.go, middleware.go).  Durations are in *)
(* milliseconds: every constant involved is a whole number of seconds, so  *)
(* nothing but the caller's own delay can lie between two of them.         *)
(***************************************************************************)
EXTENDS Integers, Sequences

DelayLadder ==
    <<1000, 5000, 10000, 30000, 60000, 300000, 900000, 1800000, 3600000>>

Rungs == {DelayLadder[i] : i \in 1..Len(DelayLadder)}
MaxDelay == DelayLadder[Len(DelayLadder)]

\* The error of a delay no rung holds.
ErrDelayTooLong == 0

Fits(delay) == {i \in 1..Len(DelayLadder) : delay <= DelayLadder[i]}

\* MUTANT: the last rung not above the delay.
SnapDelayDown(delay) ==
    LET under == {i \in 1..Len(DelayLadder) : DelayLadder[i] <= delay}
    IN  IF delay > MaxDelay THEN ErrDelayTooLong
        ELSE IF under = {} THEN DelayLadder[1]
        ELSE DelayLadder[CHOOSE i \in under : \A j \in under : j <= i]

\* The loop over the ladder returns the first rung that is long enough.
SnapDelay(delay) ==
    IF Fits(delay) = {} THEN ErrDelayTooLong
    ELSE DelayLadder[CHOOSE i \in Fits(delay) : \A j \in Fits(delay) : i <= j]

\* The x-expires of the holding queue of a rung.
Expires(delay) ==
    IF 2 * delay < delay + 30000 THEN delay + 30000 ELSE 2 * delay

Capped(delay) == IF delay > MaxDelay THEN MaxDelay ELSE delay

\* The doubling stops once the largest rung is reached, so however large the
\* retry count is nothing overflows.
BackoffDelay(base, attempt) ==
    LET first == IF base <= 0 THEN 1000 ELSE base
        doubled[i \in 0..attempt] ==
            IF i = 0 THEN first
            ELSE IF doubled[i - 1] < MaxDelay THEN 2 * doubled[i - 1]
            ELSE doubled[i - 1]
    IN  Capped(doubled[attempt])

=============================================================================

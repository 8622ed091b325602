-------------------------------- MODULE Retry --------------------------------
(***************************************************************************)
(* One failing message under BackoffRetryMiddleware (middleware.go) and    *)
(* processDelivery (consumer.go): a retry is a delayed copy published      *)
(* through a holding queue, after which the original is acknowledged.      *)
(*                                                                         *)
(* Every copy of the message has an identity, so that a lost or a doubled  *)
(* one can be told.  epoch numbers the consumer's channels: a delivery can *)
(* only be settled on the channel it came from.  Acknowledgements are      *)
(* manual (AutoAck off) and handlers return.                               *)
(*                                                                         *)
(* Faults are what the environment may do MaxFaults times: channels and    *)
(* the process dying, a broker that refuses or is late.  What a handler    *)
(* returns is its own choice each time; joined counts the times it joined  *)
(* ErrRequeue and ErrDrop, of which only TLC's instances have a limit.     *)
(***************************************************************************)
EXTENDS Delays, FiniteSets, FiniteSetsExt

CONSTANTS Handlers,        \* the goroutines of Consume
          MaxRetries,      \* the maxRetries of the middleware
          Bases,           \* the base delays considered
          Headers,         \* the retry headers the message may come with
          ConfirmMode,     \* the publisher's ConfirmMode
          RequeueOnError,  \* the consumer's RequeueOnError
          MaxCopies,       \* bound: copies of the message
          MaxFaults,       \* bound: faults
          MaxJoined        \* bound: returns of ErrRequeue joined with ErrDrop

ASSUME RetryAssumption ==
    /\ IsFiniteSet(Handlers)
    /\ MaxRetries \in Nat /\ MaxFaults \in Nat /\ MaxJoined \in Nat
    /\ MaxCopies \in Nat \ {0}
    /\ Bases \subseteq Int /\ Headers \subseteq Int
    /\ ConfirmMode \in BOOLEAN /\ RequeueOnError \in BOOLEAN

VARIABLES place,    \* per copy, where it is
          header,   \* per copy, its x-rabbitwrap-retry-count
          wait,     \* per copy, the rung it was sent to, for each base delay
          epoch,    \* the consumer's channel
          job,      \* per handler, what it is doing
          handled,  \* times the handler has run
          joined,   \* times it returned ErrRequeue joined with ErrDrop
          faults    \* faults so far

vars == <<place, header, wait, epoch, job, handled, joined, faults>>

Copies == 1..MaxCopies
Places == {"unused", "ready", "flight", "wire", "held",
           "done", "moved", "dead", "lost"}
Errors == SUBSET {"requeue", "drop"}
Points == {"idle", "handling", "declare", "publish", "confirm", "ack", "settle"}

\* What a handler does: the copy it was given and on which channel, whether a
\* failure is to requeue it, and the copy it has published.
Idle == [at |-> "idle", copy |-> 0, epoch |-> 0, requeue |-> FALSE, retry |-> 0]
Jobs == [at : Points, copy : 0..MaxCopies, epoch : 0..MaxFaults,
         requeue : BOOLEAN, retry : 0..MaxCopies]

Init ==
    /\ place = [c \in Copies |-> IF c = 1 THEN "ready" ELSE "unused"]
    /\ \E h \in Headers : header = [c \in Copies |-> IF c = 1 THEN h ELSE 0]
    /\ wait = [c \in Copies |-> [b \in Bases |-> 0]]
    /\ epoch = 0
    /\ job = [h \in Handlers |-> Idle]
    /\ handled = 0 /\ joined = 0
    /\ faults = 0

Fault == faults < MaxFaults /\ faults' = faults + 1

\* Bounds, and counts, the errors that are both sentinels at once.
Returned(err) ==
    IF {"requeue", "drop"} \subseteq err THEN joined < MaxJoined /\ joined' = joined + 1
    ELSE UNCHANGED joined

Goto(h, point) == job' = [job EXCEPT ![h].at = point]

\* The copy is scheduled: the handler's error is forgotten.
Scheduled(h) == job' = [job EXCEPT ![h].at = "ack", ![h].requeue = FALSE]

\* Scheduling failed: whatever was published is on its own.
Unscheduled(h) == job' = [job EXCEPT ![h].at = "settle", ![h].retry = 0]

\* A header below zero counts as none.
RetryCount(c) == IF header[c] < 0 THEN 0 ELSE header[c]

RequeueDecision(err) ==
    "requeue" \in err \/ ("drop" \notin err /\ RequeueOnError)

-----------------------------------------------------------------------------
(* The consumer and the handler inside the middleware.                     *)

Deliver(h) ==
    /\ job[h].at = "idle"
    /\ \E c \in Copies :
          /\ place[c] = "ready"
          /\ place' = [place EXCEPT ![c] = "flight"]
          /\ job' = [job EXCEPT ![h] = [Idle EXCEPT !.at = "handling", !.copy = c,
                                                    !.epoch = epoch]]
    /\ UNCHANGED <<header, wait, epoch, handled, joined, faults>>

HandlerOk(h) ==
    /\ job[h].at = "handling"
    /\ Goto(h, "ack")
    /\ handled' = handled + 1
    /\ UNCHANGED <<place, header, wait, epoch, joined, faults>>

Exhausted(h) == RetryCount(job[h].copy) >= MaxRetries

\* MUTANT: nothing looks at maxRetries.
HandlerFailsUnbounded(h) ==
    /\ job[h].at = "handling"
    /\ \E err \in Errors :
          /\ job' = [job EXCEPT
                ![h].requeue = RequeueDecision(err),
                ![h].at = IF "drop" \in err THEN "settle" ELSE "declare"]
          /\ Returned(err)
    /\ handled' = handled + 1
    /\ UNCHANGED <<place, header, wait, epoch, faults>>

\* An error with ErrDrop is passed on at once, retries left or not; requeueDecision
\* then lets an ErrRequeue joined with it win.  Another error of an exhausted
\* message becomes an ErrDrop, and everything else is scheduled again.
HandlerFails(h) ==
    /\ job[h].at = "handling"
    /\ \E err \in Errors :
          /\ job' = [job EXCEPT
                ![h].requeue = RequeueDecision(IF "drop" \notin err /\ Exhausted(h)
                                               THEN {"drop"} ELSE err),
                ![h].at = IF "drop" \in err \/ Exhausted(h) THEN "settle" ELSE "declare"]
          /\ Returned(err)
    /\ handled' = handled + 1
    /\ UNCHANGED <<place, header, wait, epoch, faults>>

\* An acknowledgement on a channel that is gone fails and has no effect.
Settled(h, p) ==
    /\ place' = IF job[h].epoch = epoch
                THEN [place EXCEPT ![job[h].copy] = p] ELSE place
    /\ job' = [job EXCEPT ![h] = Idle]
    /\ UNCHANGED <<header, wait, epoch, handled, joined, faults>>

Ack(h) ==
    /\ job[h].at = "ack"
    /\ Settled(h, IF job[h].retry = 0 THEN "done" ELSE "moved")

\* MUTANT: what is not to be requeued is not rejected either.
NackRequeuing(h) ==
    /\ job[h].at = "settle"
    /\ Settled(h, IF job[h].requeue THEN "ready" ELSE place[job[h].copy])

Nack(h) ==
    /\ job[h].at = "settle"
    /\ Settled(h, IF job[h].requeue THEN "ready" ELSE "dead")

-----------------------------------------------------------------------------
(* PublishDelayedToExchange: declare the holding queue, publish into it,   *)
(* wait for the confirmation.  Any failure sends the original the way of   *)
(* the handler's own error.                                                *)

Declare(h) ==
    /\ job[h].at = "declare"
    /\ Goto(h, "publish")
    /\ UNCHANGED <<place, header, wait, epoch, handled, joined, faults>>

ScheduleFails(h) ==
    /\ job[h].at \in {"declare", "publish"}
    /\ Unscheduled(h)
    /\ Fault
    /\ UNCHANGED <<place, header, wait, epoch, handled, joined>>

\* Nothing else depends on the base delay, so all of Bases are followed at once.
Schedule == [n \in 0..MaxRetries |-> [b \in Bases |-> SnapDelay(BackoffDelay(b, n))]]

\* MUTANT: the copy carries the count of the original.
PublishUncounted(h) ==
    /\ job[h].at = "publish"
    /\ \E c \in Copies :
          /\ place[c] = "unused" /\ \A d \in Copies : place[d] = "unused" => c <= d
          /\ place' = [place EXCEPT ![c] = "wire"]
          /\ header' = [header EXCEPT ![c] = RetryCount(job[h].copy)]
          /\ wait' = [wait EXCEPT ![c] = Schedule[RetryCount(job[h].copy)]]
          /\ job' = [job EXCEPT ![h].at = IF ConfirmMode THEN "confirm" ELSE "ack",
                                ![h].retry = c]
    /\ UNCHANGED <<epoch, handled, joined, faults>>

Publish(h) ==
    /\ job[h].at = "publish"
    /\ \E c \in Copies :
          /\ place[c] = "unused" /\ \A d \in Copies : place[d] = "unused" => c <= d
          /\ place' = [place EXCEPT ![c] = "wire"]
          /\ header' = [header EXCEPT ![c] = RetryCount(job[h].copy) + 1]
          /\ wait' = [wait EXCEPT ![c] = Schedule[RetryCount(job[h].copy)]]
          /\ job' = [job EXCEPT ![h].at = IF ConfirmMode THEN "confirm" ELSE "ack",
                                ![h].retry = c]
    /\ UNCHANGED <<epoch, handled, joined, faults>>

Awaited(h) == place[job[h].retry]

\* MUTANT: the error is returned although the retry is scheduled.
ConfirmedStillFailing(h) ==
    /\ job[h].at = "confirm" /\ Awaited(h) \notin {"wire", "lost"}
    /\ Unscheduled(h)
    /\ UNCHANGED <<place, header, wait, epoch, handled, joined, faults>>

\* Each publish waits for its own confirmation, which the broker sends once
\* the copy is in the holding queue.
Confirmed(h) ==
    /\ job[h].at = "confirm" /\ Awaited(h) \notin {"wire", "lost"}
    /\ Scheduled(h)
    /\ UNCHANGED <<place, header, wait, epoch, handled, joined, faults>>

\* MUTANT: nobody looks at what the confirmation says.
NackedUnread(h) ==
    /\ job[h].at = "confirm" /\ Awaited(h) = "wire"
    /\ place' = [place EXCEPT ![job[h].retry] = "lost"]
    /\ Scheduled(h)
    /\ Fault
    /\ UNCHANGED <<header, wait, epoch, handled, joined>>

\* The broker refuses the copy.
Nacked(h) ==
    /\ job[h].at = "confirm" /\ Awaited(h) = "wire"
    /\ place' = [place EXCEPT ![job[h].retry] = "lost"]
    /\ Unscheduled(h)
    /\ Fault
    /\ UNCHANGED <<header, wait, epoch, handled, joined>>

\* ConfirmTimeout, or the handler's context; the copy may still arrive.
ConfirmTimeout(h) ==
    /\ job[h].at = "confirm"
    /\ Unscheduled(h)
    /\ Fault
    /\ UNCHANGED <<place, header, wait, epoch, handled, joined>>

-----------------------------------------------------------------------------
(* The broker, and what may die.                                           *)

Arrive(c) ==
    /\ place[c] = "wire"
    /\ place' = [place EXCEPT ![c] = "held"]
    /\ UNCHANGED <<header, wait, epoch, job, handled, joined, faults>>

\* The TTL of the holding queue passes and the copy is dead-lettered back to
\* the work queue.
Expire(c) ==
    /\ place[c] = "held"
    /\ place' = [place EXCEPT ![c] = "ready"]
    /\ UNCHANGED <<header, wait, epoch, job, handled, joined, faults>>

\* What was on its way to the broker when the publisher's channel died did or
\* did not get there.
Cut(p) ==
    \E arrived \in SUBSET {c \in Copies : p[c] = "wire"} :
       place' = [c \in Copies |->
                    IF p[c] # "wire" THEN p[c]
                    ELSE IF c \in arrived THEN "held" ELSE "lost"]

\* What was delivered on a channel that is gone goes back to the queue.
Redelivered ==
    [c \in Copies |-> IF place[c] = "flight" THEN "ready" ELSE place[c]]

\* The death of a channel answers every confirmation awaited on it with a nack.
PublisherDies ==
    /\ Cut(place)
    /\ job' = [h \in Handlers |->
                  IF job[h].at = "confirm" THEN [job[h] EXCEPT !.at = "settle", !.retry = 0] ELSE job[h]]
    /\ Fault
    /\ UNCHANGED <<header, wait, epoch, handled, joined>>

\* The consumer's channel dies under its handlers: the broker delivers again
\* what they hold.
ConsumerDies ==
    /\ place' = Redelivered
    /\ epoch' = epoch + 1
    /\ Fault
    /\ UNCHANGED <<header, wait, job, handled, joined>>

\* The process dies and comes back.
Crash ==
    /\ Cut(Redelivered)
    /\ epoch' = epoch + 1
    /\ job' = [h \in Handlers |-> Idle]
    /\ Fault
    /\ UNCHANGED <<header, wait, handled, joined>>

HandlerStep(h) ==
    \/ Deliver(h) \/ HandlerOk(h) \/ HandlerFails(h) \/ Ack(h) \/ Nack(h)
    \/ Declare(h) \/ Publish(h) \/ Confirmed(h)

HandlerFault(h) == ScheduleFails(h) \/ Nacked(h) \/ ConfirmTimeout(h)

Next ==
    \/ \E h \in Handlers : HandlerStep(h) \/ HandlerFault(h)
    \/ \E c \in Copies : Arrive(c) \/ Expire(c)
    \/ PublisherDies \/ ConsumerDies \/ Crash

(* Each handler goroutine runs, and the broker delivers, confirms and      *)
(* expires; no fault is owed.                                              *)
Fairness ==
    /\ \A h \in Handlers : WF_vars(HandlerStep(h))
    /\ \A c \in Copies : WF_vars(Arrive(c) \/ Expire(c))

Spec == Init /\ [][Next]_vars /\ Fairness

-----------------------------------------------------------------------------
(* Properties.                                                             *)

(* Everything has its type; no copy is retried beyond MaxRetries. *)
TypeOK ==
    /\ place \in [Copies -> Places]
    /\ header \in [Copies -> Headers \cup 0..MaxRetries]
    /\ wait \in [Copies -> [Bases -> Rungs \cup {0}]]
    /\ epoch \in 0..MaxFaults
    /\ job \in [Handlers -> Jobs]
    /\ handled \in Nat /\ joined \in 0..MaxJoined
    /\ faults \in 0..MaxFaults

(* "Retrying is at-least-once": whatever fails, some copy is still on its way
   to a handler, or has been processed, or has met its terminal rejection.  An
   original acknowledged before its copy is safe breaks it. *)
AtLeastOnce ==
    \E c \in Copies : place[c] \in {"ready", "flight", "wire", "held", "done", "dead"}

\* Copies that can still reach a handler, less those whose handler has already
\* passed them on, and those that have reached their end.
Superseded(c) ==
    \E h \in Handlers : /\ job[h].copy = c /\ job[h].epoch = epoch
                        /\ job[h].at \in {"confirm", "ack", "settle"}
Lives == {c \in Copies : place[c] \in {"ready", "wire", "held", "flight", "done", "dead"}
                          /\ ~(place[c] = "flight" /\ Superseded(c))}

\* What the faults so far may have made of one message.
Allowed == 1 + Cardinality(Handlers) * faults

(* Only a fault makes two of one message: while nothing fails it lives in one
   place, and a fault adds at most the copy each handler was dealing with. *)
DoublesOnlyByFault == Cardinality(Lives) <= Allowed

(* The handler runs at most once more than the retries allowed, for every copy
   the faults made; except that it runs again each time it returns ErrRequeue
   joined with ErrDrop, which the middleware passes on (154) and the consumer
   requeues (consumer.go 1096). *)
RunsBounded == handled <= (MaxRetries + 1) * Allowed + joined

(* middleware.go 128-133: after maxRetries retries a message is rejected without
   requeue "regardless of [...] a handler ErrRequeue, so a failing message can never
   loop forever", and with ErrDrop "the error is terminal immediately".  It is
   not when it is an ErrRequeue as well: the same copy comes back, uncounted. *)
NeverLoopsForever == handled <= (MaxRetries + 1) * Allowed

\* base * 2^n, with the default for a base that is not positive.
Power[n \in 0..MaxRetries] == IF n = 0 THEN 1 ELSE 2 * Power[n - 1]
Asked(base, n) == (IF base <= 0 THEN 1000 ELSE base) * Power[n]
Promised ==
    [n \in 1..MaxRetries |-> [b \in Bases |->
        LET enough == {r \in Rungs : r >= Asked(b, n - 1)}
        IN  IF enough = {} THEN MaxDelay ELSE Min(enough)]]

(* The n-th retry is held for the shortest rung that is not under base * 2^n,
   and for the longest rung once there is none: never early, never refused
   with ErrDelayTooLong. *)
HeldLongEnough ==
    \A c \in Copies \ {1} : place[c] # "unused" => wait[c] = Promised[header[c]]

(* Every copy comes to an end: processed, passed on, or rejected, once the
   handler no longer joins the two sentinels. *)
Settles == <>[](\A c \in Copies : place[c] \in {"unused", "done", "moved", "dead", "lost"})

=============================================================================

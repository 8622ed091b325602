----------------------------- MODULE Deliveries -----------------------------
(***************************************************************************)
(* What becomes of each message a consumer is sent (consumer.go,           *)
(* middleware.go): from the queue into the buffer of a subscription, from  *)
(* there by forwardDeliveries to a handler of Consume under                *)
(* RetryMiddleware, which may be run again in place, and back to the       *)
(* broker with an ack or a nack by processDelivery.                        *)
(*                                                                         *)
(* Consumer models how loops, channels and Close get along; here a setup,  *)
(* a basic.consume or a basic.cancel is one step and succeeds if its       *)
(* channel is alive.  A handler works on copies: when the channel a        *)
(* message came from is gone, the broker delivers it again whatever the    *)
(* handler does.  Prefetch is no less than the number of messages.         *)
(***************************************************************************)
EXTENDS Naturals, Sequences, FiniteSets

CONSTANTS Msgs,            \* the messages of the queue
          Concurrency,     \* handlers of one Consume
          MaxRetries,      \* of RetryMiddleware
          RequeueOnError,  \* the configured disposition of a failure
          Graceful,        \* GracefulShutdown is enabled
          Deadline,        \* the context given to Close can expire
          MaxRuns,         \* bound: calls of Consume
          MaxChan          \* bound: channels ever opened

ASSUME DeliveriesAssumption ==
    /\ Concurrency \in Nat \ {0} /\ MaxRetries \in Nat
    /\ RequeueOnError \in BOOLEAN /\ Graceful \in BOOLEAN /\ Deadline \in BOOLEAN
    /\ MaxRuns \in Nat \ {0} /\ MaxChan \in Nat \ {0}

VARIABLES autoAck,     \* the broker forgets what it has sent
          place,       \* per message, what the broker makes of it
          chan,        \* number of the consumer's channel
          alive,       \* it is open
          registered,  \* there is a subscription on it
          buffer,      \* deliveries of the subscription nobody has read
          hand,        \* the delivery the loop offers to the handlers
          loop,        \* where the consume loop is
          run,         \* number of the latest loop
          cancelled,   \* Stop or Close has cancelled it
          ctxDone,     \* runs whose callers have cancelled their context
          job,         \* per handler of a run, what it is doing
          close,       \* where Close is
          expired,     \* Close gave up on the handlers
          stranded,    \* sent to a subscription nobody reads any more
          done,        \* messages a handler has succeeded with
          asked,       \* those whose handler, when it last failed, wanted a requeue
          overruled    \* those whose failure gave way to the error of the context

sub == <<alive, registered, buffer>>
loops == <<loop, run, cancelled>>
closing == <<close, expired>>
history == <<stranded, done, asked, overruled>>
vars == <<autoAck, place, chan, sub, hand, loops, ctxDone, job, closing, history>>

Handlers == (1..MaxRuns) \X (1..Concurrency)
None == <<>>                            \* nothing in the loop's hand
Errors == SUBSET {"requeue", "drop"}    \* what errors.Is finds; {} is any other error
Verdicts == {"ack", "requeue", "drop"}
NoJob == [at |-> "none", msg |-> None, chan |-> 0, attempt |-> 0, verdict |-> "ack"]

Init ==
    /\ autoAck \in BOOLEAN
    /\ place = [m \in Msgs |-> "ready"]
    /\ chan = 1 /\ alive = TRUE /\ registered = FALSE
    /\ buffer = <<>> /\ hand = None
    /\ loop = "off" /\ run = 0 /\ cancelled = FALSE /\ ctxDone = {}
    /\ job = [h \in Handlers |-> NoJob]
    /\ close = "no" /\ expired = FALSE
    /\ stranded = {} /\ done = {} /\ asked = {} /\ overruled = {}

Closed == close # "no"
Done == cancelled \/ run \in ctxDone    \* the loop's context
Live(h) == ~autoAck /\ alive /\ job[h].chan = chan  \* its delivery can be settled
Unacked == {m \in Msgs : place[m] = "unacked"}
Requeued == [m \in Msgs |-> IF place[m] = "unacked" THEN "ready" ELSE place[m]]
Read(s) == {s[i] : i \in 1..Len(s)}

-----------------------------------------------------------------------------
(* The broker. *)

Send(m) ==  \* what comes when the loop has left is read by nobody
    /\ registered /\ place[m] = "ready"
    /\ place' = [place EXCEPT ![m] = IF autoAck THEN "acked" ELSE "unacked"]
    /\ IF loop = "forward" THEN buffer' = Append(buffer, m) /\ UNCHANGED stranded
       ELSE stranded' = stranded \cup {m} /\ UNCHANGED buffer
    /\ UNCHANGED <<autoAck, chan, alive, registered, hand, loops, ctxDone, job, closing, done, asked, overruled>>

(* The channel dies, or its connection: what was not settled is ready again, *)
(* and the library drops the buffer sooner or later.                         *)
Dies ==
    /\ alive /\ chan < MaxChan
    /\ alive' = FALSE /\ registered' = FALSE
    /\ place' = Requeued /\ stranded' = {}
    /\ done' = done \ Unacked /\ asked' = asked \ Unacked
    /\ UNCHANGED <<autoAck, chan, buffer, hand, loops, ctxDone, job, closing, overruled>>

Dropped ==
    /\ ~alive /\ buffer # <<>> /\ buffer' = <<>>
    /\ UNCHANGED <<autoAck, place, chan, alive, registered, hand, loops, ctxDone, job, closing, history>>

-----------------------------------------------------------------------------
(* Consume, consumeLoop and forwardDeliveries. *)

Consume ==
    /\ loop = "off" /\ ~Closed /\ run < MaxRuns
    /\ loop' = "register" /\ run' = run + 1 /\ cancelled' = FALSE
    /\ job' = [h \in Handlers |-> IF h[1] = run' THEN [NoJob EXCEPT !.at = "idle"] ELSE job[h]]
    /\ UNCHANGED <<autoAck, place, chan, sub, hand, ctxDone, closing, history>>

Register ==
    /\ loop = "register"
    /\ IF Done THEN loop' = "off" /\ UNCHANGED registered
       ELSE /\ loop' = IF alive THEN "forward" ELSE "wait"
            /\ registered' = alive
    /\ UNCHANGED <<autoAck, place, chan, alive, buffer, hand, run, cancelled, ctxDone, job, closing, history>>

Setup ==
    /\ loop = "wait"
    /\ IF Done THEN loop' = "off" /\ UNCHANGED <<chan, alive>>
       ELSE /\ loop' = "register" /\ chan < MaxChan
            /\ chan' = chan + 1 /\ alive' = TRUE
    /\ UNCHANGED <<autoAck, place, registered, buffer, hand, run, cancelled, ctxDone, job, closing, history>>

Pick ==
    /\ loop = "forward" /\ hand = None /\ buffer # <<>>
    /\ hand' = <<Head(buffer)>> /\ buffer' = Tail(buffer)
    /\ UNCHANGED <<autoAck, place, chan, alive, registered, loops, ctxDone, job, closing, history>>

Ends ==  \* the delivery channel is closed
    /\ loop = "forward" /\ hand = None /\ buffer = <<>> /\ ~alive
    /\ loop' = "wait"
    /\ UNCHANGED <<autoAck, place, chan, sub, hand, run, cancelled, ctxDone, job, closing, history>>

LeaveStubborn ==  \* mutant: the loop offers its delivery whether it is cancelled or not
    /\ loop = "forward" /\ Done /\ hand = None
    /\ loop' = "cancel"
    /\ buffer' = <<>> /\ stranded' = (stranded \cup Read(buffer)) \cap Unacked
    /\ UNCHANGED <<autoAck, place, chan, alive, registered, hand, run, cancelled, ctxDone, job, closing, done, asked, overruled>>

Leave ==  \* at either select, with what was sent ahead
    /\ loop = "forward" /\ Done
    /\ loop' = "cancel"
    /\ hand' = None /\ buffer' = <<>>
    /\ stranded' = (stranded \cup Read(buffer \o hand)) \cap Unacked
    /\ UNCHANGED <<autoAck, place, chan, alive, registered, run, cancelled, ctxDone, job, closing, done, asked, overruled>>

Cancel ==  \* cancelSubscription, left out for a consumer that is closing
    /\ loop = "cancel" /\ loop' = "off"
    /\ registered' = (registered /\ Closed)
    /\ UNCHANGED <<autoAck, place, chan, alive, buffer, hand, run, cancelled, ctxDone, job, closing, history>>

LoopNext == Register \/ Setup \/ Pick \/ Ends \/ Leave \/ Cancel

-----------------------------------------------------------------------------
(* A handler goroutine: processDelivery around RetryMiddleware around the    *)
(* handler, whose panics RecoveryMiddleware makes errors.                    *)

Take(h) ==
    /\ job[h].at = "idle" /\ h[1] = run /\ hand # None
    /\ job' = [job EXCEPT ![h] = [at |-> "handling", msg |-> hand, chan |-> chan,
                                  attempt |-> 0, verdict |-> "ack"]]
    /\ hand' = None
    /\ UNCHANGED <<autoAck, place, chan, sub, loops, ctxDone, closing, history>>

Msg(h) == job[h].msg[1]

Succeeds(h) ==
    /\ job[h].at = "handling"
    /\ job' = [job EXCEPT ![h].at = "settle", ![h].verdict = "ack"]
    /\ done' = IF Live(h) THEN done \cup {Msg(h)} ELSE done
    /\ UNCHANGED <<autoAck, place, chan, sub, hand, loops, ctxDone, closing, stranded, asked, overruled>>

DispositionDeaf(err) ==  \* mutant: ErrRequeue makes no difference
    IF "drop" \notin err /\ RequeueOnError THEN "requeue" ELSE "drop"

Disposition(err) ==  \* requeueDecision
    IF "requeue" \in err \/ ("drop" \notin err /\ RequeueOnError) THEN "requeue" ELSE "drop"

FailsOnceMore(h) ==  \* mutant: attempts are counted from one
    /\ job[h].at = "handling"
    /\ \E err \in Errors :
          job' = IF job[h].attempt <= MaxRetries
                 THEN [job EXCEPT ![h].at = "delay"]
                 ELSE [job EXCEPT ![h].at = "settle", ![h].verdict = Disposition(err)]
    /\ UNCHANGED <<autoAck, place, chan, sub, hand, loops, ctxDone, closing, history>>

Fails(h) ==
    /\ job[h].at = "handling"
    /\ \E err \in Errors :
          /\ job' = IF job[h].attempt < MaxRetries
                    THEN [job EXCEPT ![h].at = "delay"]
                    ELSE [job EXCEPT ![h].at = "settle", ![h].verdict = Disposition(err)]
          /\ asked' = IF ~Live(h) THEN asked
                      ELSE IF "requeue" \in err THEN asked \cup {Msg(h)} ELSE asked \ {Msg(h)}
    /\ overruled' = IF Live(h) THEN overruled \ {Msg(h)} ELSE overruled
    /\ UNCHANGED <<autoAck, place, chan, sub, hand, loops, ctxDone, closing, stranded, done>>

Again(h) ==
    /\ job[h].at = "delay"
    /\ job' = [job EXCEPT ![h].at = "handling", ![h].attempt = @ + 1]
    /\ UNCHANGED <<autoAck, place, chan, sub, hand, loops, ctxDone, closing, history>>

Interrupted(h) ==  \* ctx.Err() takes the place of the handler's error
    /\ job[h].at = "delay" /\ h[1] \in ctxDone
    /\ job' = [job EXCEPT ![h].at = "settle", ![h].verdict = Disposition({})]
    /\ overruled' = IF Live(h) THEN overruled \cup {Msg(h)} ELSE overruled
    /\ UNCHANGED <<autoAck, place, chan, sub, hand, loops, ctxDone, closing, stranded, done, asked>>

Placed(verdict) ==
    CASE verdict = "ack" -> "acked" [] verdict = "requeue" -> "ready" [] verdict = "drop" -> "dropped"

SettleAcksOnly(h) ==  \* mutant: what is not to be requeued is not rejected either
    /\ job[h].at = "settle"
    /\ place' = IF ~Live(h) \/ job[h].verdict = "drop" THEN place
                ELSE [place EXCEPT ![Msg(h)] = Placed(job[h].verdict)]
    /\ job' = [job EXCEPT ![h] = [NoJob EXCEPT !.at = "idle"]]
    /\ asked' = IF Live(h) /\ job[h].verdict # "drop" THEN asked \ {Msg(h)} ELSE asked
    /\ UNCHANGED <<autoAck, chan, sub, hand, loops, ctxDone, closing, stranded, done, overruled>>

Settle(h) ==  \* on a channel that is gone it fails and has no effect
    /\ job[h].at = "settle"
    /\ place' = IF Live(h) THEN [place EXCEPT ![Msg(h)] = Placed(job[h].verdict)] ELSE place
    /\ asked' = IF Live(h) /\ job[h].verdict # "drop" THEN asked \ {Msg(h)} ELSE asked
    /\ job' = [job EXCEPT ![h] = [NoJob EXCEPT !.at = "idle"]]
    /\ UNCHANGED <<autoAck, chan, sub, hand, loops, ctxDone, closing, stranded, done, overruled>>

Quit(h) ==  \* the context is cancelled, or the loop has closed its channel
    /\ job[h].at = "idle"
    /\ h[1] \in ctxDone \/ h[1] < run \/ loop = "off"
    /\ job' = [job EXCEPT ![h] = NoJob]
    /\ UNCHANGED <<autoAck, place, chan, sub, hand, loops, ctxDone, closing, history>>

HandlerNext(h) ==
    Take(h) \/ Succeeds(h) \/ Fails(h) \/ Again(h) \/ Interrupted(h) \/ Settle(h) \/ Quit(h)

-----------------------------------------------------------------------------
(* The callers' contexts, Stop and Close. *)

UserCancels ==
    /\ run # 0 /\ run \notin ctxDone /\ ctxDone' = ctxDone \cup {run}
    /\ UNCHANGED <<autoAck, place, chan, sub, hand, loops, job, closing, history>>

Stop ==
    /\ loop # "off" /\ ~cancelled /\ cancelled' = TRUE
    /\ UNCHANGED <<autoAck, place, chan, sub, hand, loop, run, ctxDone, job, closing, history>>

Close ==  \* the handlers keep their context
    /\ ~Closed /\ close' = "loops" /\ cancelled' = TRUE
    /\ UNCHANGED <<autoAck, place, chan, sub, hand, loop, run, ctxDone, job, expired, history>>

CloseLoopsImpatient ==  \* mutant: in-flight handlers are not waited for
    /\ close = "loops" /\ loop = "off"
    /\ close' = "channel"
    /\ UNCHANGED <<autoAck, place, chan, sub, hand, loops, ctxDone, job, expired, history>>

CloseLoops ==
    /\ close = "loops" /\ loop = "off"
    /\ close' = IF Graceful THEN "drain" ELSE "channel"
    /\ UNCHANGED <<autoAck, place, chan, sub, hand, loops, ctxDone, job, expired, history>>

CloseDrained ==
    /\ close = "drain" /\ close' = "channel"
    /\ IF \A h \in Handlers : job[h].at = "none" THEN UNCHANGED expired
       ELSE Deadline /\ expired' = TRUE
    /\ UNCHANGED <<autoAck, place, chan, sub, hand, loops, ctxDone, job, history>>

CloseChannel ==
    /\ close = "channel" /\ close' = "returned"
    /\ alive' = FALSE /\ registered' = FALSE
    /\ place' = Requeued /\ stranded' = {}
    /\ UNCHANGED <<autoAck, chan, buffer, hand, loops, ctxDone, job, expired, done, asked, overruled>>

CloseNext == CloseLoops \/ CloseDrained \/ CloseChannel

Next ==
    \/ \E m \in Msgs : Send(m)
    \/ Dies \/ Dropped
    \/ Consume \/ LoopNext
    \/ \E h \in Handlers : HandlerNext(h)
    \/ UserCancels \/ Stop \/ Close \/ CloseNext

(* The loop and the handlers keep going, a handler comes back, and a select  *)
(* does not overlook a context that is cancelled.                            *)
Fairness ==
    /\ WF_vars(Dropped) /\ WF_vars(LoopNext) /\ WF_vars(Leave)
    /\ \A h \in Handlers : WF_vars(HandlerNext(h))

Spec == Init /\ [][Next]_vars /\ Fairness

-----------------------------------------------------------------------------
(* Properties. *)

(* Everything has its type, and deliveries wait in the buffer of a loop only. *)
TypeOK ==
    /\ autoAck \in BOOLEAN
    /\ place \in [Msgs -> {"ready", "unacked", "acked", "dropped"}]
    /\ chan \in 1..MaxChan /\ alive \in BOOLEAN
    /\ registered \in BOOLEAN /\ (registered => alive)
    /\ Read(buffer) \subseteq Msgs /\ hand \in {None} \cup {<<m>> : m \in Msgs}
    /\ loop \in {"off", "register", "wait", "forward", "cancel"}
    /\ loop # "forward" => buffer = <<>> /\ hand = None
    /\ run \in 0..MaxRuns /\ cancelled \in BOOLEAN /\ ctxDone \subseteq 1..MaxRuns
    /\ job \in [Handlers -> [at : {"none", "idle", "handling", "delay", "settle"},
                             msg : {None} \cup {<<m>> : m \in Msgs}, chan : 0..MaxChan,
                             attempt : 0..MaxRetries, verdict : Verdicts]]
    /\ close \in {"no", "loops", "drain", "channel", "returned"} /\ expired \in BOOLEAN
    /\ stranded \subseteq Msgs /\ done \subseteq Msgs
    /\ asked \subseteq Msgs /\ overruled \subseteq Msgs

Working(h) == job[h].at \in {"handling", "delay", "settle"} /\ Live(h)

(* forwardDeliveries, processDelivery: a message the broker waits for is in  *)
(* one place and one only: the buffer, the hand of the loop, the work of a   *)
(* handler, or among those a Stop or a cancelled context has stranded, which *)
(* nobody settles before the channel closes.                                 *)
HeldOnce ==
    \A m \in Unacked :
        Cardinality({i \in 1..Len(buffer \o hand) : alive /\ (buffer \o hand)[i] = m})
        + Cardinality({h \in Handlers : Working(h) /\ Msg(h) = m})
        + (IF m \in stranded THEN 1 ELSE 0) = 1

(* Close (1287-1288): a message whose handler has succeeded is not delivered *)
(* again unless its channel died in between: a graceful Close that has not   *)
(* expired leaves the channel open until the ack is sent.                    *)
SuccessIsFinal ==
    Graceful /\ ~expired =>
        \A m \in done : \/ place[m] = "acked"
                        \/ \E h \in Handlers : Working(h) /\ Msg(h) = m /\ job[h].at = "settle"

(* ErrRequeue (rabbitmq.go 62-64): a message whose handler asked for it to   *)
(* be requeued is not discarded, whatever its other errors and the attempts  *)
(* before, unless RetryMiddleware, its wait cut short, has put the context's *)
(* error in the place of the handler's and failures are not requeued.        *)
RequeueHonoured ==
    \A m \in asked : place[m] = "dropped" => m \in overruled /\ ~RequeueOnError

(* What the comment says: "forces the failed message to be requeued          *)
(* regardless of ConsumerConfig.RequeueOnError".                             *)
RequeueRegardless == \A m \in asked : place[m] # "dropped"

(* Consume: every delivery comes to its end: settled, given back, or         *)
(* stranded by whoever stopped the loop.                                     *)
Settled ==
    \A m \in Msgs : place[m] = "unacked" /\ m \notin stranded
                       ~> place[m] # "unacked" \/ m \in stranded
=============================================================================

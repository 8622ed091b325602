-------------------------- MODULE DeliveriesProofs --------------------------
(***************************************************************************)
(* Deliveries for every number of messages, handlers, retries, runs and    *)
(* channels: its types, that a message the broker waits for is held by one *)
(* party and one only, and what a handler's success and its ErrRequeue are *)
(* worth.                                                                  *)
(***************************************************************************)
EXTENDS Deliveries, SequenceTheorems, FiniteSetTheorems, TLAPS

(* TypeOK in parts, with the shape of buffer, which TypeOK leaves to Init,   *)
(* and what the types of the next step hang on: a retry that is due is one   *)
(* that is allowed, and a handler at work has a message.                     *)
Points == {"none", "idle", "handling", "delay", "settle"}
AtWork == {"handling", "delay", "settle"}
Job == [at : Points, msg : {None} \cup {<<m>> : m \in Msgs}, chan : 0..MaxChan,
        attempt : 0..MaxRetries, verdict : Verdicts]

BrokerTyped ==
    /\ autoAck \in BOOLEAN
    /\ place \in [Msgs -> {"ready", "unacked", "acked", "dropped"}]
    /\ chan \in 1..MaxChan /\ alive \in BOOLEAN
    /\ registered \in BOOLEAN /\ (registered => alive)

LoopTyped ==
    /\ buffer \in Seq(Msgs) /\ hand \in {None} \cup {<<m>> : m \in Msgs}
    /\ loop \in {"off", "register", "wait", "forward", "cancel"}
    /\ loop # "forward" => buffer = <<>> /\ hand = None
    /\ run \in 0..MaxRuns /\ cancelled \in BOOLEAN /\ ctxDone \subseteq 1..MaxRuns

JobsTyped ==
    /\ job \in [Handlers -> Job]
    /\ \A h \in Handlers :
          /\ job[h].at \in AtWork => job[h].msg # None
          /\ job[h].at = "delay" => job[h].attempt < MaxRetries
          /\ job[h].chan <= chan
          /\ h[1] > run => job[h].at = "none"

RestTyped ==
    /\ close \in {"no", "loops", "drain", "channel", "returned"} /\ expired \in BOOLEAN
    /\ stranded \subseteq Msgs /\ done \subseteq Msgs
    /\ asked \subseteq Msgs /\ overruled \subseteq Msgs

Typing == BrokerTyped /\ LoopTyped /\ JobsTyped /\ RestTyped

-----------------------------------------------------------------------------
(* What the consumer was sent and has not settled yet: in the buffer and the *)
(* hand of the loop, as long as it can be settled.                           *)
Distinct(s) == \A i, j \in 1..Len(s) : s[i] = s[j] => i = j
Fresh == alive /\ ~autoAck
Waiting == Read(buffer) \cup Read(hand)

(* Each such message is in one place only ...                                *)
Apart == Fresh =>
    /\ Distinct(buffer)
    /\ Read(buffer) \cap Read(hand) = {}
    /\ Waiting \cap stranded = {}
    /\ \A h \in Handlers : Working(h) => Msg(h) \notin Waiting \cup stranded
    /\ \A h, k \in Handlers : Working(h) /\ Working(k) /\ Msg(h) = Msg(k) => h = k

(* ... and the broker waits for it, and for nothing else.                    *)
Awaited ==
    /\ Fresh => Waiting \cup stranded \subseteq Unacked
    /\ \A h \in Handlers : Working(h) => Msg(h) \in Unacked
    /\ ~alive => stranded = {}
    /\ ~Fresh => Unacked = {}
    /\ loop = "wait" => ~alive
    /\ \A m \in Unacked :
          m \in Waiting \cup stranded \/ \E h \in Handlers : Working(h) /\ Msg(h) = m

(* Close goes on only when the loop is gone, and a graceful one, unless it   *)
(* gave up, only when every handler is.                                      *)
ClosedInOrder ==
    /\ close \in {"drain", "channel", "returned"} => loop = "off"
    /\ close \in {"channel", "returned"} /\ Graceful /\ ~expired =>
          \A h \in Handlers : job[h].at = "none"
    /\ close = "returned" => ~alive

(* A success is on its way to the broker.                                    *)
Succeeded ==
    Graceful /\ ~expired =>
        \A m \in done : \/ place[m] = "acked"
                        \/ \E h \in Handlers : /\ Working(h) /\ Msg(h) = m
                                               /\ job[h].at = "settle" /\ job[h].verdict = "ack"

(* The handler that asked for a requeue is still at it, or the message is    *)
(* gone; and it will not be discarded but for the error of a context.        *)
Faithful(h) ==
    job[h].at = "settle" /\ job[h].verdict = "drop" => Msg(h) \in overruled /\ ~RequeueOnError

StillAsking ==
    close # "returned" =>
        \A m \in asked :
            place[m] = "dropped" \/ \E h \in Handlers : Working(h) /\ Msg(h) = m /\ Faithful(h)

IInv ==
    /\ Typing
    /\ Apart /\ Awaited
    /\ ClosedInOrder /\ Succeeded
    /\ StillAsking /\ RequeueHonoured

-----------------------------------------------------------------------------
(* What sequences hold.                                                      *)
LEMMA ReadShort == Read(<<>>) = {} /\ \A m : Read(<<m>>) = {m}
  BY DEF Read

LEMMA ReadAppend ==
    ASSUME NEW S, NEW s \in Seq(S), NEW m \in S
    PROVE  /\ Read(Append(s, m)) = Read(s) \cup {m}
           /\ Distinct(s) /\ m \notin Read(s) => Distinct(Append(s, m))
<1> DEFINE t == Append(s, m)
<1>1. Len(t) = Len(s) + 1 /\ t[Len(s) + 1] = m /\ \A i \in 1..Len(s) : t[i] = s[i]
  OBVIOUS
<1>2. Len(s) \in Nat OBVIOUS
<1> HIDE DEF t
<1>3. Read(s) \cup {m} \subseteq Read(t)
  <2>1. \A i \in 1..Len(s) : i \in 1..Len(t) BY <1>1, <1>2
  <2>2. Len(s) + 1 \in 1..Len(t) BY <1>1, <1>2
  <2>3. QED BY <1>1, <2>1, <2>2 DEF Read
<1>4. ASSUME NEW i \in 1..Len(t) PROVE t[i] \in Read(s) \cup {m}
  <2>1. i \in 1..Len(s) \/ i = Len(s) + 1 BY <1>1, <1>2
  <2>2. QED BY <1>1, <2>1 DEF Read
<1>5. Read(t) \subseteq Read(s) \cup {m} BY <1>4 DEF Read
<1>6. ASSUME Distinct(s), m \notin Read(s), NEW i \in 1..Len(t), NEW j \in 1..Len(t), t[i] = t[j]
      PROVE  i = j
  <2>1. (i \in 1..Len(s) \/ i = Len(s) + 1) /\ (j \in 1..Len(s) \/ j = Len(s) + 1)
    BY <1>1, <1>2
  <2>2. QED BY <1>1, <1>6, <2>1 DEF Distinct, Read
<1>7. QED BY <1>3, <1>5, <1>6 DEF Distinct, t

LEMMA ReadTail ==
    ASSUME NEW S, NEW s \in Seq(S), s # <<>>
    PROVE  /\ Tail(s) \in Seq(S) /\ Head(s) \in S
           /\ Read(s) = {Head(s)} \cup Read(Tail(s))
           /\ Distinct(s) => Distinct(Tail(s)) /\ Head(s) \notin Read(Tail(s))
<1> DEFINE t == Tail(s)
<1>1. t \in Seq(S) /\ Head(s) \in S /\ Head(s) = s[1] OBVIOUS
<1>2. Len(s) \in Nat \ {0} /\ Len(t) = Len(s) - 1 /\ \A i \in 1..Len(t) : t[i] = s[i + 1]
  OBVIOUS
<1> HIDE DEF t
<1>3. \A i \in 1..Len(s) : i = 1 \/ (i - 1 \in 1..Len(t) /\ (i - 1) + 1 = i) BY <1>2
<1>4. \A i \in 1..Len(t) : i + 1 \in 1..Len(s) /\ i + 1 # 1 BY <1>2
<1>5. ASSUME NEW i \in 1..Len(s) PROVE s[i] \in {Head(s)} \cup Read(t)
  <2>1. CASE i = 1 BY <2>1, <1>1
  <2>2. CASE i - 1 \in 1..Len(t) /\ (i - 1) + 1 = i
    <3>1. t[i - 1] = s[i] BY <2>2, <1>2
    <3>2. QED BY <2>2, <3>1 DEF Read
  <2>3. QED BY <2>1, <2>2, <1>3
<1>6. Read(s) \subseteq {Head(s)} \cup Read(t) BY <1>5 DEF Read
<1>7. {Head(s)} \cup Read(t) \subseteq Read(s)
  <2>1. 1 \in 1..Len(s) BY <1>2
  <2>2. QED BY <1>1, <1>2, <1>4, <2>1 DEF Read
<1>8. ASSUME Distinct(s) PROVE Distinct(t) /\ Head(s) \notin Read(t)
  <2>1. 1 \in 1..Len(s) BY <1>2
  <2>2. ASSUME NEW i \in 1..Len(t) PROVE t[i] # Head(s)
    BY <1>1, <1>2, <1>4, <1>8, <2>1 DEF Distinct
  <2>3. ASSUME NEW i \in 1..Len(t), NEW j \in 1..Len(t), t[i] = t[j] PROVE i = j
    <3>1. i + 1 = j + 1 BY <1>2, <1>4, <1>8, <2>3 DEF Distinct
    <3>2. QED BY <3>1
  <2>4. QED BY <2>2, <2>3 DEF Distinct, Read
<1>9. QED BY <1>1, <1>6, <1>7, <1>8 DEF t

LEMMA ReadConcat ==
    ASSUME NEW S, NEW s \in Seq(S), NEW t \in Seq(S)
    PROVE  Read(s \o t) = Read(s) \cup Read(t)
<1> DEFINE u == s \o t
<1>1. /\ Len(s) \in Nat /\ Len(t) \in Nat /\ Len(u) = Len(s) + Len(t)
      /\ \A i \in 1..Len(s) : u[i] = s[i]
      /\ \A i \in 1..Len(t) : u[Len(s) + i] = t[i]
  BY ConcatProperties
<1> HIDE DEF u
<1>2. ASSUME NEW i \in 1..Len(u) PROVE u[i] \in Read(s) \cup Read(t)
  <2>1. CASE i \in 1..Len(s) BY <2>1, <1>1 DEF Read
  <2>2. CASE i \notin 1..Len(s)
    <3>1. i - Len(s) \in 1..Len(t) /\ Len(s) + (i - Len(s)) = i BY <2>2, <1>1
    <3>2. u[i] = t[i - Len(s)] BY <3>1, <1>1
    <3>3. QED BY <3>1, <3>2 DEF Read
  <2>3. QED BY <2>1, <2>2
<1>3. \A i \in 1..Len(s) : i \in 1..Len(u) BY <1>1
<1>4. \A i \in 1..Len(t) : Len(s) + i \in 1..Len(u) BY <1>1
<1>5. Read(u) \subseteq Read(s) \cup Read(t) BY <1>2 DEF Read
<1>6. Read(s) \subseteq Read(u) BY <1>1, <1>3 DEF Read
<1>7. Read(t) \subseteq Read(u) BY <1>1, <1>4 DEF Read
<1>8. QED BY <1>5, <1>6, <1>7 DEF u


-----------------------------------------------------------------------------
(* The fields of a job.                                                      *)
LEMMA JobFields ==
    ASSUME JobsTyped, NEW h \in Handlers
    PROVE  /\ job[h] \in Job
           /\ job[h].at \in AtWork => Msg(h) \in Msgs /\ job[h].msg = <<Msg(h)>>
<1>1. job[h] \in Job BY DEF JobsTyped
<1>2. job[h].at \in AtWork => job[h].msg # None BY DEF JobsTyped
<1>3. \A m : <<m>>[1] = m OBVIOUS
<1>4. job[h].msg \in {None} \cup {<<m>> : m \in Msgs} BY <1>1 DEF Job
<1>5. ASSUME job[h].msg # None PROVE Msg(h) \in Msgs /\ job[h].msg = <<Msg(h)>>
  <2>1. PICK m \in Msgs : job[h].msg = <<m>> BY <1>4, <1>5
  <2>2. QED BY <2>1, <1>3 DEF Msg
<1>6. QED BY <1>1, <1>2, <1>5

(* A handler goes on with its message: it is at work, before and after, and  *)
(* nobody else's part in the deliveries changes.                             *)
GoesOn(h) ==
    /\ job[h].at \in AtWork /\ job'[h].at \in AtWork
    /\ job'[h].msg = job[h].msg /\ job'[h].chan = job[h].chan
    /\ job'[h].at = "delay" => job'[h].attempt < MaxRetries
    /\ job' \in [Handlers -> Job]
    /\ \A k \in Handlers : k # h => job'[k] = job[k]
    /\ UNCHANGED <<autoAck, place, chan, sub, hand, loops, ctxDone, closing, stranded>>

LEMMA SuccessGoesOn ==
    ASSUME JobsTyped, NEW h \in Handlers, Succeeds(h)
    PROVE  GoesOn(h) /\ job'[h].at = "settle" /\ job'[h].verdict = "ack"
<1> DEFINE r == [job[h] EXCEPT !.at = "settle", !.verdict = "ack"]
<1>1. job[h] \in Job BY JobFields
<1>2. /\ r \in Job /\ r.at = "settle" /\ r.verdict = "ack"
      /\ r.msg = job[h].msg /\ r.chan = job[h].chan
  BY <1>1 DEF Job, Points, Verdicts
<1>3. job' = [job EXCEPT ![h] = r] BY DEF Succeeds
<1> HIDE DEF r
<1>4. QED BY <1>2, <1>3 DEF GoesOn, Succeeds, JobsTyped, AtWork

LEMMA FailureGoesOn ==
    ASSUME JobsTyped, NEW h \in Handlers, NEW err \in Errors, job[h].at = "handling",
           job' = IF job[h].attempt < MaxRetries
                    THEN [job EXCEPT ![h].at = "delay"]
                    ELSE [job EXCEPT ![h].at = "settle", ![h].verdict = Disposition(err)],
           UNCHANGED <<autoAck, place, chan, sub, hand, loops, ctxDone, closing, stranded>>
    PROVE  /\ GoesOn(h)
           /\ job'[h].at = "settle" => job'[h].verdict = Disposition(err)
<1> DEFINE r == [job[h] EXCEPT !.at = "settle", !.verdict = Disposition(err)]
           d == [job[h] EXCEPT !.at = "delay"]
<1>1. job[h] \in Job BY JobFields
<1>2. Disposition(err) \in Verdicts BY DEF Disposition, Verdicts
<1>3. /\ r \in Job /\ r.at = "settle" /\ r.verdict = Disposition(err)
      /\ r.msg = job[h].msg /\ r.chan = job[h].chan
  BY <1>1, <1>2 DEF Job, Points
<1>4. /\ d \in Job /\ d.at = "delay" /\ d.attempt = job[h].attempt
      /\ d.msg = job[h].msg /\ d.chan = job[h].chan
  BY <1>1 DEF Job, Points
<1>5. job' = [job EXCEPT ![h] = IF job[h].attempt < MaxRetries THEN d ELSE r] OBVIOUS
<1> HIDE DEF r, d
<1>6. QED BY <1>3, <1>4, <1>5 DEF GoesOn, JobsTyped, AtWork

LEMMA RetryGoesOn ==
    ASSUME JobsTyped, NEW h \in Handlers, Again(h)
    PROVE  GoesOn(h) /\ job'[h].at = "handling"
<1> DEFINE r == [job[h] EXCEPT !.at = "handling", !.attempt = @ + 1]
<1>1. job[h] \in Job /\ job[h].attempt < MaxRetries BY JobFields DEF JobsTyped, Again
<1>2. r \in Job /\ r.at = "handling" /\ r.msg = job[h].msg /\ r.chan = job[h].chan
  <2>1. job[h].attempt + 1 \in 0..MaxRetries BY <1>1, DeliveriesAssumption DEF Job
  <2>2. QED BY <1>1, <2>1 DEF Job, Points
<1>3. job' = [job EXCEPT ![h] = r] BY DEF Again
<1> HIDE DEF r
<1>4. QED BY <1>2, <1>3 DEF GoesOn, Again, JobsTyped, AtWork, history

LEMMA InterruptGoesOn ==
    ASSUME JobsTyped, NEW h \in Handlers, Interrupted(h)
    PROVE  GoesOn(h) /\ job'[h].at = "settle" /\ job'[h].verdict = Disposition({})
<1> DEFINE r == [job[h] EXCEPT !.at = "settle", !.verdict = Disposition({})]
<1>1. job[h] \in Job BY JobFields
<1>2. Disposition({}) \in Verdicts BY DEF Disposition, Verdicts
<1>3. /\ r \in Job /\ r.at = "settle" /\ r.verdict = Disposition({})
      /\ r.msg = job[h].msg /\ r.chan = job[h].chan
  BY <1>1, <1>2 DEF Job, Points
<1>4. job' = [job EXCEPT ![h] = r] BY DEF Interrupted
<1> HIDE DEF r
<1>5. QED BY <1>3, <1>4 DEF GoesOn, Interrupted, JobsTyped, AtWork, history

(* Then everything about who holds which message stays as it was.            *)
LEMMA SameWork ==
    ASSUME NEW h \in Handlers, GoesOn(h)
    PROVE  /\ Fresh' = Fresh /\ Waiting' = Waiting /\ Unacked' = Unacked
           /\ \A k \in Handlers : Working(k)' = Working(k) /\ Msg(k)' = Msg(k)
<1> USE DEF GoesOn, sub, loops
<1>1. Fresh' = Fresh /\ Waiting' = Waiting /\ Unacked' = Unacked
  BY DEF Fresh, Waiting, Unacked
<1>2. ASSUME NEW k \in Handlers PROVE Working(k)' = Working(k) /\ Msg(k)' = Msg(k)
  <2>1. CASE k = h BY <2>1 DEF Working, Live, Msg, AtWork
  <2>2. CASE k # h BY <2>2 DEF Working, Live, Msg
  <2>3. QED BY <2>1, <2>2
<1>3. QED BY <1>1, <1>2

LEMMA GoesOnKeeps ==
    ASSUME Typing, Apart, Awaited, ClosedInOrder, NEW h \in Handlers, GoesOn(h)
    PROVE  /\ BrokerTyped' /\ LoopTyped' /\ JobsTyped'
           /\ Apart' /\ Awaited' /\ ClosedInOrder'
<1>1. BrokerTyped' /\ LoopTyped' BY DEF Typing, BrokerTyped, LoopTyped, GoesOn, sub, loops
<1>2. JobsTyped'
  <2>1. job' \in [Handlers -> Job] BY DEF GoesOn
  <2>2. ASSUME NEW k \in Handlers
        PROVE  /\ job'[k].at \in AtWork => job'[k].msg # None
               /\ job'[k].at = "delay" => job'[k].attempt < MaxRetries
               /\ job'[k].chan <= chan'
               /\ k[1] > run' => job'[k].at = "none"
    <3>1. CASE k = h BY <3>1 DEF Typing, JobsTyped, GoesOn, AtWork, loops
    <3>2. CASE k # h BY <3>2 DEF Typing, JobsTyped, GoesOn, loops
    <3>3. QED BY <3>1, <3>2
  <2>3. QED BY <2>1, <2>2 DEF JobsTyped
<1>3. UNCHANGED <<buffer, hand, stranded, alive, loop, close, expired>>
  BY DEF GoesOn, sub, loops, closing
<1>4. Apart' BY <1>3, SameWork DEF Apart, Distinct
<1>5. Awaited' BY <1>3, SameWork DEF Awaited
<1>6. ClosedInOrder' BY <1>3 DEF ClosedInOrder, GoesOn, AtWork
<1>7. QED BY <1>1, <1>2, <1>4, <1>5, <1>6

-----------------------------------------------------------------------------
(* The steps of a handler.                                                   *)
LEMMA SucceedsStep ==
    ASSUME IInv, NEW h \in Handlers, Succeeds(h) PROVE IInv'
<1>1. GoesOn(h) /\ job'[h].at = "settle" /\ job'[h].verdict = "ack"
  BY SuccessGoesOn DEF IInv, Typing
<1>2. BrokerTyped' /\ LoopTyped' /\ JobsTyped' /\ Apart' /\ Awaited' /\ ClosedInOrder'
  BY <1>1, GoesOnKeeps DEF IInv
<1>3. Live(h) => Working(h)' BY <1>1, SameWork DEF Succeeds, Working
<1>4. RestTyped'
  BY JobFields DEF IInv, Typing, RestTyped, Succeeds, closing, AtWork
<1>5. Succeeded'
  <2> SUFFICES ASSUME Graceful, ~expired, NEW m \in done', place[m] # "acked"
               PROVE  \E k \in Handlers : /\ Working(k)' /\ Msg(k)' = m
                                          /\ job'[k].at = "settle" /\ job'[k].verdict = "ack"
    BY DEF Succeeded, Succeeds, closing
  <2>1. CASE m \in done
    <3>1. PICK k \in Handlers : /\ Working(k) /\ Msg(k) = m
                                /\ job[k].at = "settle" /\ job[k].verdict = "ack"
      BY <2>1 DEF IInv, Succeeded
    <3>2. k # h BY <3>1 DEF Succeeds
    <3>3. QED BY <1>1, <3>1, <3>2, SameWork DEF GoesOn
  <2>2. CASE m \notin done
    <3>1. Live(h) /\ m = Msg(h) BY <2>2 DEF Succeeds
    <3>2. QED BY <1>1, <1>3, <3>1, SameWork
  <2>3. QED BY <2>1, <2>2
<1>6. StillAsking'
  <2> SUFFICES ASSUME close # "returned", NEW m \in asked, place[m] # "dropped"
               PROVE  \E k \in Handlers : Working(k)' /\ Msg(k)' = m /\ Faithful(k)'
    BY DEF StillAsking, Succeeds, closing
  <2>1. PICK k \in Handlers : Working(k) /\ Msg(k) = m /\ Faithful(k)
    BY DEF IInv, StillAsking
  <2>2. Faithful(k)' BY <1>1, <2>1, SameWork DEF GoesOn, Faithful, Succeeds
  <2>3. QED BY <1>1, <2>1, <2>2, SameWork
<1>7. RequeueHonoured' BY DEF IInv, RequeueHonoured, Succeeds
<1>8. QED BY <1>2, <1>4, <1>5, <1>6, <1>7 DEF IInv, Typing

LEMMA FailsStep ==
    ASSUME IInv, NEW h \in Handlers, Fails(h) PROVE IInv'
<1>1. PICK err \in Errors :
        /\ job' = IF job[h].attempt < MaxRetries
                    THEN [job EXCEPT ![h].at = "delay"]
                    ELSE [job EXCEPT ![h].at = "settle", ![h].verdict = Disposition(err)]
        /\ asked' = IF ~Live(h) THEN asked
                    ELSE IF "requeue" \in err THEN asked \cup {Msg(h)} ELSE asked \ {Msg(h)}
  BY DEF Fails
<1>2. GoesOn(h) /\ (job'[h].at = "settle" => job'[h].verdict = Disposition(err))
  BY <1>1, FailureGoesOn DEF IInv, Typing, Fails
<1>3. BrokerTyped' /\ LoopTyped' /\ JobsTyped' /\ Apart' /\ Awaited' /\ ClosedInOrder'
  BY <1>2, GoesOnKeeps DEF IInv
<1>4. job[h].at = "handling" /\ (Working(h) <=> Live(h)) BY DEF Fails, Working
<1>5. RestTyped'
  BY <1>1, <1>4, JobFields DEF IInv, Typing, RestTyped, Fails, closing, AtWork
<1>6. Succeeded'
  <2> SUFFICES ASSUME Graceful, ~expired, NEW m \in done, place[m] # "acked"
               PROVE  \E k \in Handlers : /\ Working(k)' /\ Msg(k)' = m
                                          /\ job'[k].at = "settle" /\ job'[k].verdict = "ack"
    BY DEF Succeeded, Fails, closing
  <2>1. PICK k \in Handlers : /\ Working(k) /\ Msg(k) = m
                              /\ job[k].at = "settle" /\ job[k].verdict = "ack"
    BY DEF IInv, Succeeded
  <2>2. k # h BY <1>4, <2>1
  <2>3. QED BY <1>2, <2>1, <2>2, SameWork DEF GoesOn
<1>7. StillAsking'
  <2> SUFFICES ASSUME close # "returned", NEW m \in asked', place[m] # "dropped"
               PROVE  \E k \in Handlers : Working(k)' /\ Msg(k)' = m /\ Faithful(k)'
    BY DEF StillAsking, Fails, closing
  <2>1. CASE Live(h) /\ m = Msg(h)
    <3>1. "requeue" \in err BY <1>1, <2>1
    <3>2. Disposition(err) # "drop" BY <3>1 DEF Disposition
    <3>3. Faithful(h)' BY <1>2, <3>2 DEF Faithful
    <3>4. QED BY <1>2, <1>4, <2>1, <3>3, SameWork
  <2>2. CASE ~(Live(h) /\ m = Msg(h))
    <3>1. m \in asked BY <1>1, <2>2
    <3>2. PICK k \in Handlers : Working(k) /\ Msg(k) = m /\ Faithful(k)
      BY <3>1 DEF IInv, StillAsking
    <3>3. k # h BY <1>4, <2>2, <3>2
    <3>4. m \in overruled => m \in overruled' BY <2>2 DEF Fails
    <3>5. Faithful(k)' BY <1>2, <3>2, <3>3, <3>4, SameWork DEF GoesOn, Faithful
    <3>6. QED BY <1>2, <3>2, <3>5, SameWork
  <2>3. QED BY <2>1, <2>2
<1>8. RequeueHonoured'
  <2>1. Live(h) => place[Msg(h)] = "unacked"
    BY <1>4 DEF IInv, Awaited, Unacked
  <2>2. QED BY <1>1, <2>1 DEF IInv, RequeueHonoured, Fails
<1>9. QED BY <1>3, <1>5, <1>6, <1>7, <1>8 DEF IInv, Typing

LEMMA AgainStep ==
    ASSUME IInv, NEW h \in Handlers, Again(h) \/ Interrupted(h) PROVE IInv'
<1>1. GoesOn(h) /\ (job'[h].at = "handling" \/ (Interrupted(h) /\ job'[h].verdict = Disposition({})))
  BY RetryGoesOn, InterruptGoesOn DEF IInv, Typing
<1>2. /\ job[h].at = "delay" /\ UNCHANGED <<stranded, done, asked>>
      /\ overruled' = overruled \/ (Live(h) /\ overruled' = overruled \cup {Msg(h)})
      /\ Interrupted(h) /\ Live(h) => Msg(h) \in overruled'
  BY DEF Again, Interrupted, history
<1>3. BrokerTyped' /\ LoopTyped' /\ JobsTyped' /\ Apart' /\ Awaited' /\ ClosedInOrder'
  BY <1>1, GoesOnKeeps DEF IInv
<1>4. RestTyped'
  BY <1>1, <1>2, JobFields DEF IInv, Typing, RestTyped, GoesOn, closing, AtWork
<1>5. Succeeded'
  <2> SUFFICES ASSUME Graceful, ~expired, NEW m \in done, place[m] # "acked"
               PROVE  \E k \in Handlers : /\ Working(k)' /\ Msg(k)' = m
                                          /\ job'[k].at = "settle" /\ job'[k].verdict = "ack"
    BY <1>1, <1>2 DEF Succeeded, GoesOn, closing
  <2>1. PICK k \in Handlers : /\ Working(k) /\ Msg(k) = m
                              /\ job[k].at = "settle" /\ job[k].verdict = "ack"
    BY DEF IInv, Succeeded
  <2>2. k # h BY <1>2, <2>1
  <2>3. QED BY <1>1, <2>1, <2>2, SameWork DEF GoesOn
<1>6. StillAsking'
  <2> SUFFICES ASSUME close # "returned", NEW m \in asked, place[m] # "dropped"
               PROVE  \E k \in Handlers : Working(k)' /\ Msg(k)' = m /\ Faithful(k)'
    BY <1>1, <1>2 DEF StillAsking, GoesOn, closing
  <2>1. PICK k \in Handlers : Working(k) /\ Msg(k) = m /\ Faithful(k)
    BY DEF IInv, StillAsking
  <2>2. Msg(k)' = Msg(k) /\ Working(k)' BY <1>1, <2>1, SameWork
  <2>3. CASE k # h
    <3>1. job'[k] = job[k] /\ overruled \subseteq overruled' BY <1>1, <1>2, <2>3 DEF GoesOn
    <3>2. QED BY <2>1, <2>2, <3>1 DEF Faithful
  <2>4. CASE k = h
    <3>1. Live(h) BY <2>1, <2>4 DEF Working
    <3>2. Disposition({}) = "drop" => ~RequeueOnError BY DEF Disposition
    <3>3. Faithful(h)' BY <1>1, <1>2, <2>2, <2>4, <3>1, <3>2 DEF Faithful
    <3>4. QED BY <2>1, <2>2, <2>4, <3>3
  <2>5. QED BY <2>3, <2>4
<1>7. RequeueHonoured' BY <1>1, <1>2 DEF IInv, RequeueHonoured, GoesOn
<1>8. QED BY <1>3, <1>4, <1>5, <1>6, <1>7 DEF IInv, Typing

(* Whoever is not at work before a step, nor after it, has no part in what   *)
(* is held.                                                                  *)
LEMMA OthersWork ==
    ASSUME NEW k \in Handlers, job'[k] = job[k], UNCHANGED <<autoAck, alive, chan>>
    PROVE  Working(k)' = Working(k) /\ Msg(k)' = Msg(k)
  BY DEF Working, Live, Msg

LEMMA TakeStep ==
    ASSUME IInv, NEW h \in Handlers, Take(h) PROVE IInv'
<1>1. PICK m \in Msgs : hand = <<m>>
  BY DEF IInv, Typing, LoopTyped, Take
<1>2. /\ job'[h] = [at |-> "handling", msg |-> <<m>>, chan |-> chan,
                    attempt |-> 0, verdict |-> "ack"]
      /\ \A k \in Handlers : k # h => job'[k] = job[k]
      /\ job' \in [Handlers -> Job]
  <2>1. job \in [Handlers -> Job] BY DEF IInv, Typing, JobsTyped
  <2>2. [at |-> "handling", msg |-> <<m>>, chan |-> chan, attempt |-> 0, verdict |-> "ack"] \in Job
    BY DeliveriesAssumption DEF IInv, Typing, BrokerTyped, Job, Points, Verdicts
  <2>3. QED BY <1>1, <2>1, <2>2 DEF Take
<1>3. UNCHANGED <<autoAck, place, chan, alive, buffer, stranded, loop, run>>
  BY DEF Take, sub, loops, history
<1>4. /\ ~Working(h) /\ Working(h)' = Fresh /\ Msg(h)' = m
      /\ \A k \in Handlers : k # h => Working(k)' = Working(k) /\ Msg(k)' = Msg(k)
  <2>1. ~Working(h) BY DEF Take, Working
  <2>2. Working(h)' = Fresh BY <1>2, <1>3 DEF Working, Live, Fresh
  <2>3. Msg(h)' = m BY <1>2 DEF Msg
  <2>4. QED BY <1>2, <1>3, <2>1, <2>2, <2>3, OthersWork
<1>5. /\ Waiting = Read(buffer) \cup {m} /\ Waiting' = Read(buffer)
      /\ m \in Read(hand) /\ Fresh' = Fresh /\ Unacked' = Unacked
  BY <1>1, <1>3, ReadShort DEF Waiting, Fresh, Unacked, Take, None
<1>6. BrokerTyped' /\ RestTyped'
  BY DEF IInv, Typing, BrokerTyped, RestTyped, Take, sub, closing, history
<1>7. LoopTyped' BY DEF IInv, Typing, LoopTyped, Take, sub, loops
<1>8. JobsTyped'
  <2>1. ASSUME NEW k \in Handlers
        PROVE  /\ job'[k].at \in AtWork => job'[k].msg # None
               /\ job'[k].at = "delay" => job'[k].attempt < MaxRetries
               /\ job'[k].chan <= chan'
               /\ k[1] > run' => job'[k].at = "none"
    <3>1. CASE k = h
      <4>1. chan <= chan BY DeliveriesAssumption DEF IInv, Typing, BrokerTyped
      <4>2. ~(h[1] > run)
        BY DEF IInv, Typing, JobsTyped, Take
      <4>3. <<m>> # None BY DEF None
      <4>4. QED BY <3>1, <1>2, <1>3, <4>1, <4>2, <4>3
    <3>2. CASE k # h BY <3>2, <1>2, <1>3 DEF IInv, Typing, JobsTyped
    <3>3. QED BY <3>1, <3>2
  <2>2. QED BY <1>2, <2>1 DEF JobsTyped
<1>9. Apart'
  <2> SUFFICES ASSUME Fresh PROVE Apart'
    BY <1>5 DEF Apart
  <2>1. Distinct(buffer) /\ m \notin Read(buffer) /\ m \notin stranded
    BY <1>5 DEF IInv, Apart
  <2>2. \A k \in Handlers : Working(k) => Msg(k) \notin Read(buffer) \cup {m} \cup stranded
    BY <1>5 DEF IInv, Apart
  <2>3. Read(hand') = {} BY ReadShort DEF Take, None
  <2>4. Waiting \cap stranded = {} BY DEF IInv, Apart
  <2>5. \A k \in Handlers : Working(k)' => Msg(k)' \notin Waiting' \cup stranded'
    BY <1>3, <1>4, <1>5, <2>1, <2>2
  <2>6. ASSUME NEW j \in Handlers, NEW k \in Handlers, Working(j)', Working(k)', Msg(j)' = Msg(k)'
        PROVE  j = k
    BY <1>4, <2>2, <2>6 DEF IInv, Apart
  <2>7. QED BY <1>3, <1>5, <2>1, <2>3, <2>4, <2>5, <2>6 DEF Apart, Distinct
<1>10. Awaited'
  <2>1. Working(h)' => m \in Unacked BY <1>4, <1>5 DEF IInv, Awaited
  <2>2. \A k \in Handlers : Working(k)' => Msg(k)' \in Unacked'
    BY <1>4, <1>5, <2>1 DEF IInv, Awaited
  <2>3. ASSUME NEW o \in Unacked
        PROVE  o \in Waiting' \cup stranded' \/ \E k \in Handlers : Working(k)' /\ Msg(k)' = o
    <3>1. Fresh BY DEF IInv, Awaited
    <3>2. CASE o = m BY <3>1, <3>2, <1>4
    <3>3. CASE o \in Read(buffer) \cup stranded BY <3>3, <1>3, <1>5
    <3>4. CASE \E k \in Handlers : Working(k) /\ Msg(k) = o BY <3>4, <1>4
    <3>5. QED BY <1>5, <3>2, <3>3, <3>4 DEF IInv, Awaited
  <2>4. QED BY <1>3, <1>5, <2>2, <2>3 DEF IInv, Awaited
<1>11. ClosedInOrder'
  BY DEF IInv, Typing, LoopTyped, ClosedInOrder, Take, sub, loops, closing
<1>12. Succeeded'
  BY <1>2, <1>3, <1>4 DEF IInv, Succeeded, Take, closing, history
<1>13. StillAsking'
  BY <1>2, <1>3, <1>4 DEF IInv, StillAsking, Faithful, Take, closing, history
<1>14. RequeueHonoured' BY DEF IInv, RequeueHonoured, Take, history
<1>15. QED
  BY <1>6, <1>7, <1>8, <1>9, <1>10, <1>11, <1>12, <1>13, <1>14 DEF IInv, Typing

(* Fewer at work, and nothing else: nobody is in anybody's way.              *)
LEMMA LessWork ==
    ASSUME Apart, Fresh' => Fresh, UNCHANGED <<buffer, hand, stranded>>,
           \A k \in Handlers : Working(k)' => Working(k) /\ Msg(k)' = Msg(k)
    PROVE  Apart'
<1> SUFFICES ASSUME Fresh' PROVE Apart'
  BY DEF Apart
<1>1. Waiting' = Waiting BY DEF Waiting
<1>2. Distinct(buffer)' BY DEF Apart, Distinct
<1>3. \A k \in Handlers : Working(k)' => Msg(k)' \notin Waiting' \cup stranded'
  BY <1>1 DEF Apart
<1>4. \A j, k \in Handlers : Working(j)' /\ Working(k)' /\ Msg(j)' = Msg(k)' => j = k
  BY DEF Apart
<1>5. (Read(buffer) \cap Read(hand) = {} /\ Waiting \cap stranded = {})'
  BY <1>1 DEF Apart
<1>6. QED BY <1>2, <1>3, <1>4, <1>5 DEF Apart

(* At rest: a handler that is not at work any more.                          *)
Rests(h) ==
    /\ job'[h].at \in {"none", "idle"} /\ job' \in [Handlers -> Job]
    /\ \A k \in Handlers : k # h => job'[k] = job[k]
    /\ h[1] > run => job'[h].at = "none"
    /\ job'[h].chan = 0
    /\ UNCHANGED <<autoAck, chan, sub, hand, loops, ctxDone, closing, stranded>>

LEMMA RestWork ==
    ASSUME NEW h \in Handlers, Rests(h)
    PROVE  /\ Fresh' = Fresh /\ Waiting' = Waiting /\ ~Working(h)'
           /\ \A k \in Handlers : k # h => Working(k)' = Working(k) /\ Msg(k)' = Msg(k)
<1>1. Fresh' = Fresh /\ Waiting' = Waiting BY DEF Rests, Fresh, Waiting, sub
<1>2. ~Working(h)' BY DEF Rests, Working
<1>3. QED BY <1>1, <1>2, OthersWork DEF Rests, sub

LEMMA RestTypes ==
    ASSUME Typing, ClosedInOrder, NEW h \in Handlers, Rests(h),
           job[h].at # "none" \/ job'[h].at = "none"
    PROVE  LoopTyped' /\ JobsTyped' /\ ClosedInOrder'
<1>1. LoopTyped' BY DEF Typing, LoopTyped, Rests, sub, loops
<1>2. ASSUME NEW k \in Handlers
      PROVE  /\ job'[k].at \in AtWork => job'[k].msg # None
             /\ job'[k].at = "delay" => job'[k].attempt < MaxRetries
             /\ job'[k].chan <= chan'
             /\ k[1] > run' => job'[k].at = "none"
  <2>1. 0 <= chan BY DeliveriesAssumption DEF Typing, BrokerTyped
  <2>2. CASE k = h BY <2>1, <2>2 DEF Rests, AtWork, loops
  <2>3. CASE k # h BY <2>3 DEF Typing, JobsTyped, Rests, loops
  <2>4. QED BY <2>2, <2>3
<1>3. JobsTyped' BY <1>2 DEF JobsTyped, Rests
<1>4. ClosedInOrder' BY DEF ClosedInOrder, Rests, sub, loops, closing
<1>5. QED BY <1>1, <1>3, <1>4

LEMMA SettleStep ==
    ASSUME IInv, NEW h \in Handlers, Settle(h) PROVE IInv'
<1>1. Rests(h) /\ job'[h].at = "idle"
  <2>1. [NoJob EXCEPT !.at = "idle"] \in Job
    BY DeliveriesAssumption DEF NoJob, Job, Points, Verdicts
  <2>2. ~(h[1] > run) BY DEF IInv, Typing, JobsTyped, Settle
  <2>3. QED BY <2>1, <2>2 DEF Settle, Rests, NoJob, IInv, Typing, JobsTyped
<1>2. (Working(h) <=> Live(h)) /\ job[h].at = "settle" BY DEF Settle, Working
<1>3. Msg(h) \in Msgs /\ job[h].verdict \in Verdicts
  BY <1>2, JobFields DEF IInv, Typing, AtWork, Job
<1>4. /\ Placed(job[h].verdict) \in {"ready", "acked", "dropped"}
      /\ Placed(job[h].verdict) = "dropped" => job[h].verdict = "drop"
      /\ job[h].verdict = "ack" => Placed(job[h].verdict) = "acked"
  BY <1>3 DEF Placed, Verdicts
<1>5. /\ Live(h) => Msg(h) \in Unacked /\ place' = [place EXCEPT ![Msg(h)] = Placed(job[h].verdict)]
      /\ ~Live(h) => place' = place
  BY <1>2 DEF Settle, IInv, Awaited
<1>6. Unacked' = IF Live(h) THEN Unacked \ {Msg(h)} ELSE Unacked
  BY <1>3, <1>4, <1>5 DEF Unacked, IInv, Typing, BrokerTyped
<1>7. \A m \in Msgs : place'[m] # place[m] => Live(h) /\ m = Msg(h)
  BY <1>3, <1>5 DEF IInv, Typing, BrokerTyped
<1>8. BrokerTyped'
  BY <1>1, <1>3, <1>4, <1>5 DEF IInv, Typing, BrokerTyped, Rests, sub
<1>9. LoopTyped' /\ JobsTyped' /\ ClosedInOrder' BY <1>1, <1>2, RestTypes DEF IInv
<1>10. RestTyped' BY DEF IInv, Typing, RestTyped, Settle, closing
<1>11. UNCHANGED <<buffer, hand, stranded, loop, alive, done>> BY DEF Settle, sub, loops
<1>12. Apart'
  <2>1. \A k \in Handlers : Working(k)' => Working(k) /\ Msg(k)' = Msg(k) BY <1>1, RestWork
  <2>2. Fresh' => Fresh BY <1>1, RestWork
  <2>3. QED BY <1>11, <2>1, <2>2, LessWork DEF IInv
<1>13. Awaited'
  <2>1. Fresh => (Live(h) => Msg(h) \notin Waiting \cup stranded)
    BY <1>2 DEF IInv, Apart
  <2>2. Live(h) => Fresh BY DEF Live, Fresh
  <2>3. ASSUME NEW k \in Handlers, Working(k)' PROVE Msg(k)' \in Unacked'
    <3>1. k # h /\ Working(k) /\ Msg(k)' = Msg(k) BY <1>1, <2>3, RestWork
    <3>2. Live(h) => Msg(k) # Msg(h) BY <1>2, <2>2, <3>1 DEF IInv, Apart
    <3>3. QED BY <1>6, <3>1, <3>2 DEF IInv, Awaited
  <2>4. ASSUME NEW m \in Unacked'
        PROVE  m \in Waiting' \cup stranded' \/ \E k \in Handlers : Working(k)' /\ Msg(k)' = m
    <3>1. m \in Unacked /\ (Live(h) => m # Msg(h)) BY <1>6
    <3>2. CASE m \in Waiting \cup stranded BY <1>1, <1>11, <3>2, RestWork
    <3>3. CASE \E k \in Handlers : Working(k) /\ Msg(k) = m
      BY <1>1, <1>2, <3>1, <3>3, RestWork
    <3>4. QED BY <3>1, <3>2, <3>3 DEF IInv, Awaited
  <2>5. Fresh => Waiting \cup stranded \subseteq Unacked' BY <1>6, <2>1 DEF IInv, Awaited
  <2>6. QED BY <1>1, <1>6, <1>11, <2>3, <2>4, <2>5, RestWork DEF IInv, Awaited
<1>14. Succeeded'
  <2> SUFFICES ASSUME Graceful, ~expired, NEW m \in done, place'[m] # "acked"
               PROVE  \E k \in Handlers : /\ Working(k)' /\ Msg(k)' = m
                                          /\ job'[k].at = "settle" /\ job'[k].verdict = "ack"
    BY <1>11 DEF Succeeded, Settle, closing
  <2>1. m \in Msgs BY DEF IInv, Typing, RestTyped
  <2>2. ASSUME place[m] = "acked" PROVE FALSE
    <3>1. Live(h) /\ m = Msg(h) BY <1>7, <2>1, <2>2
    <3>2. QED BY <1>5, <2>2, <3>1 DEF Unacked
  <2>3. PICK k \in Handlers : /\ Working(k) /\ Msg(k) = m
                              /\ job[k].at = "settle" /\ job[k].verdict = "ack"
    BY <2>2 DEF IInv, Succeeded
  <2>4. k # h
    <3>1. SUFFICES ASSUME k = h PROVE FALSE
      OBVIOUS
    <3>2. Live(h) /\ Msg(h) = m /\ job[h].verdict = "ack" BY <1>2, <2>3, <3>1
    <3>3. place'[m] = "acked" BY <1>3, <1>4, <1>5, <3>2 DEF IInv, Typing, BrokerTyped
    <3>4. QED BY <3>3
  <2>5. QED BY <1>1, <2>3, <2>4, RestWork DEF Rests
<1>15. asked' = IF Live(h) /\ job[h].verdict # "drop" THEN asked \ {Msg(h)} ELSE asked
  BY DEF Settle
<1>16. overruled' = overruled BY DEF Settle
<1>17. ASSUME Live(h), Msg(h) \in asked'
       PROVE  place'[Msg(h)] = "dropped" /\ Msg(h) \in overruled /\ ~RequeueOnError
  <2>1. Msg(h) \in asked /\ job[h].verdict = "drop" BY <1>15, <1>17
  <2>2. close # "returned" BY <1>17 DEF IInv, ClosedInOrder, Live
  <2>3. place[Msg(h)] = "unacked" BY <1>5, <1>17 DEF Unacked
  <2>4. PICK k \in Handlers : Working(k) /\ Msg(k) = Msg(h) /\ Faithful(k)
    BY <2>1, <2>2, <2>3 DEF IInv, StillAsking
  <2>5. Fresh BY <1>17 DEF Live, Fresh
  <2>6. k = h BY <1>2, <1>17, <2>4, <2>5 DEF IInv, Apart
  <2>7. Msg(h) \in overruled /\ ~RequeueOnError BY <1>2, <2>1, <2>4, <2>6 DEF Faithful
  <2>8. place'[Msg(h)] = "dropped"
    BY <1>3, <1>5, <1>17, <2>1 DEF IInv, Typing, BrokerTyped, Placed
  <2>9. QED BY <2>7, <2>8
<1>18. StillAsking' /\ RequeueHonoured'
  <2>1. asked' \subseteq asked /\ asked \subseteq Msgs BY <1>15 DEF IInv, Typing, RestTyped
  <2>2. ASSUME close # "returned", NEW m \in asked', place'[m] # "dropped"
        PROVE  \E k \in Handlers : Working(k)' /\ Msg(k)' = m /\ Faithful(k)'
    <3>1. ~(Live(h) /\ m = Msg(h)) BY <1>17, <2>2
    <3>2. m \in asked /\ place[m] # "dropped" BY <1>7, <2>1, <2>2, <3>1
    <3>3. PICK k \in Handlers : Working(k) /\ Msg(k) = m /\ Faithful(k)
      BY <2>2, <3>2 DEF IInv, StillAsking
    <3>4. k # h BY <1>2, <3>1, <3>3
    <3>5. Working(k)' /\ Msg(k)' = m /\ job'[k] = job[k]
      BY <1>1, <3>3, <3>4, RestWork DEF Rests
    <3>6. Faithful(k)' BY <1>16, <3>3, <3>5 DEF Faithful
    <3>7. QED BY <3>5, <3>6
  <2>3. StillAsking' BY <2>2 DEF StillAsking, Settle, closing
  <2>4. ASSUME NEW m \in asked', place'[m] = "dropped" PROVE m \in overruled /\ ~RequeueOnError
    <3>1. CASE Live(h) /\ m = Msg(h) BY <1>17, <2>4, <3>1
    <3>2. CASE ~(Live(h) /\ m = Msg(h))
      <4>1. m \in asked /\ place[m] = "dropped" BY <1>7, <2>1, <2>4, <3>2
      <4>2. QED BY <4>1 DEF IInv, RequeueHonoured
    <3>3. QED BY <3>1, <3>2
  <2>5. RequeueHonoured' BY <1>16, <2>4 DEF RequeueHonoured
  <2>6. QED BY <2>3, <2>5
<1>19. QED
  BY <1>8, <1>9, <1>10, <1>12, <1>13, <1>14, <1>18 DEF IInv, Typing

LEMMA QuitStep ==
    ASSUME IInv, NEW h \in Handlers, Quit(h) PROVE IInv'
<1>1. Rests(h) /\ job'[h].at = "none" /\ UNCHANGED <<place, done, asked, overruled>>
  <2>1. NoJob \in Job BY DeliveriesAssumption DEF NoJob, Job, Points, Verdicts
  <2>2. QED BY <2>1 DEF Quit, Rests, NoJob, IInv, Typing, JobsTyped, history
<1>2. ~Working(h) BY DEF Quit, Working
<1>3. \A k \in Handlers :
         /\ Working(k)' <=> Working(k)
         /\ Working(k) => k # h /\ Msg(k)' = Msg(k) /\ job'[k] = job[k]
  BY <1>1, <1>2, RestWork DEF Rests
<1>4. Unacked' = Unacked BY <1>1 DEF Unacked
<1>5. BrokerTyped' BY <1>1 DEF IInv, Typing, BrokerTyped, Rests, sub
<1>6. LoopTyped' /\ JobsTyped' /\ ClosedInOrder' BY <1>1, RestTypes DEF IInv
<1>7. RestTyped' BY <1>1 DEF IInv, Typing, RestTyped, Rests, closing
<1>8. UNCHANGED <<buffer, hand, stranded, loop, alive>> BY DEF Quit, sub, loops, history
<1>9. Apart'
  <2>1. Fresh' => Fresh BY <1>1, RestWork
  <2>2. QED BY <1>3, <1>8, <2>1, LessWork DEF IInv
<1>10. Awaited' BY <1>1, <1>3, <1>4, <1>8, RestWork DEF IInv, Awaited
<1>11. Succeeded' BY <1>1, <1>3 DEF IInv, Succeeded, Rests, closing
<1>12. StillAsking' BY <1>1, <1>3 DEF IInv, StillAsking, Faithful, Rests, closing
<1>13. RequeueHonoured' BY <1>1 DEF IInv, RequeueHonoured, Rests
<1>14. QED
  BY <1>5, <1>6, <1>7, <1>9, <1>10, <1>11, <1>12, <1>13 DEF IInv, Typing

-----------------------------------------------------------------------------
(* The steps of the broker and of the loop.                                  *)
LEMMA SameJobs ==
    ASSUME UNCHANGED <<job, autoAck, alive, chan>>
    PROVE  Fresh' = Fresh /\ \A k \in Handlers : Working(k)' = Working(k) /\ Msg(k)' = Msg(k)
  BY DEF Fresh, Working, Live, Msg

LEMMA SendStep ==
    ASSUME IInv, NEW m \in Msgs, Send(m) PROVE IInv'
<1>1. /\ place[m] = "ready" /\ place' = [place EXCEPT ![m] = IF autoAck THEN "acked" ELSE "unacked"]
      /\ UNCHANGED <<autoAck, chan, alive, registered, hand, job, close, expired, done, asked,
                     overruled, loop, run, cancelled, ctxDone>>
  BY DEF Send, loops, closing
<1>2. m \notin Unacked /\ Unacked' = IF autoAck THEN Unacked ELSE Unacked \cup {m}
  BY <1>1 DEF IInv, Typing, BrokerTyped, Unacked
<1>3. alive BY DEF Send, IInv, Typing, BrokerTyped
<1>4. Fresh' = Fresh /\ \A k \in Handlers : Working(k)' = Working(k) /\ Msg(k)' = Msg(k)
  BY <1>1, SameJobs
<1>5. \/ /\ loop = "forward" /\ buffer' = Append(buffer, m) /\ stranded' = stranded
      \/ loop # "forward" /\ stranded' = stranded \cup {m} /\ buffer' = buffer
  BY DEF Send
<1>6. buffer \in Seq(Msgs) BY DEF IInv, Typing, LoopTyped
<1>7. \/ loop = "forward" /\ Waiting' = Waiting \cup {m} /\ stranded' = stranded
      \/ loop # "forward" /\ Waiting' = Waiting /\ stranded' = stranded \cup {m}
  <2>1. Read(Append(buffer, m)) = Read(buffer) \cup {m} BY <1>6, ReadAppend
  <2>2. QED BY <1>1, <1>5, <2>1 DEF Waiting
<1>8. Fresh => /\ m \notin Waiting \cup stranded
               /\ \A k \in Handlers : Working(k) => Msg(k) # m
  BY <1>2 DEF IInv, Awaited
<1>9. BrokerTyped' BY <1>1 DEF IInv, Typing, BrokerTyped
<1>10. LoopTyped'
  <2>1. buffer' \in Seq(Msgs) BY <1>5, <1>6
  <2>2. QED BY <1>1, <1>5, <2>1 DEF IInv, Typing, LoopTyped
<1>11. JobsTyped' /\ RestTyped' BY <1>1, <1>5 DEF IInv, Typing, JobsTyped, RestTyped
<1>12. Apart'
  <2> SUFFICES ASSUME Fresh PROVE Apart'
    BY <1>4 DEF Apart
  <2>1. Distinct(buffer')
    <3>1. Distinct(buffer) /\ m \notin Read(buffer) BY <1>8 DEF IInv, Apart, Waiting
    <3>2. Distinct(Append(buffer, m)) BY <1>6, <3>1, ReadAppend
    <3>3. QED BY <1>5, <3>1, <3>2
  <2>2. Read(buffer') \cap Read(hand') = {}
    <3>1. Read(buffer') \subseteq Read(buffer) \cup {m} BY ZenonT(40), <1>5, <1>6, ReadAppend
    <3>2. m \notin Read(hand) BY <1>8 DEF Waiting
    <3>3. QED BY <1>1, <3>1, <3>2 DEF IInv, Apart
  <2>3. Waiting' \cap stranded' = {} BY <1>7, <1>8 DEF IInv, Apart
  <2>4. \A k \in Handlers : Working(k)' => Msg(k)' \notin Waiting' \cup stranded'
    BY <1>4, <1>7, <1>8 DEF IInv, Apart
  <2>5. \A j, k \in Handlers : Working(j)' /\ Working(k)' /\ Msg(j)' = Msg(k)' => j = k
    BY <1>4 DEF IInv, Apart
  <2>6. QED BY <2>1, <2>2, <2>3, <2>4, <2>5 DEF Apart, Distinct
<1>13. Awaited'
  <2>1. Fresh = ~autoAck BY <1>3 DEF Fresh
  <2>2. Fresh' => Waiting' \cup stranded' \subseteq Unacked'
    BY <1>2, <1>4, <1>7, <2>1 DEF IInv, Awaited
  <2>3. ~Fresh' => Unacked' = {} BY <1>2, <1>4, <2>1 DEF IInv, Awaited
  <2>4. \A k \in Handlers : Working(k)' => Msg(k)' \in Unacked'
    BY <1>2, <1>4 DEF IInv, Awaited
  <2>5. ASSUME NEW o \in Unacked'
        PROVE  o \in Waiting' \cup stranded' \/ \E k \in Handlers : Working(k)' /\ Msg(k)' = o
    <3>1. CASE o = m BY <3>1, <1>7
    <3>2. CASE o \in Unacked BY <3>2, <1>4, <1>7 DEF IInv, Awaited
    <3>3. QED BY <1>2, <3>1, <3>2
  <2>6. QED BY <1>1, <1>3, <2>2, <2>3, <2>4, <2>5 DEF IInv, Awaited
<1>14. ClosedInOrder' BY <1>1 DEF IInv, ClosedInOrder
<1>15. Succeeded'
  <2>1. \A o \in done : place[o] = "acked" => place'[o] = "acked"
    BY <1>1 DEF IInv, Typing, BrokerTyped, RestTyped
  <2>2. QED BY <1>1, <1>4, <2>1 DEF IInv, Succeeded
<1>16. StillAsking'
  <2>1. \A o \in asked : place[o] = "dropped" => place'[o] = "dropped"
    BY <1>1 DEF IInv, Typing, BrokerTyped, RestTyped
  <2>2. \A k \in Handlers : Faithful(k) => Faithful(k)' BY <1>1, <1>4 DEF Faithful
  <2>3. QED BY <1>1, <1>4, <2>1, <2>2 DEF IInv, StillAsking
<1>17. RequeueHonoured'
  BY <1>1 DEF IInv, Typing, BrokerTyped, RestTyped, RequeueHonoured
<1>18. QED
  BY <1>9, <1>10, <1>11, <1>12, <1>13, <1>14, <1>15, <1>16, <1>17 DEF IInv, Typing

(* The channel dies, or is closed: nobody holds anything any more.           *)
LEMMA GoneStep ==
    ASSUME IInv, alive' = FALSE, registered' = FALSE, place' = Requeued, stranded' = {},
           UNCHANGED <<autoAck, chan, buffer, hand, loops, ctxDone, job, expired>>
    PROVE  BrokerTyped' /\ LoopTyped' /\ JobsTyped' /\ Apart' /\ Awaited'
<1>1. Unacked' = {} BY DEF IInv, Typing, BrokerTyped, Unacked, Requeued
<1>2. ~Fresh' /\ \A k \in Handlers : ~Working(k)' BY DEF Fresh, Working, Live
<1>3. BrokerTyped'
  <2>1. Requeued \in [Msgs -> {"ready", "unacked", "acked", "dropped"}]
    BY DEF IInv, Typing, BrokerTyped, Requeued
  <2>2. QED BY <2>1 DEF IInv, Typing, BrokerTyped
<1>4. LoopTyped' /\ JobsTyped' BY DEF IInv, Typing, LoopTyped, JobsTyped, loops
<1>5. Apart' BY <1>2 DEF Apart
<1>6. Awaited' BY <1>1, <1>2 DEF Awaited
<1>7. QED BY <1>3, <1>4, <1>5, <1>6

LEMMA DiesStep == ASSUME IInv, Dies PROVE IInv'
<1>1. BrokerTyped' /\ LoopTyped' /\ JobsTyped' /\ Apart' /\ Awaited' BY GoneStep DEF Dies, closing
<1>2. RestTyped' BY DEF IInv, Typing, RestTyped, Dies, closing
<1>3. ClosedInOrder' BY DEF IInv, ClosedInOrder, Dies, loops, closing
<1>4. \A m \in Msgs \ Unacked : place'[m] = place[m]
  BY DEF IInv, Typing, BrokerTyped, Dies, Requeued, Unacked
<1>5. done' = done \ Unacked /\ asked' = asked \ Unacked /\ asked \subseteq Msgs /\ done \subseteq Msgs
  BY DEF IInv, Typing, RestTyped, Dies
<1>6. Succeeded'
  <2> SUFFICES ASSUME Graceful, ~expired, NEW m \in done' PROVE place'[m] = "acked"
    BY DEF Succeeded, Dies, closing
  <2>1. m \notin Unacked /\ m \in done BY <1>5
  <2>2. ASSUME NEW k \in Handlers, Working(k), Msg(k) = m PROVE FALSE
    BY <2>1, <2>2 DEF IInv, Awaited
  <2>3. place[m] = "acked" BY <2>1, <2>2 DEF IInv, Succeeded
  <2>4. QED BY <1>4, <1>5, <2>1, <2>3
<1>7. StillAsking'
  <2> SUFFICES ASSUME close # "returned", NEW m \in asked' PROVE place'[m] = "dropped"
    BY DEF StillAsking, Dies, closing
  <2>1. m \notin Unacked /\ m \in asked BY <1>5
  <2>2. \A k \in Handlers : Working(k) => Msg(k) # m BY <2>1 DEF IInv, Awaited
  <2>3. place[m] = "dropped" BY <2>1, <2>2 DEF IInv, StillAsking
  <2>4. QED BY <1>4, <1>5, <2>1, <2>3
<1>8. RequeueHonoured' BY <1>4, <1>5 DEF IInv, RequeueHonoured, Dies
<1>9. QED BY <1>1, <1>2, <1>3, <1>6, <1>7, <1>8 DEF IInv, Typing

LEMMA CloseChannelStep == ASSUME IInv, CloseChannel PROVE IInv'
<1>1. BrokerTyped' /\ LoopTyped' /\ JobsTyped' /\ Apart' /\ Awaited' BY GoneStep DEF CloseChannel
<1>2. RestTyped' BY DEF IInv, Typing, RestTyped, CloseChannel
<1>3. ClosedInOrder' BY DEF IInv, ClosedInOrder, CloseChannel, loops
<1>4. \A m \in Msgs \ Unacked : place'[m] = place[m]
  BY DEF IInv, Typing, BrokerTyped, CloseChannel, Requeued, Unacked
<1>5. Succeeded'
  <2> SUFFICES ASSUME Graceful, ~expired, NEW m \in done PROVE place'[m] = "acked"
    BY DEF Succeeded, CloseChannel
  <2>1. \A k \in Handlers : ~Working(k)
    BY DEF IInv, ClosedInOrder, CloseChannel, Working
  <2>2. place[m] = "acked" BY <2>1 DEF IInv, Succeeded
  <2>3. QED BY <1>4, <2>2 DEF IInv, Typing, RestTyped, Unacked
<1>6. StillAsking' BY DEF StillAsking, CloseChannel
<1>7. RequeueHonoured'
  BY <1>4 DEF IInv, Typing, RestTyped, BrokerTyped, RequeueHonoured, CloseChannel, Requeued, Unacked
<1>8. QED BY <1>1, <1>2, <1>3, <1>5, <1>6, <1>7 DEF IInv, Typing

(* Where the jobs, the buffer and the places stay as they are, who holds what *)
(* stays, too.                                                               *)
LEMMA SameHeld ==
    ASSUME IInv, UNCHANGED <<autoAck, place, chan, alive, buffer, hand, job, stranded>>,
           loop' = "wait" => ~alive, JobsTyped'
    PROVE  Apart' /\ Awaited'
<1>1. Fresh' = Fresh /\ \A k \in Handlers : Working(k)' = Working(k) /\ Msg(k)' = Msg(k)
  BY SameJobs
<1>2. Waiting' = Waiting /\ Unacked' = Unacked BY DEF Waiting, Unacked
<1>3. Apart' BY <1>1, LessWork DEF IInv
<1>4. Awaited' BY <1>1, <1>2 DEF IInv, Awaited
<1>5. QED BY <1>3, <1>4

(* Steps of the loop, of callers and of Close that touch neither the buffer  *)
(* nor a job.                                                                *)
LEMMA ControlStep ==
    ASSUME IInv,
           Register \/ Ends \/ Cancel \/ UserCancels \/ Stop \/ Close \/ CloseLoops \/ CloseDrained
    PROVE  IInv'
<1>1. /\ UNCHANGED <<autoAck, place, chan, alive, buffer, hand, job, run>>
      /\ UNCHANGED <<stranded, done, asked, overruled>>
  BY DEF Register, Ends, Cancel, UserCancels, Stop, Close, CloseLoops, CloseDrained,
         sub, loops, history
<1>2. loop' = loop \/ (loop' = "wait" /\ ~alive) \/ loop' # "wait"
  BY DEF Register, Ends, Cancel, UserCancels, Stop, Close, CloseLoops, CloseDrained, loops
<1>3. BrokerTyped'
  <2>1. registered' \in BOOLEAN /\ (registered' => alive)
    <3>1. registered \in BOOLEAN /\ (registered => alive) /\ alive \in BOOLEAN
      BY DEF IInv, Typing, BrokerTyped
    <3>2. \/ registered' = registered
          \/ registered' = alive
          \/ registered' \in BOOLEAN /\ (registered' => registered)
      BY <3>1 DEF Register, Ends, Cancel, UserCancels, Stop, Close, CloseLoops, CloseDrained, sub
    <3>3. QED BY <3>1, <3>2
  <2>2. QED BY <1>1, <2>1 DEF IInv, Typing, BrokerTyped
<1>4. LoopTyped'
  <2> USE DEF IInv, Typing, LoopTyped
  <2>1. CASE Register \/ Ends \/ Cancel BY <1>1, <2>1 DEF Register, Ends, Cancel
  <2>2. CASE UserCancels \/ Stop
    <3>1. run # 0 => run \in 1..MaxRuns BY DeliveriesAssumption
    <3>2. QED BY <1>1, <2>2, <3>1 DEF UserCancels, Stop, loops
  <2>3. CASE Close \/ CloseLoops \/ CloseDrained
    BY <1>1, <2>3 DEF Close, CloseLoops, CloseDrained, loops
  <2>4. QED BY <2>1, <2>2, <2>3
<1>5. JobsTyped' BY <1>1 DEF IInv, Typing, JobsTyped
<1>6. RestTyped'
  <2>1. close' \in {"no", "loops", "drain", "channel", "returned"} /\ expired' \in BOOLEAN
    BY DEF Register, Ends, Cancel, UserCancels, Stop, Close, CloseLoops, CloseDrained, closing,
           IInv, Typing, RestTyped
  <2>2. QED BY <1>1, <2>1 DEF IInv, Typing, RestTyped
<1>7. loop' = "wait" => ~alive BY <1>2 DEF IInv, Awaited
<1>8. Apart' /\ Awaited' BY <1>1, <1>5, <1>7, SameHeld
<1>9. ClosedInOrder'
  <2> USE DEF IInv, ClosedInOrder
  <2>1. CASE Register \/ Ends \/ Cancel
    BY <1>1, <2>1 DEF Register, Ends, Cancel, closing
  <2>2. CASE UserCancels \/ Stop BY <1>1, <2>2 DEF UserCancels, Stop, loops, closing
  <2>3. CASE Close BY <1>1, <2>3 DEF Close, Closed
  <2>4. CASE CloseLoops BY <1>1, <2>4 DEF CloseLoops, loops
  <2>5. CASE CloseDrained BY <1>1, <2>5 DEF CloseDrained, loops
  <2>6. QED BY <2>1, <2>2, <2>3, <2>4, <2>5
<1>10. \A k \in Handlers : Working(k)' = Working(k) /\ Msg(k)' = Msg(k)
  BY <1>1, SameJobs
<1>11. expired => expired'
  BY DEF Register, Ends, Cancel, UserCancels, Stop, Close, CloseLoops, CloseDrained, closing
<1>12. Succeeded' BY <1>1, <1>10, <1>11 DEF IInv, Succeeded
<1>13. \A k \in Handlers : Faithful(k) => Faithful(k)' BY <1>1, <1>10 DEF Faithful
<1>14. close' # "returned" => close # "returned"
  BY DEF Register, Ends, Cancel, UserCancels, Stop, Close, CloseLoops, CloseDrained, closing,
         Closed
<1>15. StillAsking' BY <1>1, <1>10, <1>13, <1>14 DEF IInv, StillAsking
<1>16. RequeueHonoured' BY <1>1 DEF IInv, RequeueHonoured
<1>17. QED
  BY <1>3, <1>4, <1>5, <1>6, <1>8, <1>9, <1>12, <1>15, <1>16 DEF IInv, Typing

LEMMA ConsumeStep == ASSUME IInv, Consume PROVE IInv'
<1>1. /\ UNCHANGED <<autoAck, place, chan, alive, registered, buffer, hand>>
      /\ UNCHANGED <<stranded, done, asked, overruled, ctxDone, close, expired>>
      /\ run' = run + 1 /\ run < MaxRuns /\ loop' = "register" /\ cancelled' = FALSE
      /\ loop = "off" /\ close = "no"
  BY DEF Consume, Closed, sub, closing, history
<1>2. run \in Nat /\ run' \in 1..MaxRuns
  BY <1>1, DeliveriesAssumption DEF IInv, Typing, LoopTyped
<1>3. \A h \in Handlers : h[1] \in Nat BY DEF Handlers
<1>4. /\ [NoJob EXCEPT !.at = "idle"] \in Job
      /\ [NoJob EXCEPT !.at = "idle"].at = "idle" /\ [NoJob EXCEPT !.at = "idle"].chan = 0
  BY DeliveriesAssumption DEF NoJob, Job, Points, Verdicts
<1>5. /\ job' \in [Handlers -> Job]
      /\ \A h \in Handlers :
            job'[h] = job[h] \/ (h[1] = run' /\ job'[h].at = "idle" /\ job'[h].chan = 0)
  BY <1>4 DEF Consume, IInv, Typing, JobsTyped
<1>6. \A h \in Handlers : job'[h] # job[h] => job[h].at = "none" /\ job'[h].at = "idle"
  BY <1>1, <1>2, <1>3, <1>5 DEF IInv, Typing, JobsTyped
<1>7. BrokerTyped' /\ RestTyped' BY <1>1 DEF IInv, Typing, BrokerTyped, RestTyped
<1>8. LoopTyped'
  <2>1. run' \in 0..MaxRuns BY <1>2
  <2>2. cancelled' \in BOOLEAN BY <1>1
  <2>3. QED BY <1>1, <2>1, <2>2 DEF IInv, Typing, LoopTyped
<1>9. JobsTyped'
  <2>1. ASSUME NEW h \in Handlers
        PROVE  /\ job'[h].at \in AtWork => job'[h].msg # None
               /\ job'[h].at = "delay" => job'[h].attempt < MaxRetries
               /\ job'[h].chan <= chan'
               /\ h[1] > run' => job'[h].at = "none"
    <3>1. CASE job'[h] = job[h] BY <3>1, <1>1, <1>2, <1>3 DEF IInv, Typing, JobsTyped
    <3>2. CASE h[1] = run' /\ job'[h].at = "idle" /\ job'[h].chan = 0
      BY <3>2, <1>1, <1>2, <1>3, DeliveriesAssumption
      DEF IInv, Typing, BrokerTyped, AtWork
    <3>3. QED BY <1>5, <3>1, <3>2
  <2>2. QED BY <1>5, <2>1 DEF JobsTyped
<1>10. \A k \in Handlers :
          Working(k)' = Working(k) /\ (Working(k) => Msg(k)' = Msg(k) /\ job'[k] = job[k])
  BY <1>1, <1>6 DEF Working, Live, Msg
<1>11. Fresh' = Fresh /\ Waiting' = Waiting /\ Unacked' = Unacked
  BY <1>1 DEF Fresh, Waiting, Unacked
<1>12. Apart' BY <1>1, <1>10, <1>11, LessWork DEF IInv
<1>13. Awaited' BY <1>1, <1>10, <1>11 DEF IInv, Awaited
<1>14. ClosedInOrder' BY <1>1 DEF ClosedInOrder
<1>15. Succeeded' BY <1>1, <1>10 DEF IInv, Succeeded
<1>16. StillAsking' BY <1>1, <1>10 DEF IInv, StillAsking, Faithful
<1>17. RequeueHonoured' BY <1>1 DEF IInv, RequeueHonoured
<1>18. QED
  BY <1>7, <1>8, <1>9, <1>12, <1>13, <1>14, <1>15, <1>16, <1>17 DEF IInv, Typing

LEMMA SetupStep == ASSUME IInv, Setup PROVE IInv'
<1>1. CASE Done
  <2>1. /\ UNCHANGED <<autoAck, place, chan, alive, buffer, hand, job, stranded>>
        /\ UNCHANGED <<registered, run, cancelled, ctxDone, close, expired, done, asked, overruled>>
        /\ loop' = "off" /\ loop = "wait"
    BY <1>1 DEF Setup, closing, history
  <2>2. Typing'
    BY <2>1 DEF IInv, Typing, BrokerTyped, LoopTyped, JobsTyped, RestTyped
  <2>3. Apart' /\ Awaited' BY <2>1, <2>2, SameHeld DEF Typing
  <2>4. ClosedInOrder' BY <2>1 DEF IInv, ClosedInOrder
  <2>5. \A k \in Handlers : Working(k)' = Working(k) /\ Msg(k)' = Msg(k) BY <2>1, SameJobs
  <2>6. Succeeded' /\ StillAsking' /\ RequeueHonoured'
    BY <2>1, <2>5 DEF IInv, Succeeded, StillAsking, Faithful, RequeueHonoured
  <2>7. QED BY <2>2, <2>3, <2>4, <2>6 DEF IInv
<1>2. CASE ~Done
  <2>1. /\ UNCHANGED <<autoAck, place, registered, buffer, hand, run, cancelled, ctxDone, job>>
        /\ UNCHANGED <<close, expired, stranded, done, asked, overruled>>
        /\ loop = "wait" /\ loop' = "register"
        /\ chan < MaxChan /\ chan' = chan + 1 /\ alive' = TRUE
    BY <1>2 DEF Setup, closing, history
  <2>2. chan \in Nat /\ chan + 1 \in 1..MaxChan
    BY <2>1, DeliveriesAssumption DEF IInv, Typing, BrokerTyped
  <2>3. ~alive /\ ~Fresh /\ Unacked = {} /\ stranded = {} /\ buffer = <<>> /\ hand = None
    BY <2>1 DEF IInv, Awaited, Fresh, Typing, LoopTyped
  <2>4. \A k \in Handlers : ~Working(k) BY <2>3 DEF Working, Live
  <2>5. \A k \in Handlers : ~Working(k)'
    <3>1. \A k \in Handlers : job[k].chan \in Nat /\ job[k].chan <= chan
      BY DEF IInv, Typing, JobsTyped, Job
    <3>2. QED BY <2>1, <2>2, <3>1 DEF Working, Live
  <2>6. Typing'
    <3>1. BrokerTyped' /\ RestTyped' BY <2>1, <2>2 DEF IInv, Typing, BrokerTyped, RestTyped
    <3>2. LoopTyped' BY <2>1 DEF IInv, Typing, LoopTyped
    <3>3. \A k \in Handlers : job[k].chan <= chan'
      BY <2>1, <2>2 DEF IInv, Typing, JobsTyped, Job
    <3>4. JobsTyped' BY <2>1, <3>3 DEF IInv, Typing, JobsTyped
    <3>5. QED BY <3>1, <3>2, <3>4 DEF Typing
  <2>7. Waiting' = {} /\ Unacked' = {}
    BY <2>1, <2>3, ReadShort DEF Waiting, Unacked, None
  <2>8. Apart'
    <3>1. Distinct(buffer') BY <2>1, <2>3 DEF Distinct
    <3>2. Read(buffer') = {} BY <2>7 DEF Waiting
    <3>3. QED BY <2>5, <2>7, <3>1, <3>2 DEF Apart, Distinct
  <2>9. Awaited' BY <2>1, <2>3, <2>5, <2>7 DEF Awaited
  <2>10. ClosedInOrder' BY <2>1 DEF IInv, ClosedInOrder
  <2>11. Succeeded' BY <2>1, <2>4 DEF IInv, Succeeded
  <2>12. StillAsking' BY <2>1, <2>4 DEF IInv, StillAsking
  <2>13. RequeueHonoured' BY <2>1 DEF IInv, RequeueHonoured
  <2>14. QED BY <2>6, <2>8, <2>9, <2>10, <2>11, <2>12, <2>13 DEF IInv
<1>3. QED BY <1>1, <1>2

(* The loop moves what is in its buffer: to its hand, away with a channel    *)
(* that is gone, or, when it leaves, to what is stranded.                    *)
LEMMA BufferStep == ASSUME IInv, Dropped \/ Pick \/ Leave PROVE IInv'
<1>1. /\ UNCHANGED <<autoAck, place, chan, alive, registered, job>>
      /\ UNCHANGED <<done, asked, overruled, ctxDone, close, expired, run, cancelled>>
      /\ loop' = loop \/ (loop = "forward" /\ loop' = "cancel")
  BY DEF Dropped, Pick, Leave, loops, closing, history
<1>2. Fresh' = Fresh /\ \A k \in Handlers : Working(k)' = Working(k) /\ Msg(k)' = Msg(k)
  BY <1>1, SameJobs
<1>3. Unacked' = Unacked BY <1>1 DEF Unacked
<1>4. buffer \in Seq(Msgs) /\ hand \in Seq(Msgs)
  <2>1. <<>> \in Seq(Msgs) /\ \A m \in Msgs : <<m>> \in Seq(Msgs) OBVIOUS
  <2>2. QED BY <2>1 DEF IInv, Typing, LoopTyped, None
<1>5. ASSUME Dropped
      PROVE  LoopTyped' /\ Apart' /\ Awaited' /\ stranded' \subseteq Msgs
  <2>1. ~alive /\ buffer' = <<>> /\ UNCHANGED <<hand, stranded, loop>>
    BY <1>5 DEF Dropped, loops, history
  <2>2. LoopTyped'
    <3>1. <<>> \in Seq(Msgs) OBVIOUS
    <3>2. QED BY <1>1, <2>1, <3>1 DEF IInv, Typing, LoopTyped
  <2>3. ~Fresh BY <2>1 DEF Fresh
  <2>4. Apart' BY <1>2, <2>3 DEF Apart
  <2>5. Awaited' BY <1>1, <1>2, <1>3, <2>1, <2>3 DEF IInv, Awaited
  <2>6. stranded' \subseteq Msgs BY <2>1 DEF IInv, Typing, RestTyped
  <2>7. QED BY <2>2, <2>4, <2>5, <2>6
<1>6. ASSUME Pick
      PROVE  LoopTyped' /\ Apart' /\ Awaited' /\ stranded' \subseteq Msgs
  <2>1. /\ hand = None /\ buffer # <<>> /\ loop = "forward"
        /\ hand' = <<Head(buffer)>> /\ buffer' = Tail(buffer) /\ UNCHANGED <<stranded, loop>>
    BY <1>6 DEF Pick, loops, history
  <2>2. /\ Tail(buffer) \in Seq(Msgs) /\ Head(buffer) \in Msgs
        /\ Read(buffer) = {Head(buffer)} \cup Read(Tail(buffer))
        /\ Distinct(buffer) => Distinct(Tail(buffer)) /\ Head(buffer) \notin Read(Tail(buffer))
    BY <1>4, <2>1, ReadTail
  <2>3. LoopTyped' BY <1>1, <2>1, <2>2 DEF IInv, Typing, LoopTyped
  <2>4. Read(hand) = {} /\ Read(hand') = {Head(buffer)} BY <2>1, ReadShort DEF None
  <2>5. Waiting' = Waiting BY <2>1, <2>2, <2>4 DEF Waiting
  <2>6. Apart'
    <3> SUFFICES ASSUME Fresh PROVE Apart'
      BY <1>2 DEF Apart
    <3>1. Distinct(buffer') /\ Read(buffer') \cap Read(hand') = {}
      BY <2>1, <2>2, <2>4 DEF IInv, Apart
    <3>2. /\ \A k \in Handlers : Working(k)' => Msg(k)' \notin Waiting' \cup stranded'
          /\ \A j, k \in Handlers : Working(j)' /\ Working(k)' /\ Msg(j)' = Msg(k)' => j = k
          /\ Waiting' \cap stranded' = {}
      BY <1>2, <2>1, <2>5 DEF IInv, Apart
    <3>3. QED BY <3>1, <3>2 DEF Apart, Distinct
  <2>7. Awaited' BY <1>1, <1>2, <1>3, <2>1, <2>5 DEF IInv, Awaited
  <2>8. stranded' \subseteq Msgs BY <2>1 DEF IInv, Typing, RestTyped
  <2>9. QED BY <2>3, <2>6, <2>7, <2>8
<1>7. ASSUME Leave
      PROVE  LoopTyped' /\ Apart' /\ Awaited' /\ stranded' \subseteq Msgs
  <2>1. /\ loop' = "cancel" /\ hand' = None /\ buffer' = <<>>
        /\ stranded' = (stranded \cup Read(buffer \o hand)) \cap Unacked
    BY <1>7 DEF Leave
  <2>2. Read(buffer \o hand) = Waiting BY <1>4, ReadConcat DEF Waiting
  <2>3. stranded' = (stranded \cup Waiting) \cap Unacked BY <2>1, <2>2
  <2>4. Waiting' = {} /\ Read(buffer') = {} BY <2>1, ReadShort DEF Waiting, None
  <2>5. LoopTyped'
    <3>1. <<>> \in Seq(Msgs) OBVIOUS
    <3>2. QED BY <1>1, <2>1, <3>1 DEF IInv, Typing, LoopTyped
  <2>6. Apart'
    <3> SUFFICES ASSUME Fresh PROVE Apart'
      BY <1>2 DEF Apart
    <3>1. Distinct(buffer') BY <2>1 DEF Distinct
    <3>2. \A k \in Handlers : Working(k)' => Msg(k)' \notin Waiting' \cup stranded'
      BY <1>2, <2>3, <2>4 DEF IInv, Apart
    <3>3. \A j, k \in Handlers : Working(j)' /\ Working(k)' /\ Msg(j)' = Msg(k)' => j = k
      BY <1>2 DEF IInv, Apart
    <3>4. QED BY <2>4, <3>1, <3>2, <3>3 DEF Apart, Distinct
  <2>7. Awaited'
    <3>1. ~alive => stranded' = {} BY <2>3 DEF IInv, Awaited, Fresh
    <3>2. \A m \in Unacked : m \in Waiting \cup stranded => m \in stranded' BY <2>3
    <3>3. stranded' \subseteq Unacked BY <2>3
    <3>4. QED BY <1>1, <1>2, <1>3, <2>1, <2>4, <3>1, <3>2, <3>3 DEF IInv, Awaited
  <2>8. stranded' \subseteq Msgs BY <2>3 DEF Unacked
  <2>9. QED BY <2>5, <2>6, <2>7, <2>8
<1>8. LoopTyped' /\ Apart' /\ Awaited' /\ stranded' \subseteq Msgs BY <1>5, <1>6, <1>7
<1>9. BrokerTyped' /\ JobsTyped' /\ RestTyped'
  BY <1>1, <1>8 DEF IInv, Typing, BrokerTyped, JobsTyped, RestTyped
<1>10. ClosedInOrder' BY <1>1 DEF IInv, ClosedInOrder
<1>11. Succeeded' /\ StillAsking' /\ RequeueHonoured'
  BY <1>1, <1>2 DEF IInv, Succeeded, StillAsking, Faithful, RequeueHonoured
<1>12. QED BY <1>8, <1>9, <1>10, <1>11 DEF IInv, Typing

(* The invariant is an invariant.                                            *)
LEMMA InitIInv == Init => IInv
<1> SUFFICES ASSUME Init PROVE IInv
  OBVIOUS
<1> USE DeliveriesAssumption DEF Init
<1>1. BrokerTyped
  <2>1. autoAck \in BOOLEAN /\ alive \in BOOLEAN /\ registered \in BOOLEAN /\ ~registered
    OBVIOUS
  <2>2. chan \in 1..MaxChan OBVIOUS
  <2>3. QED BY <2>1, <2>2 DEF BrokerTyped
<1>2. LoopTyped
  <2>1. <<>> \in Seq(Msgs) OBVIOUS
  <2>2. cancelled \in BOOLEAN OBVIOUS
  <2>3. run \in 0..MaxRuns OBVIOUS
  <2>4. ctxDone \subseteq 1..MaxRuns OBVIOUS
  <2>5. buffer = <<>> /\ hand = None /\ loop = "off" OBVIOUS
  <2>6. QED BY <2>1, <2>2, <2>3, <2>4, <2>5 DEF LoopTyped
<1>3. JobsTyped
  <2>1. NoJob \in Job BY DEF NoJob, Job, Points, Verdicts
  <2>2. NoJob.at = "none" /\ NoJob.chan = 0 BY DEF NoJob
  <2>3. \A h \in Handlers : job[h] = NoJob OBVIOUS
  <2>4. QED BY <2>1, <2>2, <2>3 DEF JobsTyped, AtWork
<1>4. RestTyped BY DEF RestTyped
<1>5. \A h \in Handlers : ~Working(h) BY DEF Working, NoJob
<1>6. Waiting = {} /\ Unacked = {} BY ReadShort DEF Waiting, Unacked, None
<1>7. Apart BY <1>5, <1>6, ReadShort DEF Apart, Distinct
<1>8. Awaited BY <1>5, <1>6 DEF Awaited
<1>9. ClosedInOrder /\ Succeeded /\ StillAsking /\ RequeueHonoured
  BY DEF ClosedInOrder, Succeeded, StillAsking, RequeueHonoured
<1>10. QED BY <1>1, <1>2, <1>3, <1>4, <1>7, <1>8, <1>9 DEF IInv, Typing

THEOREM Inductive == Spec => []IInv
<1>1. IInv /\ [Next]_vars => IInv'
  <2> SUFFICES ASSUME IInv, [Next]_vars PROVE IInv'
    OBVIOUS
  <2>1. ASSUME NEW m \in Msgs, Send(m) PROVE IInv' BY <2>1, SendStep
  <2>2. CASE Dies BY <2>2, DiesStep
  <2>3. CASE Dropped \/ Pick \/ Leave BY <2>3, BufferStep
  <2>4. CASE Consume BY <2>4, ConsumeStep
  <2>5. CASE Setup BY <2>5, SetupStep
  <2>6. CASE Register \/ Ends \/ Cancel \/ UserCancels \/ Stop \/ Close \/ CloseLoops \/ CloseDrained
    BY <2>6, ControlStep
  <2>7. ASSUME NEW h \in Handlers, HandlerNext(h) PROVE IInv'
    BY <2>7, TakeStep, SucceedsStep, FailsStep, AgainStep, SettleStep, QuitStep DEF HandlerNext
  <2>8. CASE CloseChannel BY <2>8, CloseChannelStep
  <2>9. CASE UNCHANGED vars
    <3>1. Typing'
      BY <2>9 DEF IInv, Typing, BrokerTyped, LoopTyped, JobsTyped, RestTyped,
                  vars, sub, loops, closing, history
    <3>2. UNCHANGED <<autoAck, place, chan, alive, buffer, hand, job, stranded, loop>>
      BY <2>9 DEF vars, sub, loops, history
    <3>3. loop' = "wait" => ~alive BY <3>2 DEF IInv, Awaited
    <3>4. Apart' /\ Awaited' BY <3>1, <3>2, <3>3, SameHeld DEF Typing
    <3>5. \A k \in Handlers : Working(k)' = Working(k) /\ Msg(k)' = Msg(k) BY <3>2, SameJobs
    <3>6. ClosedInOrder' BY <2>9 DEF IInv, ClosedInOrder, vars, sub, loops, closing
    <3>7. Succeeded' /\ StillAsking' /\ RequeueHonoured'
      BY <2>9, <3>5 DEF IInv, Succeeded, StillAsking, Faithful, RequeueHonoured, vars, closing,
                        history
    <3>8. QED BY <3>1, <3>4, <3>6, <3>7 DEF IInv
  <2>10. QED
    BY <2>1, <2>2, <2>3, <2>4, <2>5, <2>6, <2>7, <2>8, <2>9 DEF Next, LoopNext, CloseNext
<1>2. QED BY InitIInv, <1>1, PTL DEF Spec

-----------------------------------------------------------------------------
(* Everything keeps its type: no handler works beyond its retries or on a    *)
(* channel that was never opened, and the buffer and the hand of the loop    *)
(* are empty unless it forwards.                                             *)
THEOREM Typed == Spec => []TypeOK
<1>1. IInv => TypeOK
  <2> SUFFICES ASSUME IInv PROVE TypeOK
    OBVIOUS
  <2>1. Read(buffer) \subseteq Msgs
    <3>1. buffer \in Seq(Msgs) BY DEF IInv, Typing, LoopTyped
    <3>2. \A i \in 1..Len(buffer) : buffer[i] \in Msgs BY <3>1
    <3>3. QED BY <3>2 DEF Read
  <2>2. QED
    BY <2>1 DEF IInv, Typing, BrokerTyped, LoopTyped, JobsTyped, RestTyped, TypeOK, Job, Points
<1>2. QED BY <1>1, Inductive, PTL

(* How many elements of a sequence without repetitions are m.                *)
LEMMA CountDistinct ==
    ASSUME NEW s, Distinct(s), NEW m
    PROVE  /\ m \in Read(s) => Cardinality({i \in 1..Len(s) : s[i] = m}) = 1
           /\ m \notin Read(s) => Cardinality({i \in 1..Len(s) : s[i] = m}) = 0
<1>1. ASSUME m \in Read(s) PROVE Cardinality({i \in 1..Len(s) : s[i] = m}) = 1
  <2>1. PICK i \in 1..Len(s) : s[i] = m BY <1>1 DEF Read
  <2>2. {j \in 1..Len(s) : s[j] = m} = {i} BY <2>1 DEF Distinct
  <2>3. QED BY <2>2, FS_Singleton
<1>2. ASSUME m \notin Read(s) PROVE Cardinality({i \in 1..Len(s) : s[i] = m}) = 0
  <2>1. {i \in 1..Len(s) : s[i] = m} = {} BY <1>2 DEF Read
  <2>2. QED BY <2>1, FS_EmptySet
<1>3. QED BY <1>1, <1>2

(* The buffer and the hand in one.                                           *)
LEMMA BufferAndHand ==
    ASSUME IInv, Fresh
    PROVE  Distinct(buffer \o hand) /\ Read(buffer \o hand) = Waiting
<1>1. buffer \in Seq(Msgs) /\ (hand = None \/ \E m \in Msgs : hand = <<m>>)
  BY DEF IInv, Typing, LoopTyped
<1>2. Distinct(buffer) /\ Read(buffer) \cap Read(hand) = {} BY DEF IInv, Apart
<1>3. CASE hand = None
  <2>1. buffer \o hand = buffer BY <1>1, <1>3 DEF None
  <2>2. Read(hand) = {} BY <1>3, ReadShort DEF None
  <2>3. QED BY <1>2, <2>1, <2>2 DEF Waiting
<1>4. CASE hand # None
  <2>1. PICK m \in Msgs : hand = <<m>> BY <1>1, <1>4
  <2>2. buffer \o hand = Append(buffer, m) BY <1>1, <2>1
  <2>3. Read(hand) = {m} BY <2>1, ReadShort
  <2>4. QED BY <1>1, <1>2, <2>2, <2>3, ReadAppend DEF Waiting
<1>5. QED BY <1>3, <1>4

(* forwardDeliveries, processDelivery: every message the broker waits for is *)
(* in the buffer, in the loop's hand, with a handler, or stranded, and in no *)
(* two of these places, however losses, Stop, Consume and Close fall.        *)
THEOREM OnePlaceOnly == Spec => []HeldOnce
<1>1. IInv => HeldOnce
  <2> SUFFICES ASSUME IInv, NEW m \in Unacked
               PROVE  Cardinality({i \in 1..Len(buffer \o hand) : alive /\ (buffer \o hand)[i] = m})
                      + Cardinality({h \in Handlers : Working(h) /\ Msg(h) = m})
                      + (IF m \in stranded THEN 1 ELSE 0) = 1
    BY DEF HeldOnce
  <2> DEFINE s == buffer \o hand
             H == {h \in Handlers : Working(h) /\ Msg(h) = m}
  <2>1. Fresh BY DEF IInv, Awaited
  <2>2. {i \in 1..Len(s) : alive /\ s[i] = m} = {i \in 1..Len(s) : s[i] = m} BY <2>1 DEF Fresh
  <2>3. Distinct(s) /\ Read(s) = Waiting BY <2>1, BufferAndHand
  <2>4. /\ Waiting \cap stranded = {}
        /\ \A h \in Handlers : Working(h) => Msg(h) \notin Waiting \cup stranded
        /\ \A h, k \in Handlers : Working(h) /\ Working(k) /\ Msg(h) = Msg(k) => h = k
        /\ m \in Waiting \cup stranded \/ H # {}
    BY <2>1 DEF IInv, Apart, Awaited
  <2> HIDE DEF s
  <2>5. /\ m \in Waiting => Cardinality({i \in 1..Len(s) : s[i] = m}) = 1
        /\ m \notin Waiting => Cardinality({i \in 1..Len(s) : s[i] = m}) = 0
    BY <2>3, CountDistinct
  <2>6. IF H = {} THEN Cardinality(H) = 0 ELSE Cardinality(H) = 1 /\ m \notin Waiting \cup stranded
    <3>1. CASE H = {} BY <3>1, FS_EmptySet
    <3>2. CASE H # {}
      <4>1. PICK h \in Handlers : Working(h) /\ Msg(h) = m BY <3>2
      <4>2. H = {h} BY <2>4, <4>1
      <4>3. QED BY <2>4, <4>1, <4>2, FS_Singleton
    <3>3. QED BY <3>1, <3>2
  <2> HIDE DEF H
  <2>7. Cardinality({i \in 1..Len(s) : s[i] = m}) + Cardinality(H)
        + (IF m \in stranded THEN 1 ELSE 0) = 1
    BY <2>4, <2>5, <2>6
  <2>8. QED BY <2>2, <2>7 DEF s, H
<1>2. QED BY <1>1, Inductive, PTL

(* Close, processDelivery: under a graceful Close that does not give up, a   *)
(* message whose handler has succeeded on a live channel is acknowledged, or *)
(* is on its way to be, and never goes back to the queue.                    *)
THEOREM SuccessStays == Spec => []SuccessIsFinal
<1>1. IInv => SuccessIsFinal BY DEF IInv, Succeeded, SuccessIsFinal
<1>2. QED BY <1>1, Inductive, PTL

(* requeueDecision, RetryMiddleware: a message whose handler, when it last   *)
(* failed, returned an ErrRequeue is never discarded by it, with whatever    *)
(* that was joined, but in one case: the wait for the next attempt was cut   *)
(* short, so that the error of the context was judged, and RequeueOnError is *)
(* off (middleware.go 100).  Where it is on, it is requeued always.          *)
THEOREM RequeueKept ==
    Spec => []RequeueHonoured /\ [](RequeueOnError => RequeueRegardless)
<1>1. IInv => RequeueHonoured BY DEF IInv
<1>2. RequeueHonoured => (RequeueOnError => RequeueRegardless)
  BY DEF RequeueHonoured, RequeueRegardless
<1>3. QED BY <1>1, <1>2, Inductive, PTL

=============================================================================

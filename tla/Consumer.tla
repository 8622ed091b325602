------------------------------ MODULE Consumer ------------------------------
(***************************************************************************)
(* Consumer (consumer.go): the consume loop that Start runs, the channel   *)
(* it re-establishes, the subscriptions it leaves at the broker, Consume   *)
(* and its handlers, Stop, and CloseWithContext.  The connection           *)
(* underneath is the one Link promises.                                    *)
(*                                                                         *)
(* Channels and consume loops are numbered in the order they are opened    *)
(* and started; there is never more than one loop, Start sees to that.     *)
(* c.mu is only held for a few assignments, so a section under it is one   *)
(* step; c.rpcMu is held across calls to the broker.  What a delivery      *)
(* holds does not matter here, only who has one.  The queue and exchange   *)
(* helpers and the topology refresh run on channels of their own and share *)
(* nothing with this but c.closed.                                         *)
(***************************************************************************)
EXTENDS Link, FiniteSets

CONSTANTS Self,         \* this consumer
          Apps,         \* goroutines that call Consume
          Concurrency,  \* handlers of one Consume
          Graceful,     \* GracefulShutdown is enabled
          Deadline,     \* the context given to Close can expire
          FixedTag,     \* a ConsumerTag is configured
          Heartbeat,    \* heartbeats are on, on both sides
          Interrupted,  \* bound: Stop and cancelled contexts do happen
          MaxChan,      \* bound: channels ever opened
          MaxRun        \* bound: consume loops ever started

ASSUME ConsumerAssumption ==
    /\ Self \in Subs
    /\ Concurrency \in Nat \ {0}
    /\ Graceful \in BOOLEAN /\ Deadline \in BOOLEAN
    /\ FixedTag \in BOOLEAN /\ Heartbeat \in BOOLEAN /\ Interrupted \in BOOLEAN
    /\ MaxChan \in Nat \ {0} /\ MaxRun \in Nat \ {0}
    /\ Apps \cap {"free", "loop", "close"} = {}

VARIABLES wire,      \* "ok"; "quiet": no more answers; "broken": a write has failed
          opened,    \* channels opened so far
          state,     \* per channel, what the protocol made of it
          home,      \* per channel, the connection it was opened on
          watch,     \* per channel, where its watcher is
          reg,       \* per channel, the consumer tags registered at the broker
          calls,     \* per channel, who has a call outstanding on it
          rpcMu,     \* who holds c.rpcMu
          current,   \* c.channel, 0 for nil
          closed,    \* c.closed; c.reconnectCh is closed with it
          chDead,    \* c.chDeadCh holds a signal
          pending,   \* <<c.uncancelledOn, c.uncancelled>>, or NoSub
          pc,        \* where the consume loop and each caller of Consume is
          sub,       \* the subscription each of them is dealing with
          old,       \* the channel this setup has replaced
          run,       \* number of the latest loop
          cancelled, \* its context has been cancelled by Stop or Close
          ctxDone,   \* loops whose callers have cancelled their context
          mine,      \* the loop each caller started
          idle,      \* per loop, handlers waiting for a delivery
          busy,      \* per loop, handlers working on one
          close,     \* where Close is
          stopped,   \* what awaitConsumeLoopsStopped told Close
          expired,   \* Close gave up on the handlers
          stranded   \* channels deliberately left open

env == <<linkVars, wire>>
chans == <<opened, state, home, watch>>
con == <<current, closed>>
rpcs == <<calls, rpcMu>>
work == <<ctxDone, mine, idle, busy>>
loopCtx == <<run, cancelled>>
closing == <<close, stopped, expired>>
users == <<work, closing>>
local == <<pending, pc, sub, old, loopCtx>>
vars == <<env, chans, reg, rpcs, con, chDead, local, users, stranded>>

Chans == 1..MaxChan
Runs == 1..MaxRun
Procs == Apps \cup {"loop", "close"}
TagOf(r) == IF FixedTag THEN 1 ELSE r      \* ConsumerTag, or generateConsumerTag
NoSub == <<0, 0>>
NoHandlers == [r \in Runs |-> 0]

LoopPoints == {"none", "top", "lock", "consume", "clear", "spent", "spentClose", "wait", "check",
               "open", "setup", "install", "drop", "slot", "retire", "probe", "report",
               "forward", "offer", "cancel", "cancelSlot", "cancelCall", "exit", "done"}
AppPoints == {"idle", "cancel", "cancelSlot", "cancelCall", "start", "add", "serving"}

TypeOK ==
    /\ LinkTypeOK /\ wire \in {"ok", "quiet", "broken"}
    /\ opened \in Chans
    /\ state \in [Chans -> {"none", "open", "failed", "closed"}]
    /\ home \in [Chans -> 0..MaxGen]
    /\ watch \in [Chans -> {"none", "armed", "reporting", "done"}]
    /\ reg \in [Chans -> SUBSET Runs]
    /\ calls \in [Chans -> SUBSET Procs] /\ rpcMu \in Procs \cup {"free"}
    /\ current \in 0..MaxChan /\ closed \in BOOLEAN /\ chDead \in BOOLEAN
    /\ pending \in (Chans \X Runs) \cup {NoSub}
    /\ pc["loop"] \in LoopPoints /\ \A a \in Apps : pc[a] \in AppPoints
    /\ sub \in [Apps \cup {"loop"} -> (0..MaxChan) \X (0..MaxRun)]
    /\ old \in 0..MaxChan
    /\ run \in 0..MaxRun /\ cancelled \in BOOLEAN /\ ctxDone \subseteq Runs
    /\ mine \in [Apps -> 0..MaxRun]
    /\ idle \in [Runs -> 0..Concurrency] /\ busy \in [Runs -> 0..Concurrency]
    /\ close \in {"idle", "loops", "drain", "look", "slot", "handshake", "returned"}
    /\ stopped \in BOOLEAN /\ expired \in BOOLEAN
    /\ stranded \subseteq Chans

Init ==  \* NewConsumer has returned the consumer with its first channel
    /\ gen = 1 /\ up = TRUE /\ over = FALSE /\ owed = FALSE
    /\ listed = {Self} /\ signalled = {}
    /\ wire = "ok"
    /\ opened = 1
    /\ state = [c \in Chans |-> IF c = 1 THEN "open" ELSE "none"]
    /\ home = [c \in Chans |-> IF c = 1 THEN 1 ELSE 0]
    /\ watch = [c \in Chans |-> IF c = 1 THEN "armed" ELSE "none"]
    /\ reg = [c \in Chans |-> {}]
    /\ calls = [c \in Chans |-> {}] /\ rpcMu = "free"
    /\ current = 1 /\ closed = FALSE /\ chDead = FALSE
    /\ pending = NoSub
    /\ pc = [p \in Apps \cup {"loop"} |-> IF p = "loop" THEN "none" ELSE "idle"]
    /\ sub = [p \in Apps \cup {"loop"} |-> NoSub]
    /\ old = 0
    /\ run = 0 /\ cancelled = FALSE /\ ctxDone = {}
    /\ mine = [a \in Apps |-> 0]
    /\ idle = NoHandlers /\ busy = NoHandlers
    /\ close = "idle" /\ stopped = FALSE /\ expired = FALSE
    /\ stranded = {}

Alive(c) == c # 0 /\ state[c] = "open" /\ home[c] = gen /\ up
fresh == opened
loop == pc["loop"]
Running == loop \notin {"none", "done"}
Done == cancelled \/ run \in ctxDone          \* the loop's context
NoChannel == sub' = [sub EXCEPT !["loop"][1] = 0]      \* subscribed = nil
Go(p, point) == pc' = [pc EXCEPT ![p] = point]

(* A call is sent, and is answered or fails: at once if the channel is dead, *)
(* when it dies, or when writing it does.                                    *)
Send(p, c) == calls' = [calls EXCEPT ![c] = @ \cup {p}]
Return(p, c) == p \in calls[c] /\ calls' = [calls EXCEPT ![c] = @ \ {p}]
Answered(p, c) == Alive(c) /\ wire = "ok" /\ Return(p, c)
Failed(p, c) == (~Alive(c) \/ wire = "broken") /\ Return(p, c)
(* acquireChannelSlot gives up on rpcMu while whoever holds it waits for the *)
(* broker or for a write; a call on a dead channel fails at once.            *)
HolderBusy == \E c \in Chans : rpcMu \in calls[c] /\ Alive(c)
CloseReply(p, c) ==
    \/ /\ Answered(p, c) /\ reg' = [reg EXCEPT ![c] = {}]
       /\ state' = [state EXCEPT ![c] = "closed"]
    \/ Failed(p, c) /\ UNCHANGED <<state, reg>>

-----------------------------------------------------------------------------
(* The connection and the broker. *)

Connection ==  \* that no generation follows makes no difference at the bound
    /\ LinkEnv /\ (gen = MaxGen => UNCHANGED over)
    /\ wire' = IF up' /\ gen' = gen THEN wire ELSE "ok"
    /\ reg' = IF up' /\ gen' = gen THEN reg ELSE [c \in Chans |-> {}]
    /\ UNCHANGED <<chans, rpcs, con, chDead, local, users, stranded>>

(* The broker stops answering, or a write has failed and the connection is   *)
(* about to be shut down for it.                                             *)
WireFails ==
    /\ up /\ wire = "ok"
    /\ wire' \in {"quiet", "broken"}
    /\ UNCHANGED <<linkVars, chans, reg, rpcs, con, chDead, local, users, stranded>>

(* The broker closes a channel: an ack it does not know, a refused declare. *)
Exception(c) ==
    /\ Alive(c) /\ wire = "ok"
    /\ state' = [state EXCEPT ![c] = "failed"] /\ reg' = [reg EXCEPT ![c] = {}]
    /\ UNCHANGED <<env, opened, home, watch, rpcs, con, chDead, local, users, stranded>>

(* basic.cancel from the broker: the queue is gone, the channel is healthy. *)
BrokerCancels(c) ==
    /\ Alive(c) /\ wire = "ok" /\ reg[c] # {}
    /\ reg' = [reg EXCEPT ![c] = {}]
    /\ UNCHANGED <<env, chans, rpcs, con, chDead, local, users, stranded>>

(* watchChannelClose's goroutine. *)
WatchEnds(c) ==
    /\ watch[c] = "armed" /\ ~Alive(c)
    /\ state[c] # "failed" \/ current # c \/ closed
    /\ watch' = [watch EXCEPT ![c] = "done"]
    /\ UNCHANGED <<env, opened, state, home, reg, rpcs, con, chDead, local, users, stranded>>

WatchSees(c) ==
    /\ watch[c] = "armed" /\ ~Alive(c) /\ state[c] # "closed"
    /\ current = c /\ ~closed
    /\ watch' = [watch EXCEPT ![c] = "reporting"]
    /\ UNCHANGED <<env, opened, state, home, reg, rpcs, con, chDead, local, users, stranded>>

WatchReports(c) ==
    /\ watch[c] = "reporting"
    /\ watch' = [watch EXCEPT ![c] = "done"]
    /\ chDead' = TRUE
    /\ UNCHANGED <<env, opened, state, home, reg, rpcs, con, local, users, stranded>>

ChanNext(c) ==
    \/ Exception(c) \/ BrokerCancels(c)
    \/ WatchEnds(c) \/ WatchSees(c) \/ WatchReports(c)

-----------------------------------------------------------------------------
(* consumeLoop. *)

LoopTop ==
    /\ loop = "top"
    /\ IF Done THEN Go("loop", "exit") /\ UNCHANGED sub
       ELSE IF current = 0 THEN Go("loop", "wait") /\ UNCHANGED sub
       ELSE Go("loop", "lock") /\ sub' = [sub EXCEPT !["loop"][1] = current]
    /\ UNCHANGED <<env, chans, reg, rpcs, con, chDead, pending, old, loopCtx, users, stranded>>

ConsumeSend ==
    /\ loop = "lock" /\ rpcMu = "free"
    /\ rpcMu' = "loop" /\ Send("loop", sub["loop"][1]) /\ Go("loop", "consume")
    /\ UNCHANGED <<env, chans, reg, con, chDead, pending, sub, old, loopCtx, users, stranded>>

(* A tag already in use is answered by closing the connection (530). *)
Consumed ==
    /\ loop = "consume" /\ sub["loop"][2] \notin reg[sub["loop"][1]]
    /\ Answered("loop", sub["loop"][1])
    /\ reg' = [reg EXCEPT ![sub["loop"][1]] = @ \cup {sub["loop"][2]}]
    /\ rpcMu' = "free" /\ Go("loop", "forward")
    /\ UNCHANGED <<env, chans, con, chDead, pending, sub, old, loopCtx, users, stranded>>

ConsumeFails ==
    /\ loop = "consume" /\ Failed("loop", sub["loop"][1])
    /\ rpcMu' = "free" /\ Go("loop", "clear")
    /\ UNCHANGED <<env, chans, reg, con, chDead, pending, sub, old, loopCtx, users, stranded>>

Clear ==
    /\ loop = "clear"
    /\ current' = 0 /\ Go("loop", "spent")
    /\ UNCHANGED <<env, chans, reg, rpcs, closed, chDead, pending, sub, old, loopCtx, users, stranded>>

(* acquireChannelSlot never times out here: only a retried basic.cancel can  *)
(* hold rpcMu now, and it fails at once (SlotsComeFree in ConsumerProofs).   *)
SpentSlot ==
    /\ loop = "spent" /\ rpcMu = "free"
    /\ rpcMu' = "loop" /\ Send("loop", sub["loop"][1]) /\ Go("loop", "spentClose")
    /\ UNCHANGED <<env, chans, reg, con, chDead, pending, sub, old, loopCtx, users, stranded>>

SpentClosed ==
    /\ loop = "spentClose" /\ CloseReply("loop", sub["loop"][1])
    /\ rpcMu' = "free" /\ Go("loop", "wait") /\ NoChannel
    /\ UNCHANGED <<env, opened, home, watch, con, chDead, pending, old, loopCtx, users, stranded>>

(* forwardDeliveries.  What the broker had already sent can still come out   *)
(* of the delivery channel when the subscription is gone.                    *)
Receive ==
    /\ loop = "forward"
    /\ Go("loop", "offer")
    /\ UNCHANGED <<env, chans, reg, rpcs, con, chDead, pending, sub, old, loopCtx, users, stranded>>

OfferUnlimited ==  \* mutant: a handler takes deliveries while it is at work
    /\ loop = "offer" /\ idle[run] > 0
    /\ busy' = [busy EXCEPT ![run] = @ + 1]
    /\ Go("loop", "forward")
    /\ UNCHANGED <<env, chans, reg, rpcs, con, chDead, pending, sub, old, loopCtx,
                   ctxDone, mine, idle, closing, stranded>>

Offer ==  \* outCh has no buffer: a handler takes the delivery from the loop
    /\ loop = "offer" /\ idle[run] > 0
    /\ idle' = [idle EXCEPT ![run] = @ - 1]
    /\ busy' = [busy EXCEPT ![run] = @ + 1]
    /\ Go("loop", "forward")
    /\ UNCHANGED <<env, chans, reg, rpcs, con, chDead, pending, sub, old, loopCtx,
                   ctxDone, mine, closing, stranded>>

ForwardLeaves ==  \* mutant: the subscription is left to the channel's closing
    /\ loop \in {"forward", "offer"} /\ Done
    /\ Go("loop", "exit")
    /\ UNCHANGED <<env, chans, reg, rpcs, con, chDead, pending, sub, old, loopCtx, users, stranded>>

ForwardCancelledLate ==  \* mutant: an offered delivery has to be taken first
    /\ loop = "forward" /\ Done
    /\ Go("loop", "cancel")
    /\ UNCHANGED <<env, chans, reg, rpcs, con, chDead, pending, sub, old, loopCtx, users, stranded>>

ForwardCancelled ==
    /\ loop \in {"forward", "offer"} /\ Done
    /\ Go("loop", "cancel")
    /\ UNCHANGED <<env, chans, reg, rpcs, con, chDead, pending, sub, old, loopCtx, users, stranded>>

DeliveriesEnd ==
    /\ loop = "forward"
    /\ ~Alive(sub["loop"][1]) \/ sub["loop"][2] \notin reg[sub["loop"][1]]
    /\ Go("loop", "wait") /\ NoChannel
    /\ UNCHANGED <<env, chans, reg, rpcs, con, chDead, pending, old, loopCtx, users, stranded>>

Exit ==  \* close(outCh) and close(done), one right after the other
    /\ loop = "exit"
    /\ Go("loop", "done") /\ NoChannel
    /\ UNCHANGED <<env, chans, reg, rpcs, con, chDead, pending, old, loopCtx, users, stranded>>

-----------------------------------------------------------------------------
(* waitForReconnect: a select over five arms, then the context once more. *)

WaitSignal ==  \* a buffered signal precedes the closing of the channel
    /\ loop = "wait" /\ Take(Self) /\ Go("loop", "check")
    /\ UNCHANGED <<wire, chans, reg, rpcs, con, chDead, pending, sub, old, loopCtx, users, stranded>>

WaitEnds ==
    /\ loop = "wait"
    /\ Done \/ (closed /\ Self \notin signalled)
    /\ Go("loop", "exit")
    /\ UNCHANGED <<env, chans, reg, rpcs, con, chDead, pending, sub, old, loopCtx, users, stranded>>

WaitDead ==
    /\ loop = "wait" /\ chDead
    /\ chDead' = FALSE /\ Go("loop", "check")
    /\ UNCHANGED <<env, chans, reg, rpcs, con, pending, sub, old, loopCtx, users, stranded>>

WaitTimerUnneeded ==  \* mutant: no retry while there is a channel
    /\ loop = "wait" /\ current = 0
    /\ Go("loop", "check")
    /\ UNCHANGED <<env, chans, reg, rpcs, con, chDead, pending, sub, old, loopCtx, users, stranded>>

WaitTimer ==
    /\ loop = "wait"
    /\ Go("loop", "check")
    /\ UNCHANGED <<env, chans, reg, rpcs, con, chDead, pending, sub, old, loopCtx, users, stranded>>

Check ==
    /\ loop = "check"
    /\ Go("loop", IF Done THEN "exit" ELSE "open")
    /\ UNCHANGED <<env, chans, reg, rpcs, con, chDead, pending, sub, old, loopCtx, users, stranded>>

-----------------------------------------------------------------------------
(* setupChannel, run by the loop; QoS and topology count as one call. *)

(* conn.Channel fails, on a lost connection or on one that has no channel to *)
(* give: logged, and the loop goes round; so it does at the bound.           *)
OpenFails ==
    /\ loop = "open" /\ (~up \/ wire # "quiet" \/ opened = MaxChan)
    /\ Go("loop", "top")
    /\ UNCHANGED <<env, chans, reg, rpcs, con, chDead, pending, sub, old, loopCtx, users, stranded>>

Open ==
    /\ loop = "open" /\ up /\ wire = "ok" /\ opened < MaxChan
    /\ opened' = opened + 1
    /\ state' = [state EXCEPT ![opened + 1] = "open"]
    /\ home' = [home EXCEPT ![opened + 1] = gen]
    /\ Send("loop", opened + 1) /\ Go("loop", "setup")
    /\ UNCHANGED <<env, watch, reg, rpcMu, con, chDead, pending, sub, old, loopCtx, users, stranded>>

SetupReply ==
    /\ loop = "setup"
    /\ \/ Answered("loop", fresh) /\ Go("loop", "install")
       \/ Failed("loop", fresh) /\ Go("loop", "top")
    /\ UNCHANGED <<env, chans, reg, rpcMu, con, chDead, pending, sub, old, loopCtx, users, stranded>>

InstallAnyway ==  \* mutant: c.closed is not looked at again
    /\ loop = "install"
    /\ Go("loop", IF current = 0 THEN "probe" ELSE "slot")
    /\ current' = fresh /\ old' = current /\ pending' = NoSub
    /\ UNCHANGED <<env, chans, reg, rpcs, closed, chDead, sub, loopCtx, users, stranded>>

Install ==  \* under c.mu; a consumer closed meanwhile gets no channel
    /\ loop = "install"
    /\ IF closed
         THEN Go("loop", "drop") /\ Send("loop", fresh) /\ UNCHANGED <<current, old, pending>>
         ELSE /\ Go("loop", IF current = 0 THEN "probe" ELSE "slot")
              /\ current' = fresh /\ old' = current /\ pending' = NoSub
              /\ UNCHANGED calls
    /\ UNCHANGED <<env, chans, reg, rpcMu, closed, chDead, sub, loopCtx, users, stranded>>

Dropped ==  \* ErrShuttingDown ends the loop
    /\ loop = "drop" /\ CloseReply("loop", fresh)
    /\ Go("loop", "exit")
    /\ UNCHANGED <<env, opened, home, watch, rpcMu, con, chDead, pending, sub, old, loopCtx, users, stranded>>

(* acquireChannelSlot, then old.Close(); the slot never times out, as above. *)
Slot ==
    /\ loop = "slot" /\ rpcMu = "free"
    /\ rpcMu' = "loop" /\ Send("loop", old) /\ Go("loop", "retire")
    /\ UNCHANGED <<env, chans, reg, con, chDead, pending, sub, old, loopCtx, users, stranded>>

Retired ==
    /\ loop = "retire" /\ CloseReply("loop", old)
    /\ rpcMu' = "free" /\ old' = 0 /\ Go("loop", "probe")
    /\ UNCHANGED <<env, opened, home, watch, con, chDead, pending, sub, loopCtx, users, stranded>>

Probe ==  \* watchChannelClose: NotifyClose is registered, then the channel tested
    /\ loop = "probe"
    /\ watch' = [watch EXCEPT ![fresh] = IF Alive(fresh) THEN "armed" ELSE "done"]
    /\ Go("loop", IF ~Alive(fresh) /\ current = fresh /\ ~closed THEN "report" ELSE "top")
    /\ UNCHANGED <<env, opened, state, home, reg, rpcs, con, chDead, pending, sub, old, loopCtx, users, stranded>>

Report ==
    /\ loop = "report"
    /\ chDead' = TRUE /\ Go("loop", "top")
    /\ UNCHANGED <<env, chans, reg, rpcs, con, pending, sub, old, loopCtx, users, stranded>>

-----------------------------------------------------------------------------
(* cancelSubscription(sub[p]), for a loop that has been cancelled and for a  *)
(* Start that retries the cancel an earlier loop could not make.             *)

After(p) == IF p = "loop" THEN "exit" ELSE "start"
Forget(p) == pending' = IF pending = sub[p] THEN NoSub ELSE pending   \* clearUncancelled
Mark(p) ==                                                             \* markUncancelled
    pending' = IF Alive(sub[p][1]) /\ current = sub[p][1] /\ ~closed THEN sub[p] ELSE pending

CancelNeedless(p) ==  \* closing, or the channel is gone and took the tag along
    /\ pc[p] = "cancel" /\ (closed \/ ~Alive(sub[p][1]))
    /\ Forget(p) /\ Go(p, After(p))
    /\ UNCHANGED <<env, chans, reg, rpcs, con, chDead, sub, old, loopCtx, users, stranded>>

Cancel(p) ==
    /\ pc[p] = "cancel" /\ ~closed /\ Alive(sub[p][1])
    /\ Go(p, "cancelSlot")
    /\ UNCHANGED <<env, chans, reg, rpcs, con, chDead, pending, sub, old, loopCtx, users, stranded>>

CancelSend(p) ==
    /\ pc[p] = "cancelSlot" /\ rpcMu = "free"
    /\ rpcMu' = p /\ Send(p, sub[p][1]) /\ Go(p, "cancelCall")
    /\ UNCHANGED <<env, chans, reg, con, chDead, pending, sub, old, loopCtx, users, stranded>>

CancelTimeout(p) ==
    /\ pc[p] = "cancelSlot" /\ HolderBusy
    /\ Mark(p) /\ Go(p, After(p))
    /\ UNCHANGED <<env, chans, reg, rpcs, con, chDead, sub, old, loopCtx, users, stranded>>

CancelReplyTrusted(p) ==  \* mutant: a failed cancel is not put on record
    /\ pc[p] = "cancelCall"
    /\ \/ /\ Answered(p, sub[p][1]) /\ Forget(p)
          /\ reg' = [reg EXCEPT ![sub[p][1]] = @ \ {sub[p][2]}]
       \/ Failed(p, sub[p][1]) /\ Forget(p) /\ UNCHANGED reg
    /\ rpcMu' = "free" /\ Go(p, After(p))
    /\ UNCHANGED <<env, chans, con, chDead, sub, old, loopCtx, users, stranded>>

CancelReply(p) ==
    /\ pc[p] = "cancelCall"
    /\ \/ /\ Answered(p, sub[p][1]) /\ Forget(p)
          /\ reg' = [reg EXCEPT ![sub[p][1]] = @ \ {sub[p][2]}]
       \/ Failed(p, sub[p][1]) /\ Mark(p) /\ UNCHANGED reg
    /\ rpcMu' = "free" /\ Go(p, After(p))
    /\ UNCHANGED <<env, chans, con, chDead, sub, old, loopCtx, users, stranded>>

LoopStep ==
    \/ LoopTop \/ ConsumeSend \/ Consumed \/ ConsumeFails
    \/ Clear \/ SpentSlot \/ SpentClosed
    \/ Offer \/ ForwardCancelled \/ DeliveriesEnd \/ Exit
    \/ WaitSignal \/ WaitEnds \/ WaitDead \/ WaitTimer \/ Check
    \/ OpenFails \/ Open \/ SetupReply \/ Install \/ Dropped
    \/ Slot \/ Retired \/ Probe \/ Report

LoopNext == LoopStep \/ Receive
CancelStep(p) ==
    CancelNeedless(p) \/ Cancel(p) \/ CancelSend(p) \/ CancelTimeout(p) \/ CancelReply(p)
CancelNext == \E p \in Apps \cup {"loop"} : CancelStep(p)

-----------------------------------------------------------------------------
(* Start, called by Consume, and the handlers. *)

Consume(a) ==  \* retryPendingCancel reads what is outstanding
    /\ pc[a] = "idle" /\ run < MaxRun
    /\ sub' = [sub EXCEPT ![a] = pending]
    /\ Go(a, IF pending = NoSub THEN "start" ELSE "cancel")
    /\ UNCHANGED <<env, chans, reg, rpcs, con, chDead, pending, old, loopCtx, users, stranded>>

Refused(a) ==  \* ErrConsumeFailed, ErrAlreadyConsuming, ErrConsumerTagInUse
    /\ pc[a] = "start"
    /\ closed \/ Running \/ TagOf(run + 1) = pending[2]
    /\ Go(a, "idle") /\ sub' = [sub EXCEPT ![a] = NoSub]
    /\ UNCHANGED <<env, chans, reg, rpcs, con, chDead, pending, old, loopCtx, users, stranded>>

Start(a) ==
    /\ pc[a] = "start" /\ run < MaxRun
    /\ ~closed /\ ~Running /\ TagOf(run + 1) # pending[2]
    /\ run' = run + 1 /\ cancelled' = FALSE
    /\ mine' = [mine EXCEPT ![a] = run + 1]
    /\ pc' = [pc EXCEPT ![a] = "add", !["loop"] = "top"]
    /\ sub' = [sub EXCEPT ![a] = NoSub, !["loop"] = <<0, TagOf(run + 1)>>]
    /\ UNCHANGED <<env, chans, reg, rpcs, con, chDead, pending, old,
                   ctxDone, idle, busy, closing, stranded>>

AddUnchecked(a) ==  \* mutant: c.closed is not looked at again
    /\ pc[a] = "add"
    /\ Go(a, "serving") /\ idle' = [idle EXCEPT ![mine[a]] = Concurrency]
    /\ UNCHANGED <<env, chans, reg, rpcs, con, chDead, pending, sub, old, loopCtx,
                   ctxDone, mine, busy, closing, stranded>>

Add(a) ==  \* handlerWg.Add under c.mu, never after Close has set c.closed
    /\ pc[a] = "add"
    /\ IF closed
         THEN Go(a, "idle") /\ mine' = [mine EXCEPT ![a] = 0] /\ UNCHANGED idle
         ELSE Go(a, "serving") /\ idle' = [idle EXCEPT ![mine[a]] = Concurrency]
              /\ UNCHANGED mine
    /\ UNCHANGED <<env, chans, reg, rpcs, con, chDead, pending, sub, old, loopCtx,
                   ctxDone, busy, closing, stranded>>

ConsumeReturns(a) ==  \* with the first handler to leave
    /\ pc[a] = "serving"
    /\ idle[mine[a]] + busy[mine[a]] < Concurrency
    /\ Go(a, "idle") /\ mine' = [mine EXCEPT ![a] = 0]
    /\ UNCHANGED <<env, chans, reg, rpcs, con, chDead, pending, sub, old, loopCtx,
                   ctxDone, idle, busy, closing, stranded>>

Handled(r) ==  \* processDelivery: handler, then ack or nack
    /\ busy[r] > 0
    /\ busy' = [busy EXCEPT ![r] = @ - 1] /\ idle' = [idle EXCEPT ![r] = @ + 1]
    /\ UNCHANGED <<env, chans, reg, rpcs, con, chDead, local, ctxDone, mine, closing, stranded>>

HandlerLeaves(r) ==  \* its context is cancelled, or outCh is closed
    /\ idle[r] > 0
    /\ r \in ctxDone \/ r < run \/ loop = "done"
    /\ idle' = [idle EXCEPT ![r] = @ - 1]
    /\ UNCHANGED <<env, chans, reg, rpcs, con, chDead, local, ctxDone, mine, busy, closing, stranded>>

UserCancels(r) ==  \* it matters to a loop, or a handler, that is still there
    /\ Interrupted /\ r \notin ctxDone
    /\ idle[r] + busy[r] > 0 \/ (r = run /\ Running)
    /\ ctxDone' = ctxDone \cup {r}
    /\ UNCHANGED <<env, chans, reg, rpcs, con, chDead, local, mine, idle, busy, closing, stranded>>

AppStep(a) == Refused(a) \/ Start(a) \/ Add(a) \/ ConsumeReturns(a)
AppNext(a) == Consume(a) \/ AppStep(a)
HandlerNext(r) == Handled(r) \/ HandlerLeaves(r)

-----------------------------------------------------------------------------
(* Stop and CloseWithContext. *)

(* The loop waits for the broker or for rpcMu: what the timeouts are for. *)
Blocked == loop \in {"lock", "consume", "spent", "spentClose", "open", "setup", "drop",
                     "slot", "retire", "cancelSlot", "cancelCall"}

Stop ==  \* it then waits, as Close does, which changes nothing here
    /\ Interrupted /\ Running /\ ~cancelled
    /\ cancelled' = TRUE
    /\ UNCHANGED <<env, chans, reg, rpcs, con, chDead, pending, pc, sub, old, run, users, stranded>>

Close ==  \* one section under c.mu
    /\ ~closed
    /\ closed' = TRUE /\ cancelled' = TRUE /\ close' = "loops"
    /\ Unsubscribe(Self)
    /\ UNCHANGED <<wire, chans, reg, rpcs, current, chDead, pending, pc, sub, old, run,
                   work, stopped, expired, stranded>>

CloseLoopsImpatient ==  \* mutant: it does not wait for the loops
    /\ close = "loops"
    /\ stopped' = TRUE
    /\ close' = IF Graceful THEN "drain" ELSE "look"
    /\ UNCHANGED <<env, chans, reg, rpcs, con, chDead, local, work, expired, stranded>>

CloseLoops ==  \* awaitConsumeLoopsStopped
    /\ close = "loops" /\ (~Running \/ Blocked)
    /\ stopped' = ~Running
    /\ close' = IF Graceful THEN "drain" ELSE "look"
    /\ UNCHANGED <<env, chans, reg, rpcs, con, chDead, local, work, expired, stranded>>

CloseDrained ==  \* handlerWg.Wait, or the context
    /\ close = "drain"
    /\ IF idle = NoHandlers /\ busy = NoHandlers THEN UNCHANGED expired
       ELSE Deadline /\ expired' = TRUE
    /\ close' = "look"
    /\ UNCHANGED <<env, chans, reg, rpcs, con, chDead, local, work, stopped, stranded>>

CloseLook ==
    /\ close = "look"
    /\ IF ~stopped
         THEN close' = "returned" /\ stranded' = stranded \cup ({current} \ {0})
         ELSE /\ UNCHANGED stranded
              /\ IF current = 0 THEN close' = "returned"
                 ELSE close' = "slot"
    /\ UNCHANGED <<env, chans, reg, rpcs, con, chDead, local, work, stopped, expired>>

CloseSlot ==
    /\ close = "slot" /\ rpcMu = "free"
    /\ rpcMu' = "close" /\ Send("close", current) /\ close' = "handshake"
    /\ UNCHANGED <<env, chans, reg, con, chDead, local, work, stopped, expired, stranded>>

CloseBusy ==  \* ErrChannelBusy: a call on the channel is still in flight
    /\ close = "slot" /\ HolderBusy
    /\ close' = "returned" /\ stranded' = stranded \cup {current}
    /\ UNCHANGED <<env, chans, reg, rpcs, con, chDead, local, work, stopped, expired>>

CloseClosed ==  \* closeChannelBounded; the reply may come when nobody waits
    /\ current # 0 /\ "close" \in calls[current]
    /\ CloseReply("close", current)
    /\ IF close = "handshake" THEN close' = "returned" /\ rpcMu' = "free"
       ELSE UNCHANGED <<close, rpcMu>>
    /\ UNCHANGED <<env, opened, home, watch, con, chDead, local, work, stopped, expired, stranded>>

CloseAbandoned ==
    /\ close = "handshake" /\ wire = "quiet" /\ Alive(current)
    /\ close' = "returned" /\ rpcMu' = "free"
    /\ UNCHANGED <<env, chans, reg, calls, con, chDead, local, work, stopped, expired, stranded>>

CloseNext ==
    \/ CloseLoops \/ CloseDrained \/ CloseLook
    \/ CloseSlot \/ CloseBusy \/ CloseClosed \/ CloseAbandoned

Next ==
    \/ Connection \/ WireFails
    \/ \E c \in Chans : ChanNext(c)
    \/ LoopNext \/ CancelNext
    \/ \E a \in Apps : AppNext(a)
    \/ \E r \in Runs : HandlerNext(r) \/ UserCancels(r)
    \/ Stop \/ Close \/ CloseNext

(* Goroutines keep running, timers fire, handlers come back, and a broker    *)
(* that answers does so in the end.  Nobody makes the broker send another    *)
(* message, but a select does not overlook a ready arm for ever.  A failed   *)
(* write, and a silent broker when heartbeats are on, end the connection.    *)
Fairness ==
    /\ WF_vars(Connection /\ Signal)
    /\ WF_vars(Connection /\ Lose /\ (wire = "broken" \/ (wire = "quiet" /\ Heartbeat)))
    /\ WF_vars(LoopStep) /\ SF_vars(Open) /\ SF_vars(ForwardCancelled \/ DeliveriesEnd)
    /\ WF_vars(CancelNext) /\ WF_vars(CloseNext)
    /\ \A a \in Apps : WF_vars(AppStep(a))
    /\ \A r \in Runs : WF_vars(HandlerNext(r))

Spec == Init /\ [][Next]_vars /\ Fairness
-----------------------------------------------------------------------------
(* Properties. *)

(* rpcMu (338-345): two synchronous calls outstanding on one channel can     *)
(* take each other's reply.  On a dead channel they all fail, whatever their *)
(* order.                                                                    *)
OneCallPerChannel == \A c \in Chans : Alive(c) => Cardinality(calls[c]) <= 1

(* setupChannel (440-469), consumeLoop (955-972), CloseWithContext: an open  *)
(* channel belongs to somebody who will use or close it, unless it was left  *)
(* on purpose because a call on it would not finish.                         *)
NoLeakedChannel == \A c \in Chans :
    Alive(c) /\ wire # "broken" =>
        \/ c = current /\ (close = "returned" => "close" \in calls[c])
        \/ c = fresh /\ loop \in {"setup", "install", "drop"}
        \/ c = old /\ loop \in {"slot", "retire"}
        \/ c = sub["loop"][1] /\ loop \in {"clear", "spent", "spentClose"}
        \/ c \in stranded

(* cancelSubscription (1450-1454): consuming with a tag that is still        *)
(* registered on the channel is answered with a 530 that takes down every    *)
(* publisher and consumer on the connection.                                 *)
NoTagReuse ==
    loop = "consume" /\ Alive(sub["loop"][1]) => sub["loop"][2] \notin reg[sub["loop"][1]]

(* Stop (1260-1278): once the loop is gone nothing is still registered at    *)
(* the broker, except what a failed cancel has put on record for the next    *)
(* Start.  Close relies on the channel being closed instead.                 *)
NothingLeftRegistered ==
    loop = "done" /\ ~closed =>
        \A c \in Chans, t \in Runs : Alive(c) /\ t \in reg[c] => pending = <<c, t>>

(* CloseWithContext (1457-1459): what cancelSubscription leaves out for a    *)
(* closing consumer, closing the channel does "anyway": when both have ended *)
(* nothing is registered any more.  (Not when Close returned ErrChannelBusy  *)
(* and left the channel open.)                                               *)
CloseDropsRegistrations ==
    loop \in {"none", "done"} /\ close = "returned" =>
        \A c \in Chans : Alive(c) /\ "close" \notin calls[c] /\ wire # "broken" => reg[c] = {}

(* Close (1287-1288), Consume (1055-1066): when a graceful Close has waited  *)
(* for the handlers none is left, and none starts afterwards.                *)
Drained ==
    Graceful /\ close \notin {"idle", "loops", "drain"} /\ ~expired =>
        idle = NoHandlers /\ busy = NoHandlers

(* Close (1309-1312): once Close has returned no handler gets a delivery,    *)
(* if the loop was seen to stop ...                                          *)
SilentOnceStopped == [][close = "returned" /\ stopped => ~Offer]_vars

(* ... and, as it says, "regardless".                                        *)
SilentOnceClosed == [][close = "returned" => ~Offer]_vars

(* Consume (1036-1039): consumption resumes after a lost connection, a       *)
(* broken channel or a deleted queue, as long as somebody wants it to and    *)
(* connection and broker allow it, or a channel is asked for beyond the      *)
(* bound: one that was opened is consumed from, or replaced.                 *)
Resumes == []<>(
    \/ ~Running \/ Done \/ loop = "forward" \/ ~up \/ wire # "ok"
    \/ loop = "open" /\ opened = MaxChan)

(* Close (1305-1307): "It always returns."                                   *)
CloseReturns == closed ~> close = "returned"
=============================================================================

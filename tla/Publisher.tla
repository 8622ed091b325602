----------------------------- MODULE Publisher -----------------------------
(***************************************************************************)
(* Publisher (publisher.go): the goroutine that keeps it supplied with a   *)
(* usable channel, the watcher of each channel (watchChannelClose in       *)
(* rabbitmq.go), the callers that issue synchronous calls on the channel,  *)
(* and Close.  The connection underneath is the one Link promises.         *)
(*                                                                         *)
(* NewPublisher is the first round of the loop: the publisher is already   *)
(* subscribed, and until that round succeeds nobody else has a reference   *)
(* to it.  Channels are numbered in the order they are opened.  p.mu is    *)
(* only ever held for a few assignments, so each section under it is one   *)
(* step; p.rpcMu is held across calls to the broker, so it is a variable.  *)
(*                                                                         *)
(* Publishing itself is an asynchronous send, and its only effect on this  *)
(* state is that the broker may close the channel for it: Exception.       *)
(***************************************************************************)
EXTENDS Link, FiniteSets

CONSTANTS Self,        \* this publisher
          Callers,     \* goroutines in DeclareExchange or PublishDelayed
          MaxChan,     \* bound: channels ever opened
          SetupCalls   \* calls of one setup: confirm.select, the declares

ASSUME PublisherAssumption ==
    /\ Self \in Subs
    /\ MaxChan \in Nat \ {0}
    /\ SetupCalls \in Nat
    /\ Callers \cap {"free", "loop", "close"} = {}

VARIABLES quiet,      \* the broker has stopped answering
          opened,     \* channels opened so far
          state,      \* per channel, what the protocol made of it
          home,       \* per channel, the connection it was opened on
          watch,      \* per channel, where its watcher is
          calls,      \* per channel, who has a call outstanding on it
          rpcMu,      \* who holds p.rpcMu
          current,    \* p.channel, 0 for nil
          closed,     \* p.closed; p.reconnectCh is closed with it
          chDead,     \* p.chDeadCh holds a signal
          loop,       \* where handleReconnect, or setupChannel for it, is
          why,        \* what started the setup in progress
          retry,      \* its retry timer is armed
          left,       \* calls this setup has still to make
          old,        \* the channel this setup has replaced
          caller,     \* where each caller is
          using,      \* the channel each caller captured
          close,      \* where Close is
          stranded    \* channels deliberately left open

env == <<linkVars, quiet>>
chans == <<opened, state, home, watch>>
pub == <<current, closed>>
loopVars == <<chDead, loop, why, retry, left, old>>
userVars == <<caller, using, close>>
vars == <<env, chans, calls, rpcMu, pub, loopVars, userVars, stranded>>

Chans == 1..MaxChan
Procs == Callers \cup {"loop", "close"}
LoopPoints == {"select", "check", "open", "setup", "setupCall", "install", "drop",
               "slot", "retire", "probe", "report", "done"}

Typing ==
    /\ LinkTypeOK /\ quiet \in BOOLEAN
    /\ opened \in 0..MaxChan
    /\ state \in [Chans -> {"none", "open", "failed", "closed"}]
    /\ home \in [Chans -> 0..MaxGen]
    /\ watch \in [Chans -> {"none", "armed", "reporting", "done"}]
    /\ calls \in [Chans -> SUBSET Procs]
    /\ rpcMu \in Procs \cup {"free"}
    /\ current \in 0..MaxChan /\ closed \in BOOLEAN
    /\ chDead \in BOOLEAN /\ loop \in LoopPoints
    /\ why \in {"new", "idle", "signal", "dead", "retry"} /\ retry \in BOOLEAN
    /\ left \in 0..SetupCalls /\ old \in 0..MaxChan
    /\ caller \in [Callers -> {"idle", "waiting", "holding", "calling"}]
    /\ using \in [Callers -> 0..MaxChan]
    /\ close \in {"idle", "slot", "handshake", "done", "busy"}
    /\ stranded \subseteq Chans

(* A reconnect channel nobody reads any more is not registered.              *)
Unheard == closed \/ loop \in {"drop", "done"} => Self \notin listed

(* Everything has its type, and p.reconnectCh a reader as long as the        *)
(* connection knows it: NewPublisher (158-161) takes it back when it fails.  *)
TypeOK == Typing /\ Unheard

Init ==
    /\ gen = 1 /\ up = TRUE /\ over = FALSE /\ owed = FALSE
    /\ listed = {Self} /\ signalled = {}
    /\ quiet = FALSE
    /\ opened = 0
    /\ state = [c \in Chans |-> "none"]
    /\ home = [c \in Chans |-> 0]
    /\ watch = [c \in Chans |-> "none"]
    /\ calls = [c \in Chans |-> {}]
    /\ rpcMu = "free"
    /\ current = 0 /\ closed = FALSE
    /\ chDead = FALSE /\ loop = "open" /\ why = "new" /\ retry = FALSE
    /\ left = 0 /\ old = 0
    /\ caller = [u \in Callers |-> "idle"]
    /\ using = [u \in Callers |-> 0]
    /\ close = "idle"
    /\ stranded = {}

Alive(c) == c # 0 /\ state[c] = "open" /\ home[c] = gen /\ up
fresh == opened                 \* the channel of the setup in progress
Built == why # "new"             \* NewPublisher has returned the publisher

(* A call is sent on channel c, and comes back; it fails at once, or as soon *)
(* as the channel dies, so it never outlives it.                             *)
Send(p, c) == calls' = [calls EXCEPT ![c] = @ \cup {p}]
Return(p, c) ==
    /\ p \in calls[c] /\ (Alive(c) => ~quiet)
    /\ calls' = [calls EXCEPT ![c] = @ \ {p}]
CloseReply(p, c) ==
    /\ Return(p, c)
    /\ state' = IF Alive(c) THEN [state EXCEPT ![c] = "closed"] ELSE state

-----------------------------------------------------------------------------
(* The connection and the broker. *)

Connection ==
    /\ LinkEnv
    /\ quiet' = (quiet /\ up' /\ gen' = gen)
    /\ UNCHANGED <<chans, calls, rpcMu, pub, loopVars, userVars, stranded>>

GoQuiet ==
    /\ up /\ ~quiet
    /\ quiet' = TRUE
    /\ UNCHANGED <<linkVars, chans, calls, rpcMu, pub, loopVars, userVars, stranded>>

(* The broker closes a channel for what was published or declared on it. *)
Exception(c) ==
    /\ Alive(c) /\ ~quiet
    /\ state' = [state EXCEPT ![c] = "failed"]
    /\ UNCHANGED <<env, opened, home, watch, calls, rpcMu, pub, loopVars, userVars, stranded>>

(* watchChannelClose's goroutine: a channel the publisher closed, or whose   *)
(* connection was closed by its owner, ends it; any other death is reported  *)
(* if the channel is still the current one.                                  *)
WatchEnds(c) ==
    /\ watch[c] = "armed" /\ ~Alive(c)
    /\ state[c] # "failed" \/ current # c \/ closed
    /\ watch' = [watch EXCEPT ![c] = "done"]
    /\ UNCHANGED <<env, opened, state, home, calls, rpcMu, pub, loopVars, userVars, stranded>>

WatchSees(c) ==
    /\ watch[c] = "armed" /\ ~Alive(c) /\ state[c] # "closed"
    /\ current = c /\ ~closed
    /\ watch' = [watch EXCEPT ![c] = "reporting"]
    /\ UNCHANGED <<env, opened, state, home, calls, rpcMu, pub, loopVars, userVars, stranded>>

WatchReports(c) ==
    /\ watch[c] = "reporting"
    /\ watch' = [watch EXCEPT ![c] = "done"]
    /\ chDead' = TRUE
    /\ UNCHANGED <<env, opened, state, home, calls, rpcMu, pub, loop, why, retry, left, old, userVars, stranded>>

-----------------------------------------------------------------------------
(* handleReconnect. *)

Begin(reason) == loop' = "check" /\ why' = reason /\ retry' = FALSE

SelectSignal ==  \* <-p.reconnectCh; a buffered signal precedes its closing
    /\ loop = "select" /\ Take(Self)
    /\ Begin("signal")
    /\ UNCHANGED <<quiet, chans, calls, rpcMu, pub, chDead, left, old, userVars, stranded>>

SelectShut ==
    /\ loop = "select" /\ closed /\ Self \notin signalled
    /\ loop' = "done"
    /\ UNCHANGED <<env, chans, calls, rpcMu, pub, chDead, why, retry, left, old, userVars, stranded>>

SelectDeadTrusting ==  \* mutant: acts on the signal, whatever the channel's state
    /\ loop = "select" /\ chDead
    /\ chDead' = FALSE
    /\ Begin("dead")
    /\ UNCHANGED <<env, chans, calls, rpcMu, pub, left, old, userVars, stranded>>

SelectDead ==  \* <-p.chDeadCh, ignored unless channelDead
    /\ loop = "select" /\ chDead
    /\ chDead' = FALSE
    /\ IF Alive(current) THEN UNCHANGED <<loop, why, retry>> ELSE Begin("dead")
    /\ UNCHANGED <<env, chans, calls, rpcMu, pub, left, old, userVars, stranded>>

SelectRetry ==
    /\ loop = "select" /\ retry
    /\ Begin("retry")
    /\ UNCHANGED <<env, chans, calls, rpcMu, pub, chDead, left, old, userVars, stranded>>

Check ==
    /\ loop = "check"
    /\ loop' = IF closed THEN "done" ELSE "open"
    /\ UNCHANGED <<env, chans, calls, rpcMu, pub, chDead, why, retry, left, old, userVars, stranded>>

-----------------------------------------------------------------------------
(* setupChannel. *)

SetupFailsSubscribed ==  \* mutant: NewPublisher fails and stays registered
    /\ \/ loop = "open" /\ ~quiet /\ UNCHANGED <<calls, state>>
       \/ loop = "setupCall" /\ Return("loop", fresh)
          /\ state' = IF Alive(fresh) THEN [state EXCEPT ![fresh] = "failed"] ELSE state
    /\ IF Built
         THEN loop' = "select" /\ why' = "idle" /\ retry' = TRUE
         ELSE loop' = "done" /\ UNCHANGED <<why, retry>>
    /\ left' = 0
    /\ UNCHANGED <<linkVars, quiet, opened, home, watch, rpcMu, pub, chDead, old, userVars, stranded>>

SetupFailsForgotten ==  \* mutant: the failure is logged, no retry is armed
    /\ \/ loop = "open" /\ ~quiet /\ UNCHANGED <<calls, state>>
       \/ loop = "setupCall" /\ Return("loop", fresh)
          /\ state' = IF Alive(fresh) THEN [state EXCEPT ![fresh] = "failed"] ELSE state
    /\ IF Built
         THEN loop' = "select" /\ why' = "idle" /\ UNCHANGED <<retry, listed>>
         ELSE loop' = "done" /\ listed' = listed \ {Self} /\ UNCHANGED <<why, retry>>
    /\ left' = 0
    /\ UNCHANGED <<gen, up, over, owed, signalled, quiet, opened, home, watch, rpcMu,
                   pub, chDead, old, userVars, stranded>>

(* conn.Channel fails, on a lost connection (ErrNotConnected) or on a live   *)
(* one that has no channel to give; or a call on the new channel fails: the  *)
(* broker closes it for that, or it died with its connection.  NewPublisher  *)
(* gives up; the loop arms its timer.                                        *)
SetupFails ==
    /\ \/ loop = "open" /\ ~quiet /\ UNCHANGED <<calls, state>>
       \/ loop = "setupCall" /\ Return("loop", fresh)
          /\ state' = IF Alive(fresh) THEN [state EXCEPT ![fresh] = "failed"] ELSE state
    /\ IF Built
         THEN loop' = "select" /\ why' = "idle" /\ retry' = TRUE /\ UNCHANGED listed
         ELSE loop' = "done" /\ listed' = listed \ {Self} /\ UNCHANGED <<why, retry>>
    /\ left' = 0
    /\ UNCHANGED <<gen, up, over, owed, signalled, quiet, opened, home, watch, rpcMu,
                   pub, chDead, old, userVars, stranded>>

Open ==  \* conn.Channel waits for the broker, and for a dial that holds c.mu
    /\ loop = "open" /\ up /\ ~quiet /\ opened < MaxChan
    /\ opened' = opened + 1
    /\ state' = [state EXCEPT ![opened + 1] = "open"]
    /\ home' = [home EXCEPT ![opened + 1] = gen]
    /\ left' = SetupCalls /\ loop' = "setup"
    /\ UNCHANGED <<env, watch, calls, rpcMu, pub, chDead, why, retry, old, userVars, stranded>>

Setup ==
    /\ loop = "setup"
    /\ IF left = 0 THEN loop' = "install" /\ UNCHANGED calls
       ELSE loop' = "setupCall" /\ Send("loop", fresh)
    /\ UNCHANGED <<env, chans, rpcMu, pub, chDead, why, retry, left, old, userVars, stranded>>

SetupReply ==
    /\ loop = "setupCall" /\ Alive(fresh) /\ Return("loop", fresh)
    /\ left' = left - 1 /\ loop' = "setup"
    /\ UNCHANGED <<env, chans, rpcMu, pub, chDead, why, retry, old, userVars, stranded>>

InstallAnyway ==  \* mutant: p.closed is not looked at again
    /\ loop = "install"
    /\ loop' = IF current = 0 THEN "probe" ELSE "slot"
    /\ current' = fresh /\ old' = current
    /\ UNCHANGED <<env, chans, calls, rpcMu, closed, chDead, why, retry, left, userVars, stranded>>

Install ==  \* under p.mu; a publisher closed meanwhile gets no channel
    /\ loop = "install"
    /\ IF closed
         THEN loop' = "drop" /\ Send("loop", fresh) /\ UNCHANGED <<current, old>>
         ELSE /\ loop' = IF current = 0 THEN "probe" ELSE "slot"
              /\ current' = fresh /\ old' = current
              /\ UNCHANGED calls
    /\ UNCHANGED <<env, chans, rpcMu, closed, chDead, why, retry, left, userVars, stranded>>

Dropped ==  \* ErrShuttingDown ends the loop
    /\ loop = "drop" /\ CloseReply("loop", fresh)
    /\ loop' = "done"
    /\ UNCHANGED <<env, opened, home, watch, rpcMu, pub, chDead, why, retry, left, old, userVars, stranded>>

SlotIgnored ==  \* mutant: the replaced channel is closed without taking rpcMu
    /\ loop = "slot"
    /\ loop' = "retire" /\ UNCHANGED rpcMu /\ Send("loop", old)
    /\ UNCHANGED <<env, chans, pub, chDead, why, retry, left, old, userVars, stranded>>

Slot ==  \* acquireChannelSlot, then old.Close()
    /\ loop = "slot" /\ rpcMu = "free"
    /\ rpcMu' = "loop" /\ Send("loop", old) /\ loop' = "retire"
    /\ UNCHANGED <<env, chans, pub, chDead, why, retry, left, old, userVars, stranded>>

SlotTimeout ==  \* a call is still in flight: the old channel stays open
    /\ loop = "slot" /\ rpcMu # "free"
    /\ stranded' = stranded \cup {old} /\ old' = 0 /\ loop' = "probe"
    /\ UNCHANGED <<env, chans, calls, rpcMu, pub, chDead, why, retry, left, userVars>>

Retired ==
    /\ loop = "retire" /\ CloseReply("loop", old)
    /\ rpcMu' = "free" /\ old' = 0 /\ loop' = "probe"
    /\ UNCHANGED <<env, opened, home, watch, pub, chDead, why, retry, left, userVars, stranded>>

(* watchChannelClose in the loop's goroutine: NotifyClose is registered,     *)
(* then the channel is tested, so no death falls between the two.            *)
ProbeSkipped ==  \* mutant: a channel dead at registration is not noticed
    /\ loop = "probe"
    /\ watch' = [watch EXCEPT ![fresh] = IF Alive(fresh) THEN "armed" ELSE "done"]
    /\ loop' = "select" /\ why' = "idle"
    /\ UNCHANGED <<env, opened, state, home, calls, rpcMu, pub, chDead, retry, left, old, userVars, stranded>>

Probe ==
    /\ loop = "probe"
    /\ watch' = [watch EXCEPT ![fresh] = IF Alive(fresh) THEN "armed" ELSE "done"]
    /\ IF ~Alive(fresh) /\ current = fresh /\ ~closed
         THEN loop' = "report" /\ UNCHANGED why
         ELSE loop' = "select" /\ why' = "idle"
    /\ UNCHANGED <<env, opened, state, home, calls, rpcMu, pub, chDead, retry, left, old, userVars, stranded>>

Report ==
    /\ loop = "report"
    /\ chDead' = TRUE /\ loop' = "select" /\ why' = "idle"
    /\ UNCHANGED <<env, chans, calls, rpcMu, pub, retry, left, old, userVars, stranded>>

SetupNext ==
    \/ SetupFails \/ Open \/ Setup \/ SetupReply \/ Install \/ Dropped
    \/ Slot \/ SlotTimeout \/ Retired \/ Probe \/ Report

LoopNext ==
    \/ SelectSignal \/ SelectShut \/ SelectDead \/ SelectRetry \/ Check
    \/ SetupNext

-----------------------------------------------------------------------------
(* withChannel: DeclareExchange, and the holding queue of a delayed publish. *)

Call(u) ==
    /\ Built
    /\ caller[u] = "idle"
    /\ caller' = [caller EXCEPT ![u] = "waiting"]
    /\ UNCHANGED <<env, chans, calls, rpcMu, pub, loopVars, using, close, stranded>>

CallLock(u) ==
    /\ caller[u] = "waiting" /\ rpcMu = "free"
    /\ rpcMu' = u /\ caller' = [caller EXCEPT ![u] = "holding"]
    /\ UNCHANGED <<env, chans, calls, pub, loopVars, using, close, stranded>>

CallSend(u) ==  \* p.channel and p.closed, read with rpcMu held
    /\ caller[u] = "holding"
    /\ IF closed \/ current = 0
         THEN rpcMu' = "free" /\ caller' = [caller EXCEPT ![u] = "idle"]
              /\ UNCHANGED <<calls, using>>
         ELSE /\ caller' = [caller EXCEPT ![u] = "calling"]
              /\ using' = [using EXCEPT ![u] = current]
              /\ Send(u, current) /\ UNCHANGED rpcMu
    /\ UNCHANGED <<env, chans, pub, loopVars, close, stranded>>

CallReturn(u) ==
    /\ caller[u] = "calling" /\ Return(u, using[u])
    /\ rpcMu' = "free" /\ caller' = [caller EXCEPT ![u] = "idle"]
    /\ using' = [using EXCEPT ![u] = 0]
    /\ UNCHANGED <<env, chans, pub, loopVars, close, stranded>>

-----------------------------------------------------------------------------
(* Close. *)

Close ==  \* one section under p.mu
    /\ Built /\ ~closed /\ close = "idle" /\ current # 0
    /\ closed' = TRUE /\ close' = "slot"
    /\ Unsubscribe(Self)
    /\ UNCHANGED <<quiet, chans, calls, rpcMu, current, loopVars, caller, using, stranded>>

CloseSlot ==
    /\ close = "slot" /\ rpcMu = "free"
    /\ rpcMu' = "close" /\ Send("close", current) /\ close' = "handshake"
    /\ UNCHANGED <<env, chans, pub, loopVars, caller, using, stranded>>

CloseBusy ==  \* ErrChannelBusy: the channel is left to the connection
    /\ close = "slot" /\ rpcMu # "free"
    /\ close' = "busy" /\ stranded' = stranded \cup {current}
    /\ UNCHANGED <<env, chans, calls, rpcMu, pub, loopVars, caller, using>>

CloseClosed ==  \* also when nobody waits for the reply any more
    /\ close \in {"handshake", "done"} /\ CloseReply("close", current)
    /\ close' = "done"
    /\ rpcMu' = IF close = "handshake" THEN "free" ELSE rpcMu
    /\ UNCHANGED <<env, opened, home, watch, pub, loopVars, caller, using, stranded>>

CloseAbandoned ==  \* closeTimeout: Close returns, its call stays outstanding
    /\ close = "handshake" /\ "close" \in calls[current]
    /\ close' = "done" /\ rpcMu' = "free"
    /\ UNCHANGED <<env, chans, calls, pub, loopVars, caller, using, stranded>>

-----------------------------------------------------------------------------
ChanNext(c) == Exception(c) \/ WatchEnds(c) \/ WatchSees(c) \/ WatchReports(c)
CallerNext(u) == Call(u) \/ CallLock(u) \/ CallSend(u) \/ CallReturn(u)
CloseNext == Close \/ CloseSlot \/ CloseBusy \/ CloseClosed \/ CloseAbandoned

Next ==
    \/ Connection \/ GoQuiet
    \/ \E c \in Chans : ChanNext(c)
    \/ LoopNext
    \/ \E u \in Callers : CallerNext(u)
    \/ CloseNext

(* The connection's and the publisher's goroutines keep running, timers fire, *)
(* and a broker that answers does so in the end.  Strongly fair, as an        *)
(* assumption on the environment: conn.Channel does not fail every time.      *)
(* Callers and Close owe nothing: whoever waits for rpcMu in the loop has a   *)
(* timeout.                                                                   *)
Fairness ==
    /\ WF_vars(Connection /\ Signal)
    /\ WF_vars(LoopNext) /\ SF_vars(Open)
    /\ WF_vars(\E c \in Chans : WatchEnds(c) \/ WatchSees(c) \/ WatchReports(c))

Spec == Init /\ [][Next]_vars /\ Fairness
-----------------------------------------------------------------------------
(* Properties. *)

(* rpcMu (118-127): amqp091 does not serialise synchronous calls, so two     *)
(* outstanding on one channel can take each other's reply.                   *)
OneCallPerChannel == \A c \in Chans : Cardinality(calls[c]) <= 1

(* setupChannel (244-269), Close (617-651): a channel that is open belongs   *)
(* to somebody who will use or close it, unless it was left on purpose       *)
(* because a call on it would not finish.                                    *)
NoLeakedChannel == \A c \in Chans :
    Alive(c) => \/ c = current /\ (closed => close = "slot" \/ "close" \in calls[c])
                \/ c = fresh /\ loop \in {"setup", "setupCall", "install", "drop"}
                \/ c = old /\ loop \in {"slot", "retire"}
                \/ c \in stranded

(* handleReconnect (322-331), watchChannelClose (688-699): while the         *)
(* connection is up, a publisher without a usable channel always has a       *)
(* wake-up on its way: a signal, a report or a timer.                        *)
WakeUpPending ==
    loop = "select" /\ ~closed /\ up /\ ~Alive(current) =>
        \/ retry \/ chDead \/ owed \/ Self \in signalled
        \/ current # 0 /\ watch[current] \in {"armed", "reporting"}

(* "the state of the current channel decides, not the signal" (347-352): a   *)
(* report of a channel's death sets nothing up beside a healthy channel, from*)
(* the moment the report is taken to that of the replacement.                *)
StaleReportHarmless ==
    why = "dead" /\ loop \in {"check", "open", "setup", "setupCall", "install"} =>
        ~Alive(current)

(* The same said of every wake-up, as the comment does not restrict it.      *)
HealthyChannelStays == [][~(current' # current /\ Alive(current))]_vars

(* A publisher that has lost its channel gets another, as long as the        *)
(* connection and the broker allow it, or asks for one beyond the bound.     *)
Heals == []<>(
    \/ ~Built /\ loop = "done"
    \/ Alive(current) \/ closed \/ ~up \/ quiet
    \/ loop = "open" /\ opened = MaxChan)
=============================================================================

----------------------------- MODULE Connection -----------------------------
(***************************************************************************)
(* Connection (rabbitmq.go): the reconnect goroutine, the read-write lock  *)
(* it shares with the callers of the API, its callbacks, and the channels  *)
(* on which publishers and consumers wait for news of a reconnection.      *)
(*                                                                         *)
(* The initial state is the one NewConnection returns in: connected, the   *)
(* loop waiting in its select.  The lock c.mu is exclusive for connect()   *)
(* (held for the whole dial), for Close (held for the whole bounded        *)
(* close) and for the setters; it is shared for Channel, which holds it    *)
(* for the whole channel.open round trip, and for short reads.  Which of   *)
(* several waiters gets it next is left open; that none of them is passed  *)
(* over for ever is sync.RWMutex's promise, and strong fairness below.     *)
(*                                                                         *)
(* c.notifyCh can be received from exactly when the current connection is  *)
(* closed, so it is not a variable: the loop tests ~up.                    *)
(***************************************************************************)
EXTENDS Naturals

CONSTANTS Closers,      \* goroutines that call Connection.Close
          Callers,      \* goroutines that call Channel or IsHealthy
          Subs,         \* publishers and consumers
          MaxGen,       \* bound: connections ever established
          MaxAttempts,  \* Config.MaxReconnectAttempts, 0 for no limit
          Heartbeat     \* heartbeats are on: a silent broker is noticed

ASSUME ConnectionAssumption ==
    /\ MaxGen \in Nat \ {0}
    /\ MaxAttempts \in Nat
    /\ Heartbeat \in BOOLEAN
    /\ "free" \notin Closers /\ "loop" \notin Closers
    /\ Closers \cap Callers = {}

VARIABLES gen,         \* which connection c.conn is
          up,          \* c.conn is open
          quiet,       \* its broker has stopped answering
          closed,      \* c.closed; c.closeCh is closed with it
          mu,          \* who holds c.mu exclusively
          loop,        \* where handleReconnect is
          attempt,     \* its loop counter, kept at 0 when attempts are unlimited
          captured,    \* the OnDisconnect it read, if one was set
          user,        \* where each closer and caller is
          registered,  \* the callbacks set so far
          told,        \* per connection, what became of OnDisconnect
          aborted,     \* what became of OnReconnectAborted
          owner,       \* where each publisher or consumer is
          listed,      \* c.subscribers
          signal,      \* whose reconnect channel holds a signal
          shut         \* whose reconnect channel has been closed

link == <<gen, up, quiet>>
locks == <<closed, mu>>
calls == <<captured, registered, told, aborted>>
subs == <<owner, listed, signal, shut>>
vars == <<link, locks, loop, attempt, user, calls, subs>>

Callbacks == {"OnDisconnect", "OnReconnectAborted"}
Fates == {"no", "nil", "called", "twice"}
LoopPoints == {"select", "lost", "telling", "attempt", "backoff", "connect",
               "dialing", "notify", "aborting", "done"}
CloserPoints == {"idle", "lock", "closing", "done"}
CallerPoints == {"idle", "waiting", "opening",
                 "asking", "trying", "probing", "closing"}
OwnerPoints == {"new", "subscribed", "leaving", "gone"}

TypeOK ==
    /\ gen \in 1..MaxGen /\ up \in BOOLEAN /\ quiet \in BOOLEAN
    /\ closed \in BOOLEAN
    /\ mu \in {"free", "loop"} \cup Closers
    /\ loop \in LoopPoints
    /\ attempt \in 0..MaxAttempts
    /\ captured \subseteq {"OnDisconnect"}
    /\ user \in [Closers \cup Callers -> CloserPoints \cup CallerPoints]
    /\ registered \subseteq Callbacks
    /\ told \in [1..MaxGen -> Fates]
    /\ aborted \in Fates
    /\ owner \in [Subs -> OwnerPoints]
    /\ listed \subseteq Subs /\ signal \subseteq Subs /\ shut \subseteq Subs

Init ==
    /\ gen = 1 /\ up = TRUE /\ quiet = FALSE
    /\ closed = FALSE /\ mu = "free"
    /\ loop = "select" /\ attempt = 0
    /\ captured = {} /\ registered = {}
    /\ user = [u \in Closers \cup Callers |-> "idle"]
    /\ told = [g \in 1..MaxGen |-> "no"] /\ aborted = "no"
    /\ owner = [s \in Subs |-> "new"]
    /\ listed = {} /\ signal = {} /\ shut = {}

(* Channel and IsHealthy's probe keep the read lock for the round trip. *)
Reading == \E u \in Callers : user[u] \in {"opening", "probing"}
CanRead == mu = "free"
CanWrite == mu = "free" /\ ~Reading

(* A callback slot is nil unless something was registered in it. *)
Fate(before, set) ==
    IF ~set THEN IF before = "no" THEN "nil" ELSE before
    ELSE IF before = "called" THEN "twice" ELSE "called"

-----------------------------------------------------------------------------
(* The broker and the network. *)

(* The transport breaks, or the broker sends connection.close. *)
Lose ==
    /\ up
    /\ up' = FALSE /\ quiet' = FALSE
    /\ UNCHANGED <<gen, locks, loop, attempt, user, calls, subs>>

(* The broker is paused, or the network drops everything without a reset. *)
GoQuiet ==
    /\ up /\ ~quiet
    /\ quiet' = TRUE
    /\ UNCHANGED <<gen, up, locks, loop, attempt, user, calls, subs>>

(* amqp091 gives up on a connection whose heartbeats are missing. *)
HeartbeatLoss == Heartbeat /\ quiet /\ Lose

-----------------------------------------------------------------------------
(* handleReconnect, one action per step between two points it can wait at. *)

LoopStop ==  \* <-c.closeCh, in either select
    /\ loop \in {"select", "backoff"} /\ closed
    /\ loop' = "done"
    /\ UNCHANGED <<link, locks, attempt, user, calls, subs>>

LoopLost ==  \* <-c.notifyCh
    /\ loop = "select" /\ ~up
    /\ loop' = "lost"
    /\ UNCHANGED <<link, locks, attempt, user, calls, subs>>

LoopCheck ==  \* c.closed and c.onDisconnect, read under c.mu
    /\ loop = "lost" /\ CanRead
    /\ IF closed
         THEN loop' = "done" /\ UNCHANGED captured
         ELSE loop' = "telling" /\ captured' = registered \cap {"OnDisconnect"}
    /\ UNCHANGED <<link, locks, attempt, user, registered, told, aborted, subs>>

LoopTell ==
    /\ loop = "telling"
    /\ told' = [told EXCEPT ![gen] = Fate(@, captured # {})]
    /\ loop' = "attempt" /\ attempt' = 0
    /\ UNCHANGED <<link, locks, user, captured, registered, aborted, subs>>

LoopAttemptOneMore ==  \* mutant: attempt > MaxAttempts
    /\ loop = "attempt"
    /\ loop' = IF MaxAttempts > 0 /\ attempt > MaxAttempts
                 THEN "aborting" ELSE "backoff"
    /\ UNCHANGED <<link, locks, attempt, user, calls, subs>>

LoopAttempt ==
    /\ loop = "attempt"
    /\ loop' = IF MaxAttempts > 0 /\ attempt >= MaxAttempts
                 THEN "aborting" ELSE "backoff"
    /\ UNCHANGED <<link, locks, attempt, user, calls, subs>>

LoopTimer ==  \* <-time.After(delay), which may win against a closed closeCh
    /\ loop = "backoff"
    /\ loop' = "connect"
    /\ UNCHANGED <<link, locks, attempt, user, calls, subs>>

LoopLockShared ==  \* mutant: connect takes the lock for reading
    /\ loop = "connect" /\ CanRead
    /\ loop' = "dialing" /\ mu' = "loop"
    /\ UNCHANGED <<link, closed, attempt, user, calls, subs>>

LoopLock ==  \* connect takes c.mu, and does not look at c.closed
    /\ loop = "connect" /\ CanWrite
    /\ loop' = "dialing" /\ mu' = "loop"
    /\ UNCHANGED <<link, closed, attempt, user, calls, subs>>

DialOkSilent(alive) ==  \* mutant: no signal for a connection dead on arrival
    /\ loop = "dialing" /\ gen < MaxGen
    /\ gen' = gen + 1 /\ up' = alive /\ quiet' = FALSE
    /\ loop' = (IF alive THEN "notify" ELSE "select") /\ mu' = "free"
    /\ UNCHANGED <<closed, attempt, user, calls, subs>>

(* The new connection may be dead before NotifyClose is registered on it. *)
DialOk(alive) ==
    /\ loop = "dialing" /\ gen < MaxGen
    /\ gen' = gen + 1 /\ up' = alive /\ quiet' = FALSE
    /\ loop' = "notify" /\ mu' = "free"
    /\ UNCHANGED <<closed, attempt, user, calls, subs>>

DialFailsLocked ==  \* mutant: the error path returns without unlocking
    /\ loop = "dialing"
    /\ attempt' = IF MaxAttempts > 0 THEN attempt + 1 ELSE 0
    /\ loop' = "attempt"
    /\ UNCHANGED <<link, locks, user, calls, subs>>

DialFailsTelling ==  \* mutant: OnDisconnect is called inside the attempt loop
    /\ loop = "dialing"
    /\ attempt' = IF MaxAttempts > 0 THEN attempt + 1 ELSE 0
    /\ loop' = "telling" /\ mu' = "free"
    /\ UNCHANGED <<link, closed, user, calls, subs>>

DialFails ==  \* anything but a refusal, a timeout included
    /\ loop = "dialing"
    /\ attempt' = IF MaxAttempts > 0 THEN attempt + 1 ELSE 0
    /\ loop' = "attempt" /\ mu' = "free"
    /\ UNCHANGED <<link, closed, user, calls, subs>>

DialRefused ==  \* dialErrorIsPermanent
    /\ loop = "dialing"
    /\ loop' = "aborting" /\ mu' = "free"
    /\ UNCHANGED <<link, closed, attempt, user, calls, subs>>

LoopNotify ==  \* notifySubscribers: a full buffer is left as it is
    /\ loop = "notify"
    /\ signal' = signal \cup listed
    /\ loop' = "select"
    /\ UNCHANGED <<link, locks, attempt, user, calls, owner, listed, shut>>

LoopAbort ==  \* abortCallback reads the slot now, not at the loss
    /\ loop = "aborting" /\ CanRead
    /\ aborted' = Fate(aborted, "OnReconnectAborted" \in registered)
    /\ loop' = "done"
    /\ UNCHANGED <<link, locks, attempt, user, captured, registered, told, subs>>

Dial == (\E alive \in BOOLEAN : DialOk(alive)) \/ DialFails \/ DialRefused

LoopNext ==
    \/ LoopStop \/ LoopLost \/ LoopCheck \/ LoopTell \/ LoopAttempt
    \/ LoopTimer \/ LoopLock \/ Dial \/ LoopNotify \/ LoopAbort

-----------------------------------------------------------------------------
(* The users of the connection. *)

Register(cb) ==  \* OnDisconnect, OnReconnectAborted
    /\ CanWrite /\ cb \notin registered
    /\ registered' = registered \cup {cb}
    /\ UNCHANGED <<link, locks, loop, attempt, user, captured, told, aborted, subs>>

Goto(u, from, to) == user[u] \in from /\ user' = [user EXCEPT ![u] = to]

CloseCall(u) ==
    /\ Goto(u, {"idle"}, "lock")
    /\ UNCHANGED <<link, locks, loop, attempt, calls, subs>>

CloseLock(u) ==
    /\ CanWrite
    /\ \/ closed /\ Goto(u, {"lock"}, "done") /\ UNCHANGED locks
       \/ ~closed /\ Goto(u, {"lock"}, "closing") /\ closed' = TRUE /\ mu' = u
    /\ UNCHANGED <<link, loop, attempt, calls, subs>>

(* CloseDeadline shuts the connection down, answered or not. *)
CloseDone(u) ==
    /\ Goto(u, {"closing"}, "done")
    /\ up' = FALSE /\ quiet' = FALSE /\ mu' = "free"
    /\ UNCHANGED <<gen, closed, loop, attempt, calls, subs>>

Call(u) ==  \* Channel, or IsHealthy which starts with IsClosed
    /\ Goto(u, {"idle"}, "waiting") \/ Goto(u, {"idle"}, "asking")
    /\ UNCHANGED <<link, locks, loop, attempt, calls, subs>>

Ask(u) ==  \* IsClosed
    /\ CanRead
    /\ Goto(u, {"asking"}, IF closed \/ ~up THEN "idle" ELSE "trying")
    /\ UNCHANGED <<link, locks, loop, attempt, calls, subs>>

Open(u) ==  \* Channel: RLock, conn.IsClosed, then channel.open
    /\ CanRead
    /\ \/ ~up /\ Goto(u, {"waiting", "trying"}, "idle")
       \/ up /\ Goto(u, {"waiting"}, "opening")
       \/ up /\ Goto(u, {"trying"}, "probing")
    /\ UNCHANGED <<link, locks, loop, attempt, calls, subs>>

(* A synchronous call ends when the broker answers or the connection dies. *)
Answered(u) ==
    /\ ~quiet
    /\ \/ Goto(u, {"opening", "closing"}, "idle")
       \/ Goto(u, {"probing"}, IF up THEN "closing" ELSE "idle")
    /\ UNCHANGED <<link, locks, loop, attempt, calls, subs>>

Subscribe(s) ==  \* subscribeReconnect
    /\ owner[s] = "new"
    /\ owner' = [owner EXCEPT ![s] = "subscribed"]
    /\ listed' = listed \cup {s}
    /\ UNCHANGED <<link, locks, loop, attempt, user, calls, signal, shut>>

Take(s) ==  \* the owner's loop receives its signal
    /\ s \in signal /\ owner[s] = "subscribed"
    /\ signal' = signal \ {s}
    /\ UNCHANGED <<link, locks, loop, attempt, user, calls, owner, listed, shut>>

UnsubscribeLate(s) ==  \* mutant: the channel is closed while still listed
    /\ owner[s] = "subscribed"
    /\ owner' = [owner EXCEPT ![s] = "leaving"]
    /\ UNCHANGED <<link, locks, loop, attempt, user, calls, listed, signal, shut>>

Unsubscribe(s) ==  \* the owner's Close: unsubscribeReconnect ...
    /\ owner[s] = "subscribed"
    /\ owner' = [owner EXCEPT ![s] = "leaving"]
    /\ listed' = listed \ {s}
    /\ UNCHANGED <<link, locks, loop, attempt, user, calls, signal, shut>>

Shut(s) ==  \* ... then close(reconnectCh)
    /\ owner[s] = "leaving"
    /\ owner' = [owner EXCEPT ![s] = "gone"]
    /\ shut' = shut \cup {s}
    /\ UNCHANGED <<link, locks, loop, attempt, user, calls, listed, signal>>

CloserNext(u) == CloseCall(u) \/ CloseLock(u) \/ CloseDone(u)
CallerNext(u) == Call(u) \/ Ask(u) \/ Open(u) \/ Answered(u)
SubNext(s) == Subscribe(s) \/ Take(s) \/ Unsubscribe(s) \/ Shut(s)

Next ==
    \/ Lose \/ GoQuiet
    \/ LoopNext
    \/ \E cb \in Callbacks : Register(cb)
    \/ \E u \in Closers : CloserNext(u)
    \/ \E u \in Callers : CallerNext(u)
    \/ \E s \in Subs : SubNext(s)

(* The goroutines keep running, timers fire, dials end in ConnectionTimeout *)
(* at the latest, a broker dialled again and again accepts in the end.      *)
Fairness ==
    /\ WF_vars(HeartbeatLoss)
    /\ WF_vars(LoopStop) /\ WF_vars(LoopLost) /\ SF_vars(LoopCheck)
    /\ WF_vars(LoopTell) /\ WF_vars(LoopAttempt) /\ WF_vars(LoopTimer)
    /\ SF_vars(LoopLock) /\ WF_vars(Dial) /\ SF_vars(DialOk(TRUE))
    /\ WF_vars(LoopNotify) /\ SF_vars(LoopAbort)
    /\ \A u \in Closers : SF_vars(CloseLock(u)) /\ WF_vars(CloseDone(u))
    /\ \A u \in Callers : SF_vars(Ask(u)) /\ SF_vars(Open(u)) /\ WF_vars(Answered(u))
    /\ \A s \in Subs : WF_vars(Shut(s))

Spec == Init /\ [][Next]_vars /\ Fairness
-----------------------------------------------------------------------------
(* Properties. *)

(* OnDisconnect (550-560): every connection the loop has left behind was    *)
(* reported once, before its successor was dialled; OnReconnectAborted      *)
(* (562-587) fires at most once, as the last thing the loop does, and after *)
(* the OnDisconnect of the same loss.                                       *)
CallbackOrder ==
    /\ \A g \in 1..MaxGen : told[g] # "twice"
    /\ \A g \in 1..MaxGen : g < gen => told[g] # "no"
    /\ loop \in {"connect", "dialing"} => told[gen] # "no"
    /\ aborted # "twice"
    /\ aborted # "no" => loop = "done" /\ told[gen] # "no"

(* notifySubscribers sends without looking at who is closing: a subscriber  *)
(* whose channel is closed while it is still listed makes the reconnect     *)
(* goroutine panic.  The owners unsubscribe before they close.              *)
NoSendOnClosedChannel == listed \cap shut = {}

(* handleReconnect must not dial over a connection that still works: its    *)
(* channels would go on living on a connection nobody closes.               *)
OneLiveConnection == [][gen' # gen => ~up /\ ~Reading]_vars

(* The abstract promise made to publishers and consumers. *)
Promise == INSTANCE Link WITH
    over <- loop = "done", owed <- loop = "notify", signalled <- signal
KeepsPromise == Promise!LinkSpec

(* Unlimited attempts: a connection that is lost is replaced, unless it is  *)
(* closed or the broker refuses it for good.                                *)
Recovers == \A g \in 1..MaxGen :
    (g = gen /\ ~up /\ g < MaxGen) ~> (gen > g \/ closed \/ loop = "done")

(* CHANGELOG.md: no Close waits on a broker that has stopped answering. *)
CloseReturns == \A u \in Closers : (user[u] = "lock") ~> (user[u] = "done")

(* "Close closes the connection" (606): nothing is open once it returned. *)
ClosedStaysClosed == \A u \in Closers : user[u] = "done" => ~up

(* "a Connection closed via Close is not an abort and does not fire this    *)
(* callback" (579-580).                                                     *)
CloseIsNoAbort ==
    [][(\E u \in Closers : user[u] = "done") => aborted' \in {aborted, "nil"}]_vars
=============================================================================

# rabbitwrap: verification project

TLA+ models of rabbitwrap, the Go wrapper around `amqp091-go` in this
repository, with the TLC runs that check them and the theorems TLAPS proves
about them. Line numbers refer to the source files at the root of the
repository.

## 1. The system

rabbitwrap gives a program a `Connection` that reconnects by itself, and
`Publisher`s and `Consumer`s that keep themselves supplied with a channel on
it. Everything else (delayed publishing, retry middleware, batches, queue
declarations) is built on those three.

| Part | Source | State it keeps | Operations |
|---|---|---|---|
| Connection | `rabbitmq.go` 340-651 | the amqp connection, `closed`/`closeCh`, callbacks and reconnect subscribers, all under the read-write lock `c.mu` | `NewConnection`, the `handleReconnect` goroutine, `connect`, `Channel`, `IsHealthy`, `Close`, callback setters, subscribe, unsubscribe, notify |
| Reconnect backoff | `rabbitmq.go` 290-302 | the attempt of the current outage | `reconnectDelay` |
| Channel watcher | `rabbitmq.go` 700-735 | one goroutine per established channel | reports the death of a channel its owner still uses |
| Publisher | `publisher.go` 114-380, 617-651 | current channel, `closed`, `rpcMu`, the one-place `chDeadCh` and `reconnectCh`, a retry timer | `handleReconnect`, `setupChannel`, `withChannel`, `DeclareExchange`, `Close` |
| Publishing | `publisher.go` 383-470, 543-593 | none of its own | `PublishToExchange` with or without confirmation, `PublishDelayedToExchange` through holding queues |
| BatchPublisher | `publisher.go` 661-774 | a slice of messages under `b.mu` | `Add`, `AddWithKey`, `AddToExchange`, `Clear`, `Publish`, `PublishAndClear` |
| Consumer | `consumer.go` 307-480, 761-1128, 1279-1600 | current channel, `closed`, `rpcMu`, the running loops, a subscription whose cancel failed, a wait group of handlers | `Start`, `Consume`, `consumeLoop`, `waitForReconnect`, `setupChannel`, `cancelSubscription`, `Stop`, `CloseWithContext` |
| Topology | `consumer.go` 488-740 | a goroutine with a channel of its own, the name of a server-named queue | `applyTopology`, `refreshTopology` |
| Queue and exchange calls | `consumer.go` 1146-1260, 1498-1517 | `opsCh` under `opsMu` | `withChannel` and its users |
| Middleware | `middleware.go` | none; a backoff retry's count travels in a header, an in-process retry's is a local variable | `BackoffRetryMiddleware`, `RetryMiddleware`, `RecoveryMiddleware`, `LoggingMiddleware`, `Chain` |
| Messages, configuration, logging | `message.go`, `logger.go`, builders | values | conversions and builders |

How they interact. The reconnect goroutine of a Connection dials under `c.mu`
and then puts a signal in a one-place buffer of every subscriber. A Publisher or
Consumer receives it in its own goroutine, opens a channel through
`Connection.Channel` (which holds the read lock of `c.mu` for the round trip),
declares what it needs, installs the channel under its own `mu`, and retires the
one it replaces under `rpcMu`, because amqp091 does not serialise synchronous
calls and two on one channel can take each other's reply. The watcher of a
channel tells its owner when the channel dies on a healthy connection. The
consume loop passes deliveries through an unbuffered Go channel to handlers. A handler
wrapped in `BackoffRetryMiddleware` calls a Publisher, which declares a holding
queue and publishes into it, before its own delivery is acknowledged.

What is hard about it: a user's `Close` racing each of these goroutines at every
one of their waits; select statements that may take any ready case, a cancelled
context or not; one-place buffers that hold news already acted on; brokers that
stop answering without closing anything; calls abandoned after a timeout that are
answered later; at-least-once hand-overs between two channels that can each die.
`PROJECT.json` lists the hazards at their lines.

What makes each part correct, in a sentence: a Connection tells its users of
each loss and each replacement once and in order, and never dials over a live
connection; a Publisher never has two calls on one channel, leaks none and always
has a wake-up pending when it has none that works; a Consumer, besides, never
reuses a tag the broker still knows and delivers nothing once it was seen to
stop; its topology is restored whatever happens to it, without a second private queue beside
the one it reads from but those its own failures left; each delivery is in one place, and is settled once; a retried message is never lost, is doubled by a fault only and runs no
more often than its retries allow, unless its handler joins the two sentinels; a batch loses, doubles and reorders nothing.

## 2. Modules

| Module | Models | Composition |
|---|---|---|
| `Link` | what a Connection promises its subscribers | abstract specification |
| `Connection` | the reconnect loop, `c.mu`, callbacks, subscribers, `Channel`, `Close` | implements `Link` (`KeepsPromise`) |
| `Publisher` | channel lifecycle of a publisher | extends `Link`: its environment is any Connection that keeps the promise |
| `Consumer` | channel, loop, subscriptions, handlers and Close of a consumer | extends `Link` likewise |
| `Topology` | what a consumer declares, the refresh loop, the queue and exchange calls | on its own: a loss and a reconnect are single steps |
| `Deliveries` | each message from the queue to a handler and back | on its own: setups, consumes and cancels are single steps |
| `Delays` | delay ladder, snapping, holding-queue life, backoff | pure operators |
| `Retry` | one failing message and all its copies | extends `Delays` |
| `ReconnectBackoff` | the delays of one outage, with the width of a duration | on its own |
| `Outbox` | what a batch promises those who add to it | abstract specification |
| `Batch` | BatchPublisher over Go slices and their arrays | implements `Outbox` (`KeepsPromise`) |
| `MC...` | model values for TLC | extend the module they are named for |
| `ConnectionProofs`, `PublisherProofs`, `ConsumerProofs`, `TopologyProofs`, `DeliveriesProofs`, `RetryProofs`, `BatchProofs`, `OutboxProofs` | theorems | extend the module they are named for and `TLAPS` |

Definitions that a comment calls a mutant are not part of any
specification: each is the variant of the definition below it that a plausible
bug would produce, kept to show that the property it breaks can be broken.

### How the models relate to the code

*Steps.* A step is what a goroutine does between two points where it can wait: a
select, a lock, a call to the broker, a send on a channel. Sections under a mutex
that is held for assignments only (`p.mu`, `c.mu` of a consumer, `b.mu`) are single
steps; mutexes held across a broker call (`Connection.mu`, `rpcMu`) are variables.

*Connection.* `loop` is the position of `handleReconnect`, `mu` and the readers in
`user` are `c.mu`. `notifyCh` can be received from exactly when the current
connection is closed, so it is `~up`. `told` and `aborted` record what became of
the callbacks of each connection.

*Link.* A connection is a generation; `owed` is the gap between a
generation becoming usable and its announcement. `Connection` maps `owed` to the
loop being at `notify`, and `over` to the loop having returned or never being
able to dial again.

*Publisher and Consumer.* Channels are numbered as they are opened, with the
generation they belong to (`home`), what the protocol made of them (`state`) and
their watcher (`watch`). `calls` holds who has a synchronous call outstanding on
which channel, which is what `rpcMu` is there to keep below two. `stranded`
names channels the code leaves open on purpose because a call on them would not
finish. `left` is how far `setupChannel` has come: the calls behind the one it is at, of the
exchanges it ranges over and `confirm.select`. `conn.Channel` may fail on a live connection too,
as often as the broker likes. In `Consumer`, `reg` is what the broker believes to be subscribed. There, who waits for
`rpcMu` gives up only while the holder's call is on a channel that is alive (`HolderBusy`):
`acquireChannelSlot` waits five seconds, and a call on a dead channel fails at once. Without it a
cancel could give up on a healthy connection because of a call that had already failed, and
the record it leaves would be one a later Start could cancel while Close's abandoned
`channel.close` is outstanding on the same channel; the proof of `NoReplyMixing` fails at that
step, and TLC finds the behaviour on an instance with two loops and two channels.

*Retry.* `place` is where each copy of the message is; `epoch` numbers the
consumer's channels, so that settling a delivery of a dead channel fails. The
conversions and headers are what they do: a count, bumped in the copy. What a handler returns is
its own choice every time, any set of the two sentinels; `joined` counts the times it was both, which
send the same copy round again, and is what bounds the states then. It is no fault.

*Topology.* `exchange`, `deadLetter`, `queues` and `bound` are what the broker has.
`pc` and `chan` hold the position and the channel of the three goroutines that
declare: the consume loop during a setup, the refresh loop, and whoever holds
`opsMu`; `chan["consume"]` is `c.channel`. The same actions (`DeclareExchange`,
`DeclareDeadLetter`, `DeclareQueue`, `Bind`) serve setup and refresh, as in the code,
and each fails when the broker would refuse it. `name` is what a goroutine has read
or been given, so a queue name can be stale when it is bound. `calm` counts rounds of the
refresh since anything changed, `meddled` what others have changed. `kind` and `flags` are the
configuration: a queue of the consumer's own with a name, one the server names, or somebody else's;
and whether it is exclusive and auto-delete, which it is when neither `Queue` nor `QueueConfig` is set
and which a `QueueConfig` decides for itself. `orphans` are server-named queues whose setup failed behind
their declaration or on which `basic.consume` was refused: the code leaves them, and the setup that
follows names another.

*Deliveries.* A message is `ready`, `unacked`, `acked` or `dropped` at the broker
(`place`), and meanwhile in the `buffer` of the subscription, in the `hand` of the
loop, or in a handler's `job`, which remembers the channel it came from: settling on
a channel that is gone has no effect. `stranded` are those that Stop or a cancelled
context left on a channel that stays open. `asked` are the messages whose handler, when it last
failed, returned `ErrRequeue`; `overruled` those of which `RetryMiddleware` then returned the error of
the context instead, because the wait for the next attempt was cut short.

*How the three views of a consumer fit.* `Consumer` has every wait of the loop,
of Close and of a setup, and counts deliveries; `Topology` has the calls of a setup
one by one and takes the waits as single steps; `Deliveries` has the messages one by
one and takes setups as single steps. What the latter two leave out is what the
first has shown: calls on a channel do not overlap, and Close does not outrun the loop
unless it says so. Topology keeps Close's timeouts, which decide what is left open.

*Batch.* `heap` holds arrays and a slice is a window on one, so that a slice kept
by a publish in progress can be overwritten by an append if the code shared it.
`Outbox` is mapped onto it: what is owed is what `b.messages` holds and what a
PublishAndClear at work has not sent yet.

## 3. Runs

Each cfg is checked by TLC with two workers. CHECK_DEADLOCK is off where the
system may stop: a closed connection, a consumer that has ended, a message that
has been settled.

| Run | Question | Instance | Result |
|---|---|---|---|
| `ConnectionSafety` | order of callbacks, no send on a closed channel, one live connection, `Link` implemented | a closer, a caller, a subscriber, 3 connections, 2 attempts | holds |
| `ConnectionLive` | recovery, and Close returning | two closers, a caller, 2 connections, unlimited attempts, heartbeats | holds |
| `ConnectionLeak` | a closed connection stays closed | one closer, 2 connections | violated |
| `PublisherSafety` | calls, leaks, wake-ups, stale reports, healing | a caller and Close, 2 channels, 2 connections, one call per setup | holds |
| `ConsumerReconnect` | calls, leaks, what Close leaves behind | one Consume, graceful Close, 2 channels, 2 connections | holds |
| `ConsumerRestart` | tags and subscriptions across loops, silence after Close | two goroutines in Consume, 2 loops, one fixed tag, 2 channels | holds |
| `ConsumerLive` | Close returns, consumption resumes | one Consume, graceful Close, 2 channels, heartbeats, nobody interrupts | holds |
| `Topology` | stray queues, restoration, what Close leaves open | a named, a private and a foreign queue, 2 connections, 3 queue names, 1 change by others | holds |
| `Deliveries` | where each message is, and that it gets to its end | 2 messages, 2 runs of Consume, 1 in-process retry, 2 channels, manual and automatic acknowledgement | holds |
| `Retry` | nothing lost, doubled or looping; right delays; an end | 2 handlers, 2 retries, 1 fault, confirmations on, both sentinels once | holds |
| `DelayOverflow` | the reconnect delay never shrinks | 12-bit durations | violated |
| `Batch` | nothing overwritten, `Outbox` implemented | 2 goroutines, 3 messages, 2 failures | holds |

Why the bounds are enough. Two connections and two channels give every pair of
an old and a new one; `Heals` and `Resumes` are excused by the bound only while the loop is asking for one channel more than there are, so
the second channel, once it is open, must be used or found dead and replaced; a third connection in `ConnectionSafety` lets a loss follow
a recovery that followed a loss. Two attempts show a first, a last and an
exhausted one. Two loops show a loop and its successor with the same tag; two
goroutines in Consume the race of two Starts. One call per setup stands for any number: each is a
send and a reply with the same consequences (`SetupCalls` is a constant, and the
theorems hold for every value). Two retries give a first, a last and an
exhausted delivery; one fault of each kind can fall between any two steps, and with
two handlers the message and its copy can be in work together. The base delays of
`MCBases` start below, on and just above a rung, and go past the last. Three
messages and two failures give a failure with messages before, behind and added
meanwhile. The change by others can come between any two declarations, and
refusals and losses, which are not counted, let more go while it is being restored; names are used again once the broker has
forgotten them, and three are enough for the queue that is read from, an orphan beside it and a fresh one. The other
combinations of flags, and any number of names and changes, are covered by the theorems, which
hold for all `Configs`. In `Retry` one return of both sentinels can come at any of the handler's runs, and
shows that it costs one run more and nothing else. With two messages one can be stranded, redelivered or settled while the other
is in work; two runs of Consume let the handlers of the first outlive it. `ReconnectBackoff` scales the 64 bits down to 12: one unit stands for the
second the configuration starts from, so the overflow comes at attempt 11 instead of 34.

`Topology` has 6.4 million states; it and `Deliveries` take TLC about two and a half minutes each, the other runs less.

Fairness. Each module assumes no more of it than its properties need. Goroutines that can run do run (`WF` per goroutine), since the
Go scheduler is preemptive. A lock that becomes free again and again is got in the end
(`SF`; `sync.RWMutex` promises it to writers). A select whose ready cases include
one that stays ready does not ignore it for ever (`SF`; Go picks uniformly among
the ready ones). Heartbeats, where on, close a silent connection. A handler and the
broker finish what they started. In `Deliveries` the loop and every handler go on, and
`forwardDeliveries` sees that its context is cancelled; nobody has to call Stop or Close. No loss and no fault is ever assumed to happen, and liveness properties except the states in which the environment
does not allow progress, by name. Two successes are assumed, in strong form, since nothing can recover
without them: a broker that can be dialled again and again accepts one of the dials in the end (`SF_vars(DialOk(TRUE))` in
`Connection`, on which `Recovers` rests), and one that is asked for a channel again and again opens one (`SF_vars(Open)` in
`Publisher` and `Consumer`, for `Heals` and `Resumes`). Neither is the code's doing. `Settles` is under the bound `MaxJoined`: a
handler that returns both sentinels every time keeps its message going for ever.

### What the violated runs show

* `ConnectionLeak` (`rabbitmq.go:486`). "Close closes the connection" (606). The
  loop may take the timer when `closeCh` is closed too, or may have taken it before;
  `connect` then waits for `c.mu`, dials and installs a connection without looking
  at `c.closed`. Close has returned, and a second Close does nothing.
* `DelayOverflow` (`rabbitmq.go:300`). "The delay increases exponentially up to
  ReconnectDelayMax" (177). From attempt 34 on, half an hour into an outage, the
  conversion overflows; on amd64 the delay is negative and the loop dials without waiting.

More statements of the repository are written down as properties and refuted by TLC,
without a run of their own. To see the trace, give the named run's cfg the property
instead of its own:

* `Connection!CloseIsNoAbort`, as an INVARIANT or PROPERTY of `ConnectionSafety`:
  `OnReconnectAborted` can fire after Close has returned (`rabbitmq.go:487`),
  although "a Connection closed via Close is not an abort" (579-580).
* `Publisher!HealthyChannelStays`, in `PublisherSafety`: a reconnect
  signal replaces a healthy channel that an earlier setup already opened on the new
  connection (`publisher.go:341`); the comment at 347-352 gives the reason not to,
  and only the other wake-up, a report of a death, follows it.
* `Consumer!SilentOnceClosed`, in `ConsumerRestart`: a loop that outlives a Close
  that returned `ErrChannelBusy` can still hand over a delivery
  (`consumer.go:1028`), although the consumer "delivers nothing further" (1311-1312).
* `Consumer!CloseDropsRegistrations`, in `ConsumerRestart`: the cancel "is skipped when the
  consumer is closing, where the channel close that follows drops every registration
  on it anyway" (`consumer.go:1457-1459`). No close follows when Close returns
  `ErrChannelBusy`: the loop whose consume is answered late then leaves its subscription on
  a channel that stays open.
* `Retry!AtLeastOnce` with `ConfirmMode = FALSE`, in `Retry`: "Retrying is at-least-once"
  (`middleware.go:141`). With `ConfirmMode` off, the default, the original is
  acknowledged before the broker has the copy, and a channel that dies then takes the message with it.
* `Retry!NeverLoopsForever`, in `Retry`: after `maxRetries` retries a message is rejected "so a failing message can never loop
  forever", and a handler that returns `ErrDrop` makes "the error [...] terminal immediately" (`middleware.go:128-133`). When it
  returns `errors.Join(ErrRequeue, ErrDrop)`, the middleware passes it on (154), and `requeueDecision`
  (`consumer.go:1096`) lets `ErrRequeue` win: the same copy comes back, with the same count and no delay, as often as the handler
  does so. `RunsBounded` is what is left of the promise.
* `Deliveries!RequeueRegardless`, in `Deliveries`: `ErrRequeue` "forces the failed message to
  be requeued regardless of ConsumerConfig.RequeueOnError" (`rabbitmq.go:62-64`). A handler of `RetryMiddleware` returns it
  while retries are left, its context is cancelled during the delay, and
  `ctx.Err()` is returned in its place (`middleware.go:101`): with `RequeueOnError` off the message is discarded. (`middleware.go:74-77`
  limits what the sentinels do to "the final disposition once the retries are exhausted", and says
  nothing of a context that ends first.) `RequeueHonoured` is what is left.
* `Topology!UnnamedIsPrivate` with `Configs <- Unnamed`, in `Topology`: "An empty queue name (config.Queue, or QueueConfig.Name
  when set) is allowed: the consumer declares a private, server-named queue (exclusive, auto-delete)" (`consumer.go:362-364`).
  With a `QueueConfig`, its own `AutoDelete` and `Exclusive` count (525-533); left at false, the queue outlives its connection, and the
  setup after the reconnect names another. The first stays, bound to the exchange and read by nobody. `NoStrayQueue` is about
  queues that are private.
* `CloseReturns` with `Heartbeat = FALSE`, in `ConnectionLive` and `ConsumerLive`: with a
  silent broker, `Connection.Close` waits for a lock `Channel` holds, and a graceful
  `Consumer.Close` without a deadline for handlers that wait for the loop.

Two observations without a property. A record of a failed cancel (`uncancelled`) can
only come about when a write has failed and the channel is not yet marked
closed; the queue helpers, which used to occupy the channel, have one of their own now, so
`ErrConsumerTagInUse` is nearly unreachable. And `PublishAndClear` promises that "FIFO order is
preserved" (`publisher.go:749-755`): `Outbox` has it for calls that do not overlap; two at once can put
their remainders back in either order.

## 4. Theorems

TLAPS proves these for every value of the constants that satisfies the named assumptions:
`ConnectionAssumption`, `LinkAssumption`, `PublisherAssumption`, `ConsumerAssumption`,
`TopologyAssumption`, `DeliveriesAssumption`, `RetryAssumption`, `BatchAssumption`. They give the
constants their types, keep the names of goroutines apart, and make the sets of goroutines finite where
something is counted. `BatchAssumption` has one more part: there are more arrays than slices in use, so that
an append that has to move finds an array nobody looks at, as Go's allocator always does. Bounds such
as `MaxChan`, `MaxNames` or `MaxFaults` are arbitrary in the theorems. Every invariant a
passing run checks is also a theorem, and so is every action property.

In each module the properties are not inductive as they stand, because they do not say
what the positions of the goroutines mean. `IInv` says it, in named parts, and was checked by
TLC on the runs' instances before it was proved; there is one lemma for each action or group of actions, with a
step for each part the action can disturb.

*ConnectionProofs.* `IInv` adds: the connection is down
everywhere between `lost` and `dialing` (`DownWhileReconnecting`); `mu` is held by
exactly who is inside a locked section, and no reader is inside meanwhile
(`LockHeld`); the attempt counter was tested where the loop waits
(`BudgetTested`); what each callback has seen fits the position (`ToldInOrder`); a
subscriber's channel is closed only after it was taken off the list, which is done under
the lock the notifier takes (`ListedBeforeShut`). `TypeCorrect`,
`CallbacksInOrder` and `SafeToNotify` follow; `DialsOnlyWhenDown` is the action
property, from `IInv` and one step; `ImplementsLink` shows, one action at a
time, that each step of Connection is a step of Link or leaves its variables alone.

*PublisherProofs.* `IInv` says who holds `rpcMu` (`LockHeld`), that each outstanding call belongs to
the position of its caller and to the channel it is dealing with (`CallsMatch`), that a channel being
set up is newer than the current one and an old one older (`InOrder`), that Close comes
once (`CloseIsLast`), and that a setup is at one of its calls (`LeftCounts`). Beside the types (`Typing`), `TypeOK` says that a publisher that gave up or is closed is on no list of subscribers
(`Unheard`), which is inductive by itself. From `IInv`,
`NoReplyMixing`: two callers with a call on the same channel would both hold `rpcMu`, or
one of them would be using a channel nobody else has seen yet.
A second invariant, `Supply`, holds on top of the first: channels are numbered as they are opened, none is ahead of its
connection, and one in use is not closed (`Homes`); a publisher at work is on the list of subscribers (`Listed`), is told
of every connection it has no channel on (`Told`), and of a channel that fails by its watcher
(`Noticed`); a setup started for a dead channel stays one (`StaleReportHarmless`).
`NoLeak`, `WakesUp` and `Harmless` follow: no open channel without an owner, no sleep on a dead channel
without a wake-up on its way, and no replacement of a healthy channel on a stale report.

*ConsumerProofs.* The types come in nine groups (`TWire` to `TClose`). `LoopChannel` ties the
loop's position to the channel it uses; `LockHeld`, `CallsMatch`, `Numbered` and `ClosingLast` are as for
the publisher, except that Close's call may outlive its wait on a connection that has fallen silent.
`Crews` keeps the handlers of the calls of Consume apart. The two parts that took the most
finding are about subscriptions. `Registered`: what is registered on a live channel is what the loop
consumes, or what is on record; and the loop's own tag is nowhere else. `Leftovers`:
a subscription that could not be cancelled is on a channel whose connection can only die
(`Doomed`), so that nothing is consumed beside it and no channel is opened before it has. Hence
`NoReplyMixing`, `NoLeak`, `Drains`, `TagsApart`, `NothingLeft` and the action property `Silent`.

Two attempts at these proofs changed `Consumer`. `NoReplyMixing` failed where a cancel gives up on
`rpcMu`: see `HolderBusy` in section 2. And `SlotsComeFree` came out of a step no run ever took: while
the loop waits for `rpcMu` to close a channel it has retired, only a retried `basic.cancel`
that fails at once can hold it, so the arms for a slot that does not come free
(`consumer.go:984` and the one after 464) are never reached, and the model has no action for them.

*Composition.* `KeepsToLink`, in `PublisherProofs` and `ConsumerProofs`: each of their steps is a step of `Link` or leaves its variables
alone. So what they do to a connection is what `Link` lets a subscriber do, what they rely on is what `Link` does, and
`ImplementsLink` says that Connection does it.

*TopologyProofs.* `UnderWay`, `ClosingInOrder`, `Configured` and `GoneBeforeSetup` say what a
setup, a refresh and Close have found at each of their steps. `GoneBeforeSetup` is what
`NoQueueBeside` needs: before a setup names a private queue, the previous one is gone, with its connection or
as an auto-delete queue with its subscription, or it is an orphan. The theorem holds for every set of configurations, and says nothing
of a queue whose flags are not both set, which `UnnamedIsPrivate` is about. `SecondRound` is what
`TwoRoundsRestore` needs: the second round since anything changed has a channel that works, and whatever it has passed
is restored. `ClosedChannels` follows from `ClosingInOrder`.

*DeliveriesProofs.* Each message the broker waits for is in one place (`Apart`), and the broker waits for nothing
else (`Awaited`); hence `OnePlaceOnly`. With `ClosedInOrder` and `Succeeded`, what
a handler succeeded with is acknowledged or on its way to be, so `SuccessStays`;
with `StillAsking`, a message whose handler asked for a requeue is in a job that
will not discard it unless it was overruled with `RequeueOnError` off (`Faithful`), or was so discarded. Hence `RequeueKept`, whose
second half is that with `RequeueOnError` on nothing that was asked for is discarded at all, context or not.

*BatchProofs.* The slices are windows on arrays that are long enough, and the array of `b.messages` is in nobody's
hand (`Shape`); no message is in a slice twice (`Numbered`) or owed by two (`Apart`); as long as calls do not overlap, the slices are in
the order of adding, and what a flush has taken comes before what was added since (`Ordered`). `SlicesApart` is that no append or reset writes into an array somebody publishes from.
`Refines` is the whole refinement, `Spec => KeepsPromise`, so what is proved of `Outbox` is carried over
to the batch: `NeverLost`, `NeverTwice`, `OrderKept`.

*OutboxProofs.* `Kept`, `Once` and `InOrder` of `Outbox`. The order is not inductive
on its own: the invariant has to say, too, that what is owed lies behind everything sent, which
`MayGo` keeps and a failure does not disturb (`Sending`, `Ahead`).

*RetryProofs.* About the operators of `Delays`: `SnapsUp` and `QueueOutlivesMessage` hold for every delay,
and `BackoffDoubles` for every base delay and retry count: the doubling loop of `backoffDelay`, which stops at the cap or before an
overflow, returns `base * 2^n` cut at the longest rung. (The provers cannot use the library's induction; `Least`, that a set of numbers has a
least member, takes its place.)
About the message: a job's stage fixes its other fields (`Staged`), copies are taken up in order and retries are
newer than their originals (`InOrder`), a delivery of the current channel is one handler's (`Delivered`). `Kept` is for
`NotLost`: with ConfirmMode an original is passed on only when a later copy is safe at the broker, so the latest safe copy has never
been passed on. `Lived` and `Budgeted` are sums. `Lived` counts the copies nobody is dealing with and the jobs that
will make or finish one, each fault adding at most one for each handler (`DoubledByFaults`). `Budgeted` adds, to the runs so far, those each copy
and each job still has coming, as the number of points under a function (`Area`), since the provers have no
sums over sets; no step without a fault increases it, but a return of both sentinels, which adds the one
run it brings about (`BudgetJoins`). Hence `NeverLoops`: `RunsBounded`, and what the comment says (`NeverLoopsForever`) as long as
no handler has joined the two. `NeverEarly` is `HeldLongEnough`,
inductive as it stands once `BackoffDoubles` says what `Schedule` holds.

Only model-checked: all liveness (`Recovers`, `CloseReturns`, `Resumes`, `Heals`, `Settled`, `Settles`), and so the fairness part of `Link`
in Connection's `KeepsPromise`; fairness and ENABLED are beyond the prover. `ReconnectBackoff` has no theorem: the one property it is about is
false.


## 5. What is not modelled

* In `Topology`: the time a declaration takes; several exchanges, bindings and dead-letter set-ups of one consumer (a list is
  declared in a fixed order, and its first failure ends the round as that of a single one does);
  timeouts of the broker's replies, except where Close waits; messages in the queues it deletes.
* In `Deliveries`: prefetch limits below the number of messages; a handler that settles its
  delivery itself; `Ack(true)`; a library buffer that outlives its channel's replacement, other than by a step
  that drops it.
* amqp091 itself, beyond how the code uses it: a call is answered, or
  fails when its channel or connection dies, or stays unanswered; confirmations
  are matched to publishes.
* In `Consumer`, the timeouts of the slots the loop takes to close the channel a setup replaces and the one a
  consume was refused on: whoever holds `rpcMu` then has a call that fails at once (`SlotsComeFree`).
  (The publisher's is modelled.)
* Time. Timers may fire whenever they are armed. That a holding queue outlives
  the message sent to it is assumed in `Retry`, with the margin proved in `RetryProofs`; a message's own
  `Expiration`, which the broker would honour in the holding queue if it is shorter, is left out.
* `LoggingMiddleware` and `Chain`, which only call through. The return listener, `OnConnect`, message conversions, builders, logging.

## 6. Plan

Done: the connection and its promise, the channel lifecycles of publisher and
consumer, topology and its refresh, deliveries one by one, delays and retry, batches and the outbox they
implement, the reconnect delays; and a theorem for every safety property the passing runs check.

What is left:

1. The link between the three views of a consumer (`Consumer`, `Topology`, `Deliveries`) is an argument in
   section 2. A refinement from `Consumer` to an abstraction of the other two's setups and cancels would make it
   a theorem.
2. Safety lemmas the liveness properties rest on, such as: whoever waits for `rpcMu` waits for a call that
   the environment will end.
3. The delays of one outage below the overflow: up to attempt 33 they never shrink and never exceed the maximum.

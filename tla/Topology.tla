------------------------------ MODULE Topology ------------------------------
(***************************************************************************)
(* What a consumer declares at the broker (consumer.go): the exchange, the *)
(* dead-letter topology, the queue and its binding, declared by every      *)
(* setup of the consume loop's channel and again by the topology refresh;  *)
(* and the queue and exchange calls, which run on a channel of their own   *)
(* and may undo any of it.                                                 *)
(*                                                                         *)
(* Three goroutines share the consumer: "loop" runs Start's consume loop,  *)
(* "refresh" the refresh loop, "ops" is whoever holds c.opsMu.  Each has a *)
(* channel, and c.channel is "consume".  A declaration is one step, with   *)
(* its reply; a channel whose call is refused, or whose connection is      *)
(* lost, is dead.  What wakes the loop that waits for a channel, and how   *)
(* channels are retired, is Consumer's concern: here it may always go on.  *)
(***************************************************************************)
EXTENDS Naturals, FiniteSets

CONSTANTS Configs,      \* what the consumer reads from: <<kind, flags>>
          MaxGen,       \* bound: connections ever established
          MaxNames,     \* bound: names the broker has for queues, reused once forgotten
          MaxMeddling   \* bound: changes others make to the topology

ASSUME TopologyAssumption ==
    /\ Configs \subseteq {"own", "unnamed", "foreign"} \X SUBSET {"exclusive", "autoDelete"}
    /\ \A c \in Configs : c[1] = "foreign" => c[2] = {}
    /\ MaxGen \in Nat \ {0} /\ MaxNames \in Nat \ {0} /\ MaxMeddling \in Nat

VARIABLES gen,         \* generation of the connection
          up,          \* it is open
          exchange,    \* the broker's exchange: ours, another type, or none
          deadLetter,  \* dead-letter exchange, queue and binding are there
          queues,      \* the queues there are: 0 is the configured name
          bound,       \* those bound to the exchange
          orphans,     \* server-named queues whose setup failed behind the
                       \* declaration, or that basic.consume refused
          kind,        \* a queue of ours with a name, one without, which has
                       \* the server choose it, or somebody else's queue
          flags,       \* of a queue of ours; a consumer that names no queue
                       \* and configures none has both
          pc,          \* where each goroutine is
          chan,        \* the channels
          name,        \* the queue a setup or a refresh is dealing with
          queue,       \* c.queue
          subscribed,  \* c.channel is registered on c.queue
          cancelled,   \* the loop's context is cancelled
          closed,      \* c.closed; c.stopRefresh is closed with it
          close,       \* where Close is
          left,        \* channels Close gave up waiting for
          meddled,     \* changes others have made
          calm         \* rounds of the refresh since anything changed or was
                       \* refused: 2, 4 after one, two or more, odd within one

link == <<gen, up>>
broker == <<exchange, deadLetter, queues, bound, orphans>>
config == <<kind, flags>>
consumer == <<config, queue, subscribed>>
closing == <<closed, close, left>>
changes == <<meddled, calm>>
vars == <<link, broker, consumer, pc, chan, name, cancelled, closing, changes>>

Names == 1..MaxNames
SetupPoints == {"exchange", "deadLetter", "queue", "bind"}
ServerNamed == kind = "unnamed"                  \* c.serverNamed
Private == flags = {"exclusive", "autoDelete"}

(* Everything has its type, and nobody is registered without a channel. *)
TypeOK ==
    /\ gen \in 1..MaxGen /\ up \in BOOLEAN
    /\ exchange \in {"none", "ours", "other"} /\ deadLetter \in BOOLEAN
    /\ queues \subseteq Names \cup {0} /\ bound \subseteq queues
    /\ orphans \subseteq queues \ {0}
    /\ config \in Configs
    /\ pc["loop"] \in {"off", "top", "consume", "forward", "wait", "install"} \cup SetupPoints
    /\ pc["refresh"] \in {"idle", "stopped"} \cup SetupPoints
    /\ pc["ops"] \in {"free", "call"}
    /\ chan \in [{"loop", "refresh", "ops", "consume"} -> {"none", "open", "dead"}]
    /\ name \in [{"loop", "refresh"} -> Names \cup {0}]
    /\ queue \in Names \cup {0}
    /\ subscribed \in BOOLEAN /\ (subscribed => chan["consume"] = "open" /\ queue \in queues)
    /\ cancelled \in BOOLEAN /\ closed \in BOOLEAN
    /\ close \in {"no", "refresh", "loops", "ops", "channel", "returned"}
    /\ left \subseteq {"refresh", "ops", "consume"}
    /\ meddled \in 0..MaxMeddling /\ calm \in 0..4

Init ==  \* NewConsumer has returned: its setup succeeded
    /\ gen = 1 /\ up = TRUE
    /\ kind \in {c[1] : c \in Configs} /\ flags \in {c[2] : c \in Configs}
    /\ config \in Configs
    /\ exchange = "ours" /\ deadLetter = ~ServerNamed
    /\ queue = IF ServerNamed THEN 1 ELSE 0
    /\ queues = {queue} /\ bound = {queue} /\ orphans = {}
    /\ pc = [loop |-> "off", refresh |-> "idle", ops |-> "free"]
    /\ chan = [loop |-> "none", refresh |-> "none", ops |-> "none", consume |-> "open"]
    /\ name = [loop |-> 0, refresh |-> 0]
    /\ subscribed = FALSE /\ cancelled = FALSE
    /\ closed = FALSE /\ close = "no" /\ left = {}
    /\ meddled = 0 /\ calm = 0

Go(p, point) == pc' = [pc EXCEPT ![p] = point]
SetChan(u, c) == chan' = [chan EXCEPT ![u] = c]
Gone(qs) == queues' = queues \ qs /\ bound' = bound \ qs /\ orphans' = orphans \ qs

(* An auto-delete queue goes with its last consumer. *)
Unregister ==
    /\ subscribed' = FALSE
    /\ IF subscribed /\ "autoDelete" \in flags THEN Gone({queue}) /\ calm' = 0
       ELSE UNCHANGED <<queues, bound, orphans, calm>>

-----------------------------------------------------------------------------
(* The connection, the broker, and who else uses it. *)

Lose ==  \* exclusive queues go with the connection
    /\ up /\ up' = FALSE
    /\ chan' = [u \in DOMAIN chan |-> IF chan[u] = "open" THEN "dead" ELSE chan[u]]
    /\ Gone(IF "exclusive" \in flags THEN queues
            ELSE IF subscribed /\ "autoDelete" \in flags THEN {queue} ELSE {})
    /\ subscribed' = FALSE
    /\ calm' = 0
    /\ UNCHANGED <<gen, exchange, deadLetter, config, queue, pc, name, cancelled, closing, meddled>>

Reconnect ==
    /\ ~up /\ gen < MaxGen
    /\ gen' = gen + 1 /\ up' = TRUE /\ calm' = 0
    /\ UNCHANGED <<broker, consumer, pc, chan, name, cancelled, closing, meddled>>

(* The consuming channel breaks: a delivery acknowledged twice. *)
Exception ==
    /\ subscribed
    /\ SetChan("consume", "dead") /\ Unregister
    /\ UNCHANGED <<link, exchange, deadLetter, config, queue, pc, name, cancelled, closing, meddled>>

(* One thing declared here is deleted, unbound or created differently, or    *)
(* the queue that is not ours appears.  Once the consumer is closed nothing  *)
(* hangs on it.                                                              *)
Change ==
    /\ ~closed /\ meddled < MaxMeddling
    /\ meddled' = meddled + 1 /\ calm' = 0
    /\ \/ /\ exchange' \in {"none", "other"} \ {exchange} /\ bound' = {}
          /\ UNCHANGED <<deadLetter, queues, orphans, subscribed>>
       \/ /\ deadLetter /\ deadLetter' = FALSE
          /\ UNCHANGED <<exchange, queues, bound, orphans, subscribed>>
       \/ \E q \in queues :
             /\ Gone({q}) /\ subscribed' = (subscribed /\ q # queue)
             /\ UNCHANGED <<exchange, deadLetter>>
       \/ \E q \in bound :
             /\ bound' = bound \ {q}
             /\ UNCHANGED <<exchange, deadLetter, queues, orphans, subscribed>>
       \/ /\ kind = "foreign" /\ queues' = {0} /\ queues = {}
          /\ UNCHANGED <<exchange, deadLetter, bound, orphans, subscribed>>

Meddle ==
    /\ Change
    /\ UNCHANGED <<link, config, queue, pc, chan, name, cancelled, closing>>

-----------------------------------------------------------------------------
(* The declarations, for a setup of the loop and for a refresh: exchanges,   *)
(* dead letter, queue, bindings.  A failure ends the round, and the channel  *)
(* with it; the queue that a setup has just been given stays behind.         *)

Rest(p) == IF p = "loop" THEN "wait" ELSE "idle"

FailKeeping(p) ==  \* mutant: the refresh goes on with its spent channel
    /\ Go(p, Rest(p)) /\ SetChan(p, IF p = "loop" THEN "none" ELSE "dead")
    /\ name' = [name EXCEPT ![p] = 0]
    /\ UNCHANGED broker

Left(q) == orphans' = orphans \cup (({q} \cap queues) \ {0})

Fail(p) ==
    /\ Go(p, Rest(p)) /\ SetChan(p, "none")
    /\ name' = [name EXCEPT ![p] = 0]
    /\ IF p = "loop" THEN Left(name["loop"]) ELSE UNCHANGED orphans
    /\ UNCHANGED <<exchange, deadLetter, queues, bound>>

(* A setup begins unless the loop is cancelled.  The refresh begins when the *)
(* ticker wins the select, from a closed stopRefresh or not, and holds on to *)
(* the channel it has.                                                       *)
Open(p) ==
    /\ pc[p] = Rest(p)
    /\ p = "loop" => ~cancelled
    /\ IF chan[p] = "none" /\ ~up THEN Fail(p)
       ELSE /\ Go(p, "exchange")
            /\ IF chan[p] = "none" THEN SetChan(p, "open") ELSE UNCHANGED chan
            /\ UNCHANGED <<broker, name>>

DeclareExchange(p) ==
    /\ pc[p] = "exchange"
    /\ IF chan[p] = "dead" \/ exchange = "other" THEN Fail(p)
       ELSE /\ exchange' = "ours" /\ Go(p, "deadLetter")
            /\ UNCHANGED <<deadLetter, queues, bound, orphans, chan, name>>

DeclareDeadLetter(p) ==  \* it needs a named queue
    /\ pc[p] = "deadLetter"
    /\ IF ~ServerNamed /\ chan[p] = "dead" THEN Fail(p)
       ELSE /\ deadLetter' = ~ServerNamed /\ Go(p, "queue")
            /\ UNCHANGED <<exchange, queues, bound, orphans, chan, name>>

FreeNames == Names \ (queues \cup {queue, name["loop"], name["refresh"]})
NewName == CHOOSE q \in FreeNames : TRUE

DeclareQueueAgain(p) ==  \* mutant: the refresh declares the server-named queue, too
    /\ pc[p] = "queue"
    /\ IF kind # "foreign" /\ chan[p] = "dead" THEN Fail(p)
       ELSE /\ name' = [name EXCEPT ![p] = IF ServerNamed THEN NewName ELSE queue]
            /\ queues' = IF kind = "foreign" THEN queues ELSE queues \cup {name'[p]}
            /\ Go(p, "bind")
            /\ UNCHANGED <<exchange, deadLetter, bound, orphans, chan>>

(* An empty name has the server choose one, a new one each time, whatever    *)
(* the flags.  A refresh leaves such a queue alone, and reads its name.      *)
Asks(p) == ServerNamed /\ p = "loop"
Declares(p) == kind = "own" \/ Asks(p)

DeclareQueue(p) ==
    /\ pc[p] = "queue"
    /\ Asks(p) => FreeNames # {}
    /\ IF Declares(p) /\ chan[p] = "dead" THEN Fail(p)
       ELSE /\ name' = [name EXCEPT ![p] = IF Asks(p) THEN NewName ELSE queue]
            /\ queues' = IF Declares(p) THEN queues \cup {name'[p]} ELSE queues
            /\ Go(p, "bind")
            /\ UNCHANGED <<exchange, deadLetter, bound, orphans, chan>>

Bind(p) ==
    /\ pc[p] = "bind"
    /\ IF chan[p] = "dead" \/ name[p] \notin queues \/ exchange = "none" THEN Fail(p)
       ELSE /\ bound' = bound \cup {name[p]}
            /\ IF p = "loop" THEN Go(p, "install") /\ UNCHANGED name
               ELSE Go(p, "idle") /\ name' = [name EXCEPT ![p] = 0]
            /\ UNCHANGED <<exchange, deadLetter, queues, orphans, chan>>

(* A call for a channel or for a declaration is refused although connection  *)
(* and channel are in order: no channel to be had, access refused, a queue   *)
(* locked by another connection.                                             *)
Refused(p) ==
    /\ \/ pc[p] = Rest(p) /\ chan[p] = "none" /\ (p = "loop" => ~cancelled)
       \/ pc[p] \in {"exchange", "bind"}
       \/ pc[p] = "deadLetter" /\ ~ServerNamed
       \/ pc[p] = "queue" /\ Declares(p)
    /\ Fail(p)
    /\ calm' = IF p = "refresh" THEN 0 ELSE calm
    /\ UNCHANGED <<link, consumer, cancelled, closing, meddled>>

Declare(p) ==
    /\ Open(p) \/ DeclareExchange(p) \/ DeclareDeadLetter(p) \/ DeclareQueue(p) \/ Bind(p)
    /\ UNCHANGED <<link, consumer, cancelled, closing, meddled>>

(* calm counts the beginning and the end of a round.                         *)
Refresh ==
    /\ Declare("refresh")
    /\ LET begins == pc["refresh"] = "idle"
           ends == pc'["refresh"] = "idle" /\ (begins \/ calm % 2 = 1)
       IN  calm' = IF calm = 4 THEN 4
                   ELSE calm + (IF begins THEN 1 ELSE 0) + (IF ends THEN 1 ELSE 0)

RefreshStops ==
    /\ pc["refresh"] = "idle" /\ closed
    /\ Go("refresh", "stopped") /\ SetChan("refresh", "none")
    /\ UNCHANGED <<link, broker, consumer, name, cancelled, closing, changes>>

-----------------------------------------------------------------------------
(* consumeLoop. *)

Start ==
    /\ pc["loop"] = "off" /\ ~closed
    /\ Go("loop", "top") /\ cancelled' = FALSE
    /\ UNCHANGED <<link, broker, consumer, chan, name, closing, changes>>

Stop ==
    /\ pc["loop"] # "off" /\ ~cancelled /\ cancelled' = TRUE
    /\ UNCHANGED <<link, broker, consumer, pc, chan, name, closing, changes>>

Top ==
    /\ pc["loop"] = "top"
    /\ Go("loop", IF cancelled THEN "off" ELSE IF chan["consume"] = "none" THEN "wait" ELSE "consume")
    /\ UNCHANGED <<link, broker, consumer, chan, name, cancelled, closing, changes>>

ConsumeUnchecked ==  \* mutant: the error of basic.consume is not looked at
    /\ pc["loop"] = "consume"
    /\ Go("loop", "forward") /\ subscribed' = TRUE
    /\ UNCHANGED <<link, broker, config, queue, chan, name, cancelled, closing, changes>>

(* From a queue there is; or it fails, also on a queue there is that others  *)
(* consume from exclusively or that we may not read: the channel is spent,   *)
(* and the next setup has another queue named.                               *)
Consume ==
    /\ pc["loop"] = "consume"
    /\ \/ /\ chan["consume"] = "open" /\ queue \in queues
          /\ Go("loop", "forward") /\ subscribed' = TRUE /\ UNCHANGED <<chan, orphans>>
       \/ /\ Go("loop", "wait") /\ SetChan("consume", "none") /\ UNCHANGED subscribed
          /\ Left(queue)
    /\ UNCHANGED <<link, exchange, deadLetter, queues, bound, config, queue, name, cancelled,
                   closing, changes>>

ForwardEnds ==  \* the channel died, or the broker cancelled the consumer
    /\ pc["loop"] = "forward" /\ ~subscribed
    /\ Go("loop", "wait")
    /\ UNCHANGED <<link, broker, consumer, chan, name, cancelled, closing, changes>>

ForwardCancelled ==  \* a closing consumer leaves it to the channel to unregister
    /\ pc["loop"] = "forward" /\ cancelled
    /\ Go("loop", "off")
    /\ IF closed THEN UNCHANGED <<subscribed, queues, bound, orphans, calm>> ELSE Unregister
    /\ UNCHANGED <<link, exchange, deadLetter, config, queue, chan, name, cancelled, closing, meddled>>

WaitCancelled ==
    /\ pc["loop"] = "wait" /\ cancelled /\ Go("loop", "off")
    /\ UNCHANGED <<link, broker, consumer, chan, name, cancelled, closing, changes>>

Install ==  \* with the channel comes the queue; the old channel is closed
    /\ pc["loop"] = "install"
    /\ IF closed
         THEN /\ Go("loop", "off") /\ SetChan("loop", "none") /\ Left(name["loop"])
              /\ UNCHANGED queue
         ELSE /\ Go("loop", "top") /\ queue' = name["loop"] /\ UNCHANGED orphans
              /\ chan' = [chan EXCEPT !["loop"] = "none", !["consume"] = chan["loop"]]
    /\ name' = [name EXCEPT !["loop"] = 0]
    /\ calm' = IF queue' = queue THEN calm ELSE 0
    /\ UNCHANGED <<link, exchange, deadLetter, queues, bound, config, subscribed, cancelled,
                   closing, meddled>>

LoopNext ==
    \/ Top \/ Consume \/ ForwardEnds \/ ForwardCancelled \/ WaitCancelled
    \/ Declare("loop") /\ UNCHANGED calm
    \/ Refused("loop")
    \/ Install

-----------------------------------------------------------------------------
(* withChannel, for whoever gets opsMu.  A call made on a closed consumer    *)
(* returns ErrShuttingDown and changes nothing.                              *)

UseOps ==  \* a dead channel is dropped, and one is opened if there is none
    IF chan["ops"] = "open" THEN Go("ops", "call") /\ UNCHANGED chan
    ELSE IF up THEN Go("ops", "call") /\ SetChan("ops", "open")
    ELSE SetChan("ops", "none") /\ UNCHANGED pc

OpsTakeUnchecked ==  \* mutant: c.closed is not read under opsMu
    /\ pc["ops"] = "free"
    /\ UseOps
    /\ UNCHANGED <<link, broker, consumer, name, cancelled, closing, changes>>

OpsTake ==
    /\ pc["ops"] = "free" /\ ~closed
    /\ UseOps
    /\ UNCHANGED <<link, broker, consumer, name, cancelled, closing, changes>>

(* The call is answered, and may have changed anything; or it is refused,    *)
(* or fails with its channel.                                                *)
OpsCall ==
    /\ pc["ops"] = "call" /\ Go("ops", "free")
    /\ \/ /\ chan["ops"] = "open" /\ UNCHANGED chan
          /\ Change \/ UNCHANGED <<broker, subscribed, changes>>
       \/ SetChan("ops", "dead") /\ UNCHANGED <<broker, subscribed, changes>>
    /\ UNCHANGED <<link, config, queue, name, cancelled, closing>>

-----------------------------------------------------------------------------
(* CloseWithContext.  Each wait ends when what it waits for is over, or, as  *)
(* that may be a call to a broker that does not answer, in a timeout.        *)

Close ==
    /\ ~closed
    /\ closed' = TRUE /\ close' = "refresh" /\ cancelled' = TRUE
    /\ UNCHANGED <<link, broker, consumer, pc, chan, name, left, changes>>

Await(phase, next, over, u) ==
    /\ close = phase /\ close' = next
    /\ left' = IF over THEN left ELSE left \cup {u}

CloseRefresh ==
    /\ Await("refresh", "loops", pc["refresh"] = "stopped", "refresh")
    /\ UNCHANGED <<link, broker, consumer, pc, chan, name, cancelled, closed, changes>>

CloseLoops ==
    /\ pc["loop"] \notin {"top", "wait", "forward"}
    /\ Await("loops", "ops", pc["loop"] = "off", "consume")
    /\ UNCHANGED <<link, broker, consumer, pc, chan, name, cancelled, closed, changes>>

CloseOps ==
    /\ Await("ops", "channel", pc["ops"] = "free", "ops")
    /\ IF pc["ops"] = "free" THEN SetChan("ops", "none") ELSE UNCHANGED chan
    /\ UNCHANGED <<link, broker, consumer, pc, name, cancelled, closed, changes>>

CloseChannel ==  \* unless a loop may still be using it
    /\ close = "channel" /\ close' = "returned"
    /\ IF "consume" \in left THEN UNCHANGED <<chan, subscribed, queues, bound, orphans, calm>>
       ELSE SetChan("consume", "none") /\ Unregister
    /\ UNCHANGED <<link, exchange, deadLetter, config, queue, pc, name, cancelled, closed, left, meddled>>

Next ==
    \/ Lose \/ Reconnect \/ Exception \/ Meddle
    \/ Refresh \/ Refused("refresh") \/ RefreshStops
    \/ Start \/ Stop \/ LoopNext
    \/ OpsTake \/ OpsCall
    \/ Close \/ CloseRefresh \/ CloseLoops \/ CloseOps \/ CloseChannel

Spec == Init /\ [][Next]_vars

-----------------------------------------------------------------------------
(* Properties. *)

(* declareQueue (534-542): an exclusive auto-delete queue "lives and dies    *)
(* with this connection", and only a setup has one named.  So whatever the   *)
(* order of losses, exceptions, changes by others, refreshes, Stop and       *)
(* Start, the server has named one queue only beside the one read from and   *)
(* that of a setup in progress if the setup failed behind the declaration,   *)
(* or basic.consume was refused on it, or Close came first.                  *)
NoStrayQueue ==
    Private => queues \ {0} \subseteq {queue, name["loop"]} \cup orphans

(* refreshTopology (661-664): what is deleted while the connection and the   *)
(* channel stay healthy is back after two rounds of the refresh, the first   *)
(* of which may have met a channel that was dead.  An exchange of another    *)
(* type is in the way of everything, and a missing queue that is not the     *)
(* refresh's to declare of its binding.  A round that the broker refuses     *)
(* without such a reason does not count.                                     *)
RestoredInTwoRounds ==
    calm = 4 /\ up /\ exchange # "other" =>
        /\ exchange = "ours" /\ (~ServerNamed => deadLetter)
        /\ kind = "own" \/ queue \in queues => queue \in bound

(* withChannel (1150-1154), Close: once Close has returned, every channel    *)
(* that is still open is one it gave up waiting for.                         *)
NothingLeftOpen ==
    close = "returned" =>
        \A u \in {"refresh", "ops", "consume"} : chan[u] = "open" => u \in left

(* NewConsumer (362-364) says that an empty name, in config.Queue or in a    *)
(* QueueConfig, declares a private queue, exclusive and auto-delete, and     *)
(* consumes from it; so NoStrayQueue would hold of every such consumer.  But *)
(* declareQueue (525-533) gives the queue the flags of the QueueConfig, and  *)
(* without those two the queue of every setup outlives the next.             *)
UnnamedIsPrivate ==
    ServerNamed => queues \ {0} \subseteq {queue, name["loop"]} \cup orphans
=============================================================================

--------------------------- MODULE TopologyProofs ---------------------------
(***************************************************************************)
(* Topology for every number of connections, names and changes: its types, *)
(* that a consumer leaves no queue of its own behind, that two rounds of   *)
(* the refresh restore what it declares, and that Close leaves no channel  *)
(* open but those it gave up waiting for.                                  *)
(***************************************************************************)
EXTENDS Topology, TLAPS

(* TypeOK in parts, with the shape of pc, which TypeOK leaves to Init.     *)
Scalars ==
    /\ gen \in 1..MaxGen /\ up \in BOOLEAN
    /\ exchange \in {"none", "ours", "other"} /\ deadLetter \in BOOLEAN
    /\ config \in Configs
    /\ cancelled \in BOOLEAN /\ closed \in BOOLEAN
    /\ close \in {"no", "refresh", "loops", "ops", "channel", "returned"}
    /\ left \subseteq {"refresh", "ops", "consume"}
    /\ meddled \in 0..MaxMeddling

Queues ==
    /\ queues \subseteq Names \cup {0} /\ bound \subseteq queues
    /\ orphans \subseteq queues \ {0}
    /\ queue \in Names \cup {0}

Naming == name \in [{"loop", "refresh"} -> Names \cup {0}]

LoopPoints == {"off", "top", "consume", "forward", "wait", "install"} \cup SetupPoints
RefreshPoints == {"idle", "stopped"} \cup SetupPoints
Places ==
    /\ pc \in [{"loop", "refresh", "ops"} ->
                 LoopPoints \cup RefreshPoints \cup {"free", "call"}]
    /\ pc["loop"] \in LoopPoints /\ pc["refresh"] \in RefreshPoints
    /\ pc["ops"] \in {"free", "call"}
    /\ chan \in [{"loop", "refresh", "ops", "consume"} -> {"none", "open", "dead"}]

(* Who is registered: the loop that forwards, and after Close the channel  *)
(* that it left behind.                                                    *)
Registered ==
    /\ subscribed \in BOOLEAN
    /\ subscribed => /\ chan["consume"] = "open" /\ queue \in queues
                     /\ pc["loop"] = "forward" \/ (pc["loop"] = "off" /\ closed)

(* calm is odd within a round that began after the latest change.          *)
Rounds == calm \in 0..4 /\ (calm \in {1, 3} => pc["refresh"] \in SetupPoints)

Typing == Scalars /\ Queues /\ Naming /\ Places /\ Registered /\ Rounds

-----------------------------------------------------------------------------
(* A setup or a refresh on its way has a channel.                          *)
UnderWay ==
    /\ pc["loop"] \in SetupPoints \cup {"install"} => chan["loop"] # "none"
    /\ pc["refresh"] \in SetupPoints => chan["refresh"] # "none"

(* What Close has waited for is over, or among what it gave up, and it does*)
(* not begin again.                                                        *)
ClosingInOrder ==
    /\ closed <=> close # "no"
    /\ pc["refresh"] = "stopped" => chan["refresh"] = "none"
    /\ close \in {"loops", "ops", "channel", "returned"} =>
          pc["refresh"] = "stopped" \/ "refresh" \in left
    /\ close \in {"ops", "channel", "returned"} => pc["loop"] = "off" \/ "consume" \in left
    /\ close \in {"channel", "returned"} =>
          (pc["ops"] = "free" /\ chan["ops"] = "none") \/ "ops" \in left
    /\ close = "returned" => chan["consume"] = "none" \/ "consume" \in left

(* Only a server-named queue has a name other than the configured one.     *)
Configured == ~ServerNamed => queue = 0 /\ name["loop"] = 0

(* Before a setup names another queue, the one the consumer read from is   *)
(* gone, with its connection or as an auto-delete queue with its           *)
(* subscription; or basic.consume has been refused on it.                  *)
QueueGone == queue # 0 => queue \notin queues \/ queue \in orphans
GoneBeforeSetup ==
    /\ pc["loop"] \notin {"bind", "install"} => name["loop"] = 0
    /\ Private =>
          /\ chan["loop"] = "dead" => name["loop"] \notin queues \ {0}
          /\ chan["consume"] # "open" => QueueGone \/ (closed /\ pc["loop"] = "off")
          /\ pc["loop"] \in {"wait", "install"} \cup SetupPoints => QueueGone
          /\ pc["loop"] = "forward" /\ ~subscribed => QueueGone

(* The second round of the refresh since anything changed has a channel that *)
(* works, and has restored what is behind it.                              *)
SecondRound ==
    /\ up /\ calm \in 2..4 => chan["refresh"] # "dead"
    /\ up /\ calm = 3 /\ exchange # "other" =>
          /\ pc["refresh"] # "exchange" => exchange = "ours"
          /\ pc["refresh"] \in {"queue", "bind"} /\ ~ServerNamed => deadLetter
          /\ pc["refresh"] = "bind" => name["refresh"] = queue
          /\ pc["refresh"] = "bind" /\ kind = "own" => queue \in queues

Behaviour ==
    /\ UnderWay /\ ClosingInOrder
    /\ Configured /\ GoneBeforeSetup /\ NoStrayQueue
    /\ SecondRound /\ RestoredInTwoRounds

IInv == Typing /\ Behaviour

-----------------------------------------------------------------------------
(* Whose queue it is, and its flags.                                       *)
LEMMA Configurations ==
    ASSUME config \in Configs
    PROVE  /\ kind \in {"own", "unnamed", "foreign"}
           /\ flags \subseteq {"exclusive", "autoDelete"}
           /\ kind = "foreign" => ~Private
<1>1. config \in {"own", "unnamed", "foreign"} \X SUBSET {"exclusive", "autoDelete"}
  BY TopologyAssumption
<1>2. kind \in {"own", "unnamed", "foreign"} /\ flags \subseteq {"exclusive", "autoDelete"}
  BY <1>1 DEF config
<1>3. config[1] = kind /\ config[2] = flags BY DEF config
<1>4. kind = "foreign" => flags = {} BY <1>3, TopologyAssumption
<1>5. kind = "foreign" => ~Private BY <1>4 DEF Private
<1>6. QED BY <1>2, <1>5

(* The constants are typed, and NewConsumer leaves the consumer in order.  *)
LEMMA InitIInv == Init => IInv
<1> SUFFICES ASSUME Init PROVE IInv
  OBVIOUS
<1> USE TopologyAssumption DEF Init
<1>1. Typing
  <2>2. Scalars
    <3>1. deadLetter \in BOOLEAN BY Zenon
    <3>2. gen \in 1..MaxGen /\ meddled \in 0..MaxMeddling OBVIOUS
    <3>3. exchange \in {"none", "ours", "other"} /\ config \in Configs OBVIOUS
    <3>4. close \in {"no", "refresh", "loops", "ops", "channel", "returned"} OBVIOUS
    <3>5. up \in BOOLEAN /\ cancelled \in BOOLEAN /\ closed \in BOOLEAN OBVIOUS
    <3>6. left \subseteq {"refresh", "ops", "consume"} OBVIOUS
    <3>7. QED BY <3>1, <3>2, <3>3, <3>4, <3>5, <3>6 DEF Scalars
  <2>3. Queues /\ Naming BY DEF Queues, Naming, Names
  <2>4. Places BY DEF Places, LoopPoints, RefreshPoints
  <2>5. Registered BY DEF Registered
  <2>6. Rounds BY DEF Rounds
  <2>7. QED BY <2>2, <2>3, <2>4, <2>5, <2>6 DEF Typing
<1>2. UnderWay /\ ClosingInOrder BY DEF UnderWay, ClosingInOrder, SetupPoints
<1>3. Configured /\ GoneBeforeSetup /\ NoStrayQueue
  BY DEF Configured, GoneBeforeSetup, QueueGone, NoStrayQueue, SetupPoints
<1>4. SecondRound /\ RestoredInTwoRounds BY DEF SecondRound, RestoredInTwoRounds
<1>5. QED BY <1>1, <1>2, <1>3, <1>4 DEF IInv, Behaviour

(* What changes at the broker when somebody changes one thing there.       *)
LEMMA ChangeSum ==
    ASSUME Typing, Change
    PROVE  /\ ~closed /\ calm' = 0 /\ meddled' \in 0..MaxMeddling /\ meddled' # 0
           /\ exchange' \in {"none", "ours", "other"} /\ deadLetter' \in BOOLEAN
           /\ queues' \subseteq queues \/ (kind = "foreign" /\ queues' = {0})
           /\ bound' \subseteq queues'
           /\ orphans' \subseteq queues' \ {0} /\ orphans \cap queues' \subseteq orphans'
           /\ subscribed' \in BOOLEAN /\ (subscribed' => subscribed /\ queue \in queues')
           /\ subscribed /\ ~subscribed' => queue \notin queues'
<1>1. ~closed /\ calm' = 0 /\ meddled' \in 0..MaxMeddling /\ meddled' # 0
  BY TopologyAssumption DEF Change, Typing, Scalars
<1>2. exchange' \in {"none", "ours", "other"} BY DEF Change, Typing, Scalars
<1>3. deadLetter' \in BOOLEAN BY DEF Change, Typing, Scalars
<1>4. /\ queues' \subseteq queues \/ (kind = "foreign" /\ queues' = {0})
      /\ bound' \subseteq queues'
      /\ orphans' \subseteq queues' \ {0} /\ orphans \cap queues' \subseteq orphans'
  BY DEF Change, Gone, Typing, Queues
<1>5. subscribed' \in BOOLEAN BY DEF Change, Typing, Registered
<1>6. subscribed' => subscribed /\ queue \in queues'
  BY DEF Change, Gone, Typing, Registered
<1>7. subscribed /\ ~subscribed' => queue \notin queues'
  BY DEF Change, Gone, Typing, Registered
<1>8. QED BY <1>1, <1>2, <1>3, <1>4, <1>5, <1>6, <1>7

(* Losing and finding the connection, exceptions, and changes by others.   *)
LEMMA OthersStep ==
    ASSUME IInv, Lose \/ Reconnect \/ Exception \/ Meddle
    PROVE  IInv'
<1> USE TopologyAssumption
    DEF IInv, Typing, Scalars, Queues, Naming, Places, LoopPoints, RefreshPoints,
        Registered, Rounds,
        Behaviour, UnderWay, ClosingInOrder, Configured, GoneBeforeSetup, QueueGone,
        NoStrayQueue, Private, ServerNamed, config, SecondRound, RestoredInTwoRounds,
        SetupPoints, Names, link, broker, consumer, closing, changes
<1>1. CASE Lose
  <2> USE <1>1 DEF Lose, Gone
  <2>1. Scalars' OBVIOUS
  <2>2. (Places /\ Rounds)' OBVIOUS
  <2>3. (Queues /\ Naming)' OBVIOUS
  <2>4. Registered' OBVIOUS
  <2>5. (UnderWay /\ ClosingInOrder /\ Configured)' OBVIOUS
  <2>6. GoneBeforeSetup' OBVIOUS
  <2>7. NoStrayQueue' OBVIOUS
  <2>8. (SecondRound /\ RestoredInTwoRounds)' OBVIOUS
  <2>9. QED BY <2>1, <2>2, <2>3, <2>4, <2>5, <2>6, <2>7, <2>8
<1>2. CASE Reconnect BY <1>2 DEF Reconnect
<1>3. CASE Exception
  <2> USE <1>3 DEF Exception, Unregister, Gone, SetChan
  <2>1. Scalars' OBVIOUS
  <2>2. (Places /\ Rounds)' OBVIOUS
  <2>3. (Queues /\ Naming)' OBVIOUS
  <2>4. Registered' OBVIOUS
  <2>5. (UnderWay /\ ClosingInOrder /\ Configured)' OBVIOUS
  <2>6. GoneBeforeSetup' OBVIOUS
  <2>7. NoStrayQueue' OBVIOUS
  <2>8. (SecondRound /\ RestoredInTwoRounds)' OBVIOUS
  <2>9. QED BY <2>1, <2>2, <2>3, <2>4, <2>5, <2>6, <2>7, <2>8
<1>4. CASE Meddle
  <2> USE <1>4, ChangeSum, Configurations DEF Meddle
  <2>1. Scalars' OBVIOUS
  <2>2. (Places /\ Rounds)' OBVIOUS
  <2>3. (Queues /\ Naming)' OBVIOUS
  <2>4. Registered' OBVIOUS
  <2>5. (UnderWay /\ ClosingInOrder /\ Configured)' OBVIOUS
  <2>6. GoneBeforeSetup' OBVIOUS
  <2>7. NoStrayQueue' OBVIOUS
  <2>8. (SecondRound /\ RestoredInTwoRounds)' OBVIOUS
  <2>9. QED BY <2>1, <2>2, <2>3, <2>4, <2>5, <2>6, <2>7, <2>8
<1>5. QED BY <1>1, <1>2, <1>3, <1>4

(* The consume loop apart from its setups, and the end of the refresh loop.*)
LEMMA LoopStep ==
    ASSUME IInv,
           \/ Top \/ Consume \/ ForwardEnds \/ ForwardCancelled \/ WaitCancelled
           \/ Install \/ Start \/ Stop \/ RefreshStops
    PROVE  IInv'
<1> USE TopologyAssumption
    DEF IInv, Typing, Scalars, Queues, Naming, Places, LoopPoints, RefreshPoints,
        Registered, Rounds,
        Behaviour, UnderWay, ClosingInOrder, Configured, GoneBeforeSetup, QueueGone,
        NoStrayQueue, Private, ServerNamed, config, SecondRound, RestoredInTwoRounds,
        SetupPoints, Names, link, broker, consumer, closing, changes
<1>1. CASE Top BY <1>1 DEF Top, Go
<1>2. CASE Consume
  <2> USE <1>2 DEF Consume, Left, Go, SetChan
  <2>1. Scalars' OBVIOUS
  <2>2. (Places /\ Rounds)' OBVIOUS
  <2>3. (Queues /\ Naming)' OBVIOUS
  <2>4. Registered'
    <3>1. ~subscribed OBVIOUS
    <3>2. subscribed' \in BOOLEAN /\ queue' = queue /\ queues' = queues OBVIOUS
    <3>3. subscribed' => chan' = chan /\ chan["consume"] = "open" /\ queue \in queues
                         /\ pc'["loop"] = "forward"
      BY <3>1
    <3>4. QED BY <3>2, <3>3
  <2>5. (UnderWay /\ ClosingInOrder /\ Configured)' OBVIOUS
  <2>6. GoneBeforeSetup' OBVIOUS
  <2>7. NoStrayQueue' OBVIOUS
  <2>8. (SecondRound /\ RestoredInTwoRounds)' OBVIOUS
  <2>9. QED BY <2>1, <2>2, <2>3, <2>4, <2>5, <2>6, <2>7, <2>8
<1>3. CASE ForwardEnds BY <1>3 DEF ForwardEnds, Go
<1>4. CASE ForwardCancelled
  <2> USE <1>4 DEF ForwardCancelled, Go, Unregister, Gone
  <2>1. Scalars' OBVIOUS
  <2>2. (Places /\ Rounds)' OBVIOUS
  <2>3. (Queues /\ Naming)' OBVIOUS
  <2>4. Registered' OBVIOUS
  <2>5. (UnderWay /\ ClosingInOrder /\ Configured)' OBVIOUS
  <2>6. GoneBeforeSetup' OBVIOUS
  <2>7. NoStrayQueue' OBVIOUS
  <2>8. (SecondRound /\ RestoredInTwoRounds)' OBVIOUS
  <2>9. QED BY <2>1, <2>2, <2>3, <2>4, <2>5, <2>6, <2>7, <2>8
<1>5. CASE WaitCancelled BY <1>5 DEF WaitCancelled, Go
<1>6. CASE Install
  <2> USE <1>6 DEF Install, Left, Go, SetChan
  <2>1. Scalars' OBVIOUS
  <2>2. (Places /\ Rounds)' OBVIOUS
  <2>3. (Queues /\ Naming)'
    <3>1. queues' = queues /\ bound' = bound /\ queue' \in Names \cup {0} OBVIOUS
    <3>2. orphans' \subseteq queues' \ {0} OBVIOUS
    <3>3. Naming' OBVIOUS
    <3>4. QED BY <3>1, <3>2, <3>3
  <2>4. Registered' OBVIOUS
  <2>5. (UnderWay /\ ClosingInOrder /\ Configured)' OBVIOUS
  <2>6. GoneBeforeSetup' OBVIOUS
  <2>7. NoStrayQueue' OBVIOUS
  <2>8. (SecondRound /\ RestoredInTwoRounds)' OBVIOUS
  <2>9. QED BY <2>1, <2>2, <2>3, <2>4, <2>5, <2>6, <2>7, <2>8
<1>7. CASE Start
  <2> USE <1>7 DEF Start, Go
  <2>1. Scalars' OBVIOUS
  <2>2. (Places /\ Rounds)' OBVIOUS
  <2>3. (Queues /\ Naming)' OBVIOUS
  <2>4. Registered' OBVIOUS
  <2>5. (UnderWay /\ ClosingInOrder /\ Configured)' OBVIOUS
  <2>6. GoneBeforeSetup' OBVIOUS
  <2>7. NoStrayQueue' OBVIOUS
  <2>8. (SecondRound /\ RestoredInTwoRounds)' OBVIOUS
  <2>9. QED BY <2>1, <2>2, <2>3, <2>4, <2>5, <2>6, <2>7, <2>8
<1>8. CASE Stop BY <1>8 DEF Stop
<1>9. CASE RefreshStops BY <1>9 DEF RefreshStops, Go, SetChan
<1>10. QED BY <1>1, <1>2, <1>3, <1>4, <1>5, <1>6, <1>7, <1>8, <1>9

(* The calls under opsMu, and Close.                                       *)
LEMMA CloseStep ==
    ASSUME IInv,
           OpsTake \/ OpsCall \/ Close \/ CloseRefresh \/ CloseLoops \/ CloseOps \/ CloseChannel
    PROVE  IInv'
<1> USE TopologyAssumption
    DEF IInv, Typing, Scalars, Queues, Naming, Places, LoopPoints, RefreshPoints,
        Registered, Rounds,
        Behaviour, UnderWay, ClosingInOrder, Configured, GoneBeforeSetup, QueueGone,
        NoStrayQueue, Private, ServerNamed, config, SecondRound, RestoredInTwoRounds,
        SetupPoints, Names, link, broker, consumer, closing, changes
<1>1. CASE OpsTake BY <1>1 DEF OpsTake, UseOps, Go, SetChan
<1>2. CASE OpsCall
  <2> USE <1>2, ChangeSum, Configurations DEF OpsCall, Go, SetChan
  <2>1. Scalars' OBVIOUS
  <2>2. (Places /\ Rounds)' OBVIOUS
  <2>3. (Queues /\ Naming)' OBVIOUS
  <2>4. Registered' OBVIOUS
  <2>5. (UnderWay /\ ClosingInOrder /\ Configured)' OBVIOUS
  <2>6. GoneBeforeSetup' OBVIOUS
  <2>7. NoStrayQueue' OBVIOUS
  <2>8. (SecondRound /\ RestoredInTwoRounds)' OBVIOUS
  <2>9. QED BY <2>1, <2>2, <2>3, <2>4, <2>5, <2>6, <2>7, <2>8
<1>3. CASE Close BY <1>3 DEF Close
<1>4. CASE CloseRefresh BY <1>4 DEF CloseRefresh, Await
<1>5. CASE CloseLoops BY <1>5 DEF CloseLoops, Await
<1>6. CASE CloseOps BY <1>6 DEF CloseOps, Await, SetChan
<1>7. CASE CloseChannel
  <2> USE <1>7 DEF CloseChannel, Unregister, Gone, SetChan
  <2>1. Scalars' OBVIOUS
  <2>2. (Places /\ Rounds)' OBVIOUS
  <2>3. (Queues /\ Naming)' OBVIOUS
  <2>4. Registered' OBVIOUS
  <2>5. (UnderWay /\ ClosingInOrder /\ Configured)' OBVIOUS
  <2>6. GoneBeforeSetup' BY ZenonT(40)
  <2>7. NoStrayQueue' OBVIOUS
  <2>8. (SecondRound /\ RestoredInTwoRounds)' OBVIOUS
  <2>9. QED BY <2>1, <2>2, <2>3, <2>4, <2>5, <2>6, <2>7, <2>8
<1>8. QED BY <1>1, <1>2, <1>3, <1>4, <1>5, <1>6, <1>7

(* What a refresh leaves alone, and the one queue it declares.             *)
LEMMA RefreshSum ==
    ASSUME Typing, Configured, Refresh
    PROVE  /\ pc'["loop"] = pc["loop"] /\ name'["loop"] = name["loop"]
           /\ chan'["loop"] = chan["loop"] /\ chan'["consume"] = chan["consume"]
           /\ UNCHANGED <<config, orphans, queue, subscribed, closed, meddled>>
           /\ queues' = queues \/ (kind = "own" /\ queues' = queues \cup {0})
           /\ exchange' = exchange \/ (exchange # "other" /\ exchange' = "ours")
<1> USE DEF Typing, Places, Naming, Configured, Refresh, Declare, Go, SetChan, Rest, Fail,
            Left, Asks, Declares, ServerNamed, broker, consumer, closing
<1>1. CASE Open("refresh") BY <1>1 DEF Open
<1>2. CASE DeclareExchange("refresh") BY <1>2 DEF DeclareExchange
<1>3. CASE DeclareDeadLetter("refresh") BY <1>3 DEF DeclareDeadLetter
<1>4. CASE DeclareQueue("refresh") BY <1>4 DEF DeclareQueue
<1>5. CASE Bind("refresh") BY <1>5 DEF Bind
<1>6. QED BY <1>1, <1>2, <1>3, <1>4, <1>5

(* The queue that a setup deals with: none after a failure, the configured one,  *)
(* or one that has just been given a name of its own.                      *)
LEMMA SetupQueue ==
    ASSUME Typing, Configured, DeclareQueue("loop"), Declare("loop")
    PROVE  /\ \/ name'["loop"] = 0 /\ queues' = queues
              \/ name'["loop"] = 0 /\ kind = "own" /\ chan["loop"] # "dead"
                 /\ queues' = queues \cup {0}
              \/ /\ ServerNamed /\ chan["loop"] # "dead" /\ pc'["loop"] = "bind"
                 /\ name'["loop"] \in FreeNames /\ queues' = queues \cup {name'["loop"]}
           /\ orphans \subseteq orphans' /\ orphans' \subseteq queues' \ {0}
<1>1. FreeNames # {} => NewName \in FreeNames BY DEF NewName
<1>2. kind \in {"own", "unnamed", "foreign"} BY Configurations DEF Typing, Scalars
<1>3. CASE kind = "unnamed"
  BY <1>1, <1>3 DEF DeclareQueue, Asks, Declares, ServerNamed, Typing, Queues, Naming, Places,
                    Fail, Left, Go, broker
<1>4. CASE kind = "own"
  BY <1>4 DEF DeclareQueue, Asks, Declares, ServerNamed, Typing, Queues, Naming, Configured,
              Places, Fail, Left, Go, broker
<1>5. CASE kind = "foreign"
  BY <1>5 DEF DeclareQueue, Asks, Declares, ServerNamed, Typing, Queues, Naming, Configured,
              Places, Fail, Left, Go, broker
<1>6. QED BY <1>2, <1>3, <1>4, <1>5

(* A binding is to a queue there is.                                       *)
LEMMA BindBinds ==
    ASSUME Queues, NEW p \in {"loop", "refresh"}, Bind(p)
    PROVE  bound' \subseteq queues'
<1>1. queues' = queues BY DEF Bind, Fail, broker
<1>2. bound' = bound \/ (name[p] \in queues /\ bound' = bound \cup {name[p]})
  BY DEF Bind, Fail, broker
<1>3. QED BY <1>1, <1>2 DEF Queues

(* A step of the refresh.                                                  *)
LEMMA RefreshStep ==
    ASSUME IInv, Refresh
    PROVE  IInv'
<1> USE TopologyAssumption
    DEF IInv, Typing, Scalars, Queues, Naming, Places, LoopPoints, RefreshPoints,
        Registered, Rounds,
        Behaviour, UnderWay, ClosingInOrder, Configured, GoneBeforeSetup, QueueGone,
        NoStrayQueue, Private, ServerNamed, config, SecondRound, RestoredInTwoRounds,
        SetupPoints, Names, link, broker, consumer, closing, changes
<1>1. GoneBeforeSetup' /\ NoStrayQueue' BY RefreshSum
<1>2. CASE Open("refresh")
  <2> USE <1>2 DEF Open, Go, SetChan, Rest, Fail, Left, Declare, Refresh
  <2>1. Scalars' OBVIOUS
  <2>2. (Places /\ Rounds)' OBVIOUS
  <2>3. Queues' OBVIOUS
  <2>4. Naming' OBVIOUS
  <2>5. Registered' OBVIOUS
  <2>6. (UnderWay /\ ClosingInOrder /\ Configured)' OBVIOUS
  <2>7. (SecondRound /\ RestoredInTwoRounds)' OBVIOUS
  <2>8. QED BY <1>1, <2>1, <2>2, <2>3, <2>4, <2>5, <2>6, <2>7
<1>3. CASE DeclareExchange("refresh")
  <2> USE <1>3 DEF DeclareExchange, Go, SetChan, Rest, Fail, Left, Declare, Refresh
  <2>1. Scalars' OBVIOUS
  <2>2. (Places /\ Rounds)' OBVIOUS
  <2>3. Queues' OBVIOUS
  <2>4. Naming' OBVIOUS
  <2>5. Registered' OBVIOUS
  <2>6. (UnderWay /\ ClosingInOrder /\ Configured)' OBVIOUS
  <2>7. (SecondRound /\ RestoredInTwoRounds)' OBVIOUS
  <2>8. QED BY <1>1, <2>1, <2>2, <2>3, <2>4, <2>5, <2>6, <2>7
<1>4. CASE DeclareDeadLetter("refresh")
  <2> USE <1>4 DEF DeclareDeadLetter, Go, SetChan, Rest, Fail, Left, Declare, Refresh
  <2>1. Scalars' OBVIOUS
  <2>2. (Places /\ Rounds)' OBVIOUS
  <2>3. Queues' OBVIOUS
  <2>4. Naming' OBVIOUS
  <2>5. Registered' OBVIOUS
  <2>6. (UnderWay /\ ClosingInOrder /\ Configured)' OBVIOUS
  <2>7. (SecondRound /\ RestoredInTwoRounds)' OBVIOUS
  <2>8. QED BY <1>1, <2>1, <2>2, <2>3, <2>4, <2>5, <2>6, <2>7
<1>5. CASE DeclareQueue("refresh")
  <2> USE <1>5 DEF DeclareQueue, Asks, Declares, Go, SetChan, Rest, Fail, Left, Declare, Refresh
  <2>1. Scalars' OBVIOUS
  <2>2. (Places /\ Rounds)' OBVIOUS
  <2>3. Queues'
    <3>1. bound' \subseteq queues' OBVIOUS
    <3>2. queues' \subseteq Names \cup {0} /\ queue' \in Names \cup {0} BY RefreshSum
    <3>3. QED BY <3>1, <3>2
  <2>4. Naming' OBVIOUS
  <2>5. Registered' OBVIOUS
  <2>6. (UnderWay /\ ClosingInOrder /\ Configured)' OBVIOUS
  <2>7. (SecondRound /\ RestoredInTwoRounds)' OBVIOUS
  <2>8. QED BY <1>1, <2>1, <2>2, <2>3, <2>4, <2>5, <2>6, <2>7
<1>6. CASE Bind("refresh")
  <2> USE <1>6 DEF Bind, Go, SetChan, Rest, Fail, Left, Declare, Refresh
  <2>1. Scalars' OBVIOUS
  <2>2. (Places /\ Rounds)' OBVIOUS
  <2>3. Queues'
    <3>1. bound' \subseteq queues' BY BindBinds
    <3>2. queues' \subseteq Names \cup {0} /\ queue' \in Names \cup {0} BY RefreshSum
    <3>3. QED BY <3>1, <3>2
  <2>4. Naming' OBVIOUS
  <2>5. Registered' OBVIOUS
  <2>6. (UnderWay /\ ClosingInOrder /\ Configured)' OBVIOUS
  <2>7. (SecondRound /\ RestoredInTwoRounds)' OBVIOUS
  <2>8. QED BY <1>1, <2>1, <2>2, <2>3, <2>4, <2>5, <2>6, <2>7
<1>7. QED BY <1>2, <1>3, <1>4, <1>5, <1>6 DEF Declare, Refresh

(* A step of a setup of the consume loop.                                  *)
LEMMA SetupStep ==
    ASSUME IInv, Declare("loop"), UNCHANGED calm
    PROVE  IInv'
<1> USE TopologyAssumption
    DEF IInv, Typing, Scalars, Queues, Naming, Places, LoopPoints, RefreshPoints,
        Registered, Rounds,
        Behaviour, UnderWay, ClosingInOrder, Configured, GoneBeforeSetup, QueueGone,
        NoStrayQueue, Private, ServerNamed, config, SecondRound, RestoredInTwoRounds,
        SetupPoints, Names, link, broker, consumer, closing, changes
<1>1. CASE Open("loop")
  <2> USE <1>1 DEF Open, Go, SetChan, Rest, Fail, Left, Declare
  <2>1. Scalars' OBVIOUS
  <2>2. (Places /\ Rounds)' OBVIOUS
  <2>3. Queues' OBVIOUS
  <2>4. Naming' OBVIOUS
  <2>5. Registered' OBVIOUS
  <2>6. (UnderWay /\ ClosingInOrder /\ Configured)' OBVIOUS
  <2>7. GoneBeforeSetup' BY ZenonT(40)
  <2>8. NoStrayQueue' OBVIOUS
  <2>9. (SecondRound /\ RestoredInTwoRounds)' OBVIOUS
  <2>10. QED BY <2>1, <2>2, <2>3, <2>4, <2>5, <2>6, <2>7, <2>8, <2>9
<1>2. CASE DeclareExchange("loop")
  <2> USE <1>2 DEF DeclareExchange, Go, SetChan, Rest, Fail, Left, Declare
  <2>1. Scalars' OBVIOUS
  <2>2. (Places /\ Rounds)' OBVIOUS
  <2>3. Queues' OBVIOUS
  <2>4. Naming' OBVIOUS
  <2>5. Registered' OBVIOUS
  <2>6. (UnderWay /\ ClosingInOrder /\ Configured)' OBVIOUS
  <2>7. GoneBeforeSetup' OBVIOUS
  <2>8. NoStrayQueue' OBVIOUS
  <2>9. (SecondRound /\ RestoredInTwoRounds)' OBVIOUS
  <2>10. QED BY <2>1, <2>2, <2>3, <2>4, <2>5, <2>6, <2>7, <2>8, <2>9
<1>3. CASE DeclareDeadLetter("loop")
  <2> USE <1>3 DEF DeclareDeadLetter, Go, SetChan, Rest, Fail, Left, Declare
  <2>1. Scalars' OBVIOUS
  <2>2. (Places /\ Rounds)' OBVIOUS
  <2>3. Queues' OBVIOUS
  <2>4. Naming' OBVIOUS
  <2>5. Registered' OBVIOUS
  <2>6. (UnderWay /\ ClosingInOrder /\ Configured)' OBVIOUS
  <2>7. GoneBeforeSetup' OBVIOUS
  <2>8. NoStrayQueue' OBVIOUS
  <2>9. (SecondRound /\ RestoredInTwoRounds)' OBVIOUS
  <2>10. QED BY <2>1, <2>2, <2>3, <2>4, <2>5, <2>6, <2>7, <2>8, <2>9
<1>4. CASE DeclareQueue("loop")
  <2> USE <1>4 DEF DeclareQueue, Asks, Declares, Go, SetChan, Rest, Fail, Left, Declare
  <2>1. Scalars' OBVIOUS
  <2>2. (Places /\ Rounds)' OBVIOUS
  <2>3. Queues' BY SetupQueue DEF FreeNames
  <2>4. Naming'
    <3>1. name'["loop"] \in Names \cup {0} BY SetupQueue DEF FreeNames
    <3>2. QED BY <3>1
  <2>5. Registered' OBVIOUS
  <2>6. (UnderWay /\ ClosingInOrder /\ Configured)' OBVIOUS
  <2>7. GoneBeforeSetup' BY SetupQueue DEF FreeNames
  <2>8. NoStrayQueue' BY SetupQueue DEF FreeNames
  <2>9. (SecondRound /\ RestoredInTwoRounds)' BY SetupQueue DEF FreeNames
  <2>10. QED BY <2>1, <2>2, <2>3, <2>4, <2>5, <2>6, <2>7, <2>8, <2>9
<1>5. CASE Bind("loop")
  <2> USE <1>5 DEF Bind, Go, SetChan, Rest, Fail, Left, Declare
  <2>1. Scalars' OBVIOUS
  <2>2. (Places /\ Rounds)' OBVIOUS
  <2>3. Queues'
    <3>1. bound' \subseteq queues' BY BindBinds
    <3>2. queues' \subseteq Names \cup {0} /\ queue' \in Names \cup {0} OBVIOUS
    <3>3. QED BY <3>1, <3>2
  <2>4. Naming' OBVIOUS
  <2>5. Registered' OBVIOUS
  <2>6. (UnderWay /\ ClosingInOrder /\ Configured)' OBVIOUS
  <2>7. GoneBeforeSetup' OBVIOUS
  <2>8. NoStrayQueue' OBVIOUS
  <2>9. (SecondRound /\ RestoredInTwoRounds)' OBVIOUS
  <2>10. QED BY <2>1, <2>2, <2>3, <2>4, <2>5, <2>6, <2>7, <2>8, <2>9
<1>6. QED BY <1>1, <1>2, <1>3, <1>4, <1>5 DEF Declare

(* What a refusal changes: the channel is given up, and a setup leaves the *)
(* queue it was given.                                                     *)
LEMMA RefusedSum ==
    ASSUME Typing, NEW p \in {"loop", "refresh"}, Refused(p)
    PROVE  /\ UNCHANGED <<link, consumer, cancelled, closing, meddled>>
           /\ UNCHANGED <<exchange, deadLetter, queues, bound>>
           /\ pc' = [pc EXCEPT ![p] = Rest(p)] /\ chan' = [chan EXCEPT ![p] = "none"]
           /\ name' = [name EXCEPT ![p] = 0]
           /\ IF p = "loop" THEN orphans' = orphans \cup (({name["loop"]} \cap queues) \ {0})
              ELSE orphans' = orphans
           /\ calm' = IF p = "refresh" THEN 0 ELSE calm
           /\ pc[p] \in {Rest(p)} \cup SetupPoints
BY DEF Refused, Fail, Left, Go, SetChan, Rest, SetupPoints

(* A refused call of a setup or of a refresh.                              *)
LEMMA RefusedStep ==
    ASSUME IInv, NEW p \in {"loop", "refresh"}, Refused(p)
    PROVE  IInv'
<1> USE TopologyAssumption
    DEF IInv, Typing, Scalars, Queues, Naming, Places, LoopPoints, RefreshPoints,
        Registered, Rounds,
        Behaviour, UnderWay, ClosingInOrder, Configured, GoneBeforeSetup, QueueGone,
        NoStrayQueue, Private, ServerNamed, config, SecondRound, RestoredInTwoRounds,
        SetupPoints, Names, link, broker, consumer, closing, changes, Rest
<1>1. CASE p = "loop"
  <2> USE <1>1, RefusedSum
  <2>1. Scalars' OBVIOUS
  <2>2. (Places /\ Rounds)' OBVIOUS
  <2>3. (Queues /\ Naming)'
    <3>1. queues' = queues /\ bound' = bound /\ queue' \in Names \cup {0} OBVIOUS
    <3>2. orphans' \subseteq queues' \ {0} OBVIOUS
    <3>3. Naming' OBVIOUS
    <3>4. QED BY <3>1, <3>2, <3>3
  <2>4. Registered' OBVIOUS
  <2>5. (UnderWay /\ ClosingInOrder /\ Configured)' OBVIOUS
  <2>6. GoneBeforeSetup' OBVIOUS
  <2>7. NoStrayQueue'
    <3>1. orphans \subseteq orphans' OBVIOUS
    <3>2. name["loop"] \in queues \ {0} => name["loop"] \in orphans' OBVIOUS
    <3>3. queues' = queues /\ queue' = queue /\ flags' = flags OBVIOUS
    <3>4. SUFFICES ASSUME Private, NEW q \in queues \ {0}, q # queue PROVE q \in orphans'
      BY <3>3
    <3>5. q \in {queue, name["loop"]} \cup orphans BY <3>4
    <3>6. QED BY <3>1, <3>2, <3>4, <3>5
  <2>8. (SecondRound /\ RestoredInTwoRounds)' OBVIOUS
  <2>9. QED BY <2>1, <2>2, <2>3, <2>4, <2>5, <2>6, <2>7, <2>8
<1>2. CASE p = "refresh"
  <2> USE <1>2, RefusedSum
  <2>1. Scalars' OBVIOUS
  <2>2. (Places /\ Rounds)' OBVIOUS
  <2>3. (Queues /\ Naming)'
    <3>1. queues' = queues /\ bound' = bound /\ queue' \in Names \cup {0} OBVIOUS
    <3>2. orphans' \subseteq queues' \ {0} OBVIOUS
    <3>3. Naming' OBVIOUS
    <3>4. QED BY <3>1, <3>2, <3>3
  <2>4. Registered' OBVIOUS
  <2>5. (UnderWay /\ ClosingInOrder /\ Configured)'
    <3>1. UnderWay' OBVIOUS
    <3>2. ClosingInOrder' OBVIOUS
    <3>3. Configured' OBVIOUS
    <3>4. QED BY <3>1, <3>2, <3>3
  <2>6. GoneBeforeSetup' OBVIOUS
  <2>7. NoStrayQueue' OBVIOUS
  <2>8. (SecondRound /\ RestoredInTwoRounds)' OBVIOUS
  <2>9. QED BY <2>1, <2>2, <2>3, <2>4, <2>5, <2>6, <2>7, <2>8
<1>3. QED BY <1>1, <1>2

(* The invariant is an invariant.                                          *)
THEOREM Inductive == Spec => []IInv
<1>1. IInv /\ [Next]_vars => IInv'
  <2> SUFFICES ASSUME IInv, [Next]_vars PROVE IInv'
    OBVIOUS
  <2>1. CASE Lose \/ Reconnect \/ Exception \/ Meddle BY <2>1, OthersStep
  <2>2. CASE Refresh BY <2>2, RefreshStep
  <2>3. CASE \/ Top \/ Consume \/ ForwardEnds \/ ForwardCancelled \/ WaitCancelled
             \/ Install \/ Start \/ Stop \/ RefreshStops
    BY <2>3, LoopStep
  <2>4. CASE Declare("loop") /\ UNCHANGED calm BY <2>4, SetupStep
  <2>5. CASE OpsTake \/ OpsCall \/ Close \/ CloseRefresh \/ CloseLoops \/ CloseOps
             \/ CloseChannel
    BY <2>5, CloseStep
  <2>6. CASE Refused("loop") \/ Refused("refresh") BY <2>6, RefusedStep
  <2>7. CASE UNCHANGED vars
    <3>1. Typing'
      BY <2>7 DEF IInv, Typing, Scalars, Queues, Naming, Places, Registered, Rounds,
                  config, vars, link, broker, consumer, closing, changes
    <3>2. (UnderWay /\ ClosingInOrder /\ Configured /\ GoneBeforeSetup)'
      BY <2>7 DEF IInv, Behaviour, UnderWay, ClosingInOrder, Configured, GoneBeforeSetup,
                  QueueGone, Private, ServerNamed, config, vars, link, broker, consumer, closing, changes
    <3>3. (NoStrayQueue /\ SecondRound /\ RestoredInTwoRounds)'
      BY <2>7 DEF IInv, Behaviour, NoStrayQueue, Private, ServerNamed, config, SecondRound,
                  RestoredInTwoRounds, vars, link, broker, consumer, closing, changes
    <3>4. QED BY <3>1, <3>2, <3>3 DEF IInv, Behaviour
  <2>8. QED BY <2>1, <2>2, <2>3, <2>4, <2>5, <2>6, <2>7 DEF Next, LoopNext
<1>2. QED BY InitIInv, <1>1, PTL DEF Spec

-----------------------------------------------------------------------------
(* Everything keeps its type: a name that is bound names a queue there is, *)
(* and whoever is registered is so on an open channel and a queue there is.*)
THEOREM Typed == Spec => []TypeOK
<1>1. IInv => TypeOK
  BY DEF IInv, Typing, Scalars, Queues, Naming, Places, LoopPoints, RefreshPoints, Registered,
         Rounds, TypeOK
<1>2. QED BY <1>1, Inductive, PTL

(* declareQueue, applyRefresh (consumer.go): of a queue nobody named, and  *)
(* which is exclusive and auto-delete, the broker never has another beside *)
(* the one the consumer reads from and the one a setup in progress has     *)
(* named, except those whose setup failed after the declaration, those     *)
(* basic.consume was refused on and one that Close overtook; whatever the  *)
(* order of losses, exceptions, changes by others, setups, refreshes, Stop *)
(* and Start.                                                              *)
THEOREM NoQueueBeside == Spec => []NoStrayQueue
<1>1. IInv => NoStrayQueue BY DEF IInv, Behaviour
<1>2. QED BY <1>1, Inductive, PTL

(* refreshTopology: two rounds that begin after the latest change put back the *)
(* exchange, the dead-letter topology and the binding, and a queue of ours.*)
THEOREM TwoRoundsRestore == Spec => []RestoredInTwoRounds
<1>1. IInv => RestoredInTwoRounds BY DEF IInv, Behaviour
<1>2. QED BY <1>1, Inductive, PTL

(* Close, withChannel, refreshLoop: a channel that is open when Close has  *)
(* returned is one that Close has stopped waiting for.                     *)
THEOREM ClosedChannels == Spec => []NothingLeftOpen
<1>1. IInv => NothingLeftOpen
  BY DEF IInv, Typing, Places, Behaviour, ClosingInOrder, NothingLeftOpen
<1>2. QED BY <1>1, Inductive, PTL
=============================================================================

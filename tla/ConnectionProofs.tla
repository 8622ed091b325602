-------------------------- MODULE ConnectionProofs --------------------------
(***************************************************************************)
(* Connection for every number of closers, callers, subscribers,           *)
(* connections and attempts: its types, its callbacks, its lock, and that  *)
(* each of its steps is a step of Link or leaves Link's state alone.       *)
(***************************************************************************)
EXTENDS Connection, TLAPS

(* Past its select the loop works on a lost connection until it has dialled. *)
Reconnecting == {"lost", "telling", "attempt", "backoff", "connect",
                 "dialing", "aborting"}
DownWhileReconnecting == loop \in Reconnecting => ~up

(* c.mu is held by whoever is at a point of the code that needs it. *)
LockHeld ==
    /\ mu = "loop" <=> loop = "dialing"
    /\ \A u \in Closers : mu = u <=> user[u] = "closing"
    /\ Reading => mu = "free"

(* The budget is tested before each attempt. *)
BudgetTested ==
    MaxAttempts > 0 /\ loop \in {"backoff", "connect", "dialing"} => attempt < MaxAttempts

(* What has been told of which connection, at each point of the loop. *)
ToldInOrder ==
    /\ \A g \in 1..MaxGen : told[g] # "twice"
    /\ \A g \in 1..MaxGen : g < gen => told[g] # "no"
    /\ \A g \in 1..MaxGen : g > gen => told[g] = "no"
    /\ loop \in {"select", "lost", "telling", "notify"} => told[gen] = "no"
    /\ loop \in {"attempt", "backoff", "connect", "dialing", "aborting"} => told[gen] # "no"
    /\ aborted # "twice"
    /\ aborted # "no" => loop = "done" /\ told[gen] # "no"

ListedBeforeShut ==
    /\ \A s \in Subs : s \in listed <=> owner[s] = "subscribed"
    /\ \A s \in Subs : s \in shut <=> owner[s] = "gone"

IInv ==
    /\ TypeOK
    /\ DownWhileReconnecting
    /\ LockHeld
    /\ BudgetTested
    /\ ToldInOrder
    /\ ListedBeforeShut

-----------------------------------------------------------------------------
(* The constants are typed, and the initial state satisfies the invariant. *)
LEMMA InitIInv == Init => IInv
<1> SUFFICES ASSUME Init PROVE IInv
  OBVIOUS
<1> USE ConnectionAssumption DEF Init
<1>1. TypeOK
  <2>1. gen \in 1..MaxGen /\ attempt \in 0..MaxAttempts OBVIOUS
  <2>2. told \in [1..MaxGen -> Fates] /\ aborted \in Fates BY DEF Fates
  <2>3. user \in [Closers \cup Callers -> CloserPoints \cup CallerPoints]
    BY DEF CloserPoints
  <2>4. owner \in [Subs -> OwnerPoints] BY DEF OwnerPoints
  <2>5. QED BY <2>1, <2>2, <2>3, <2>4 DEF TypeOK, LoopPoints
<1>2. DownWhileReconnecting BY DEF DownWhileReconnecting, Reconnecting
<1>3. LockHeld BY DEF LockHeld, Reading
<1>4. BudgetTested BY DEF BudgetTested
<1>5. ToldInOrder BY DEF ToldInOrder
<1>6. ListedBeforeShut BY DEF ListedBeforeShut
<1>7. QED BY <1>1, <1>2, <1>3, <1>4, <1>5, <1>6 DEF IInv

(* Fate never leaves the set of fates, and "twice" takes two calls. *)
LEMMA FateType ==
    ASSUME NEW f \in Fates, NEW set
    PROVE  /\ Fate(f, set) \in Fates
           /\ Fate(f, set) # "no"
           /\ f = "no" => Fate(f, set) # "twice"
  BY DEF Fate, Fates

(* One step of the loop, the users or the network keeps the invariant. *)
LEMMA LoopIInv == IInv /\ LoopNext => IInv'
<1> SUFFICES ASSUME IInv, LoopNext PROVE IInv'
  OBVIOUS
<1> USE ConnectionAssumption DEF IInv, TypeOK, DownWhileReconnecting, Reconnecting, LockHeld,
      Reading, BudgetTested, ToldInOrder, ListedBeforeShut, LoopPoints, CloserPoints,
      CallerPoints, OwnerPoints, link, locks, calls, subs, CanRead, CanWrite
<1>1. CASE LoopStop BY <1>1 DEF LoopStop
<1>2. CASE LoopLost BY <1>2 DEF LoopLost
<1>3. CASE LoopCheck BY ZenonT(40), <1>3 DEF LoopCheck
<1>4. CASE LoopTell
  <2>1. Fate(told[gen], captured # {}) \in Fates \ {"no", "twice"}
    BY <1>4, FateType DEF LoopTell, Fates
  <2> DEFINE t == Fate(told[gen], captured # {})
  <2>2. told' = [told EXCEPT ![gen] = t] BY <1>4 DEF LoopTell
  <2> HIDE DEF t
  <2>3. t \in Fates \ {"no", "twice"} BY <2>1 DEF t
  <2>4. TypeOK' BY <1>4, <2>2, <2>3 DEF LoopTell
  <2>5. ToldInOrder' BY <1>4, <2>2, <2>3 DEF LoopTell
  <2>6. QED BY <1>4, <2>4, <2>5 DEF LoopTell
<1>5. CASE LoopAttempt BY <1>5 DEF LoopAttempt
<1>6. CASE LoopTimer BY <1>6 DEF LoopTimer
<1>7. CASE LoopLock BY <1>7 DEF LoopLock
<1>8. CASE Dial
  <2>1. CASE \E alive \in BOOLEAN : DialOk(alive)
    <3> PICK alive \in BOOLEAN : DialOk(alive) BY <2>1
    <3>1. TypeOK'
      <4>1. gen' \in 1..MaxGen BY DEF DialOk
      <4>2. up' \in BOOLEAN /\ quiet' \in BOOLEAN BY DEF DialOk
      <4>3. QED BY <4>1, <4>2 DEF DialOk
    <3>2. ToldInOrder' BY DEF DialOk
    <3>3. LockHeld' BY DEF DialOk
    <3>4. QED BY <3>1, <3>2, <3>3 DEF DialOk
  <2>2. CASE DialFails BY <2>2 DEF DialFails
  <2>3. CASE DialRefused BY <2>3 DEF DialRefused
  <2>4. QED BY <1>8, <2>1, <2>2, <2>3 DEF Dial
<1>9. CASE LoopNotify BY <1>9 DEF LoopNotify
<1>10. CASE LoopAbort
  <2>1. Fate(aborted, "OnReconnectAborted" \in registered) \in Fates \ {"no", "twice"}
    BY <1>10, FateType DEF LoopAbort, Fates
  <2>2. QED BY <1>10, <2>1 DEF LoopAbort
<1>11. QED
  BY <1>1, <1>2, <1>3, <1>4, <1>5, <1>6, <1>7, <1>8, <1>9, <1>10 DEF LoopNext

LEMMA UserIInv ==
    IInv /\ (\/ Lose \/ GoQuiet \/ (\E cb \in Callbacks : Register(cb))
             \/ (\E u \in Closers : CloserNext(u)) \/ (\E u \in Callers : CallerNext(u))
             \/ (\E s \in Subs : SubNext(s)))
    => IInv'
<1> SUFFICES ASSUME IInv,
                    \/ Lose \/ GoQuiet \/ (\E cb \in Callbacks : Register(cb))
                    \/ (\E u \in Closers : CloserNext(u)) \/ (\E u \in Callers : CallerNext(u))
                    \/ (\E s \in Subs : SubNext(s))
             PROVE  IInv'
  OBVIOUS
<1> USE ConnectionAssumption DEF IInv, TypeOK, DownWhileReconnecting, Reconnecting, LockHeld,
      Reading, BudgetTested, ToldInOrder, ListedBeforeShut, LoopPoints, CloserPoints,
      CallerPoints, OwnerPoints, link, locks, calls, subs, CanRead, CanWrite, Goto
<1>1. CASE Lose BY <1>1 DEF Lose
<1>2. CASE GoQuiet BY <1>2 DEF GoQuiet
<1>3. CASE \E cb \in Callbacks : Register(cb) BY <1>3 DEF Register
<1>4. CASE \E u \in Closers : CloserNext(u)
  <2> PICK u \in Closers : CloserNext(u) BY <1>4
  <2>1. CASE CloseCall(u) BY <2>1 DEF CloseCall
  <2>2. CASE CloseLock(u)
    <3>1. TypeOK'
      <4>1. user' \in [Closers \cup Callers -> CloserPoints \cup CallerPoints]
        BY <2>2 DEF CloseLock
      <4>2. mu' \in {"free", "loop"} \cup Closers BY <2>2 DEF CloseLock
      <4>3. closed' \in BOOLEAN BY <2>2 DEF CloseLock
      <4>4. QED BY <2>2, <4>1, <4>2, <4>3 DEF CloseLock
    <3>2. LockHeld'
      <4>1. CASE closed BY <2>2, <4>1 DEF CloseLock
      <4>2. CASE ~closed
        <5>1. mu' = u /\ user' = [user EXCEPT ![u] = "closing"] BY <2>2, <4>2 DEF CloseLock
        <5>2. ~Reading' BY <2>2, <5>1 DEF CloseLock
        <5>3. \A v \in Closers : mu' = v <=> user'[v] = "closing" BY <2>2, <5>1 DEF CloseLock
        <5>4. QED BY <2>2, <5>1, <5>2, <5>3 DEF CloseLock
      <4>3. QED BY <4>1, <4>2
    <3>3. QED BY <2>2, <3>1, <3>2 DEF CloseLock
  <2>3. CASE CloseDone(u)
    <3>1. TypeOK' BY <2>3 DEF CloseDone
    <3>2. LockHeld' BY <2>3 DEF CloseDone
    <3>3. QED BY <2>3, <3>1, <3>2 DEF CloseDone
  <2>4. QED BY <2>1, <2>2, <2>3 DEF CloserNext
<1>5. CASE \E u \in Callers : CallerNext(u)
  <2> PICK u \in Callers : CallerNext(u) BY <1>5
  <2>1. CASE Call(u) BY <2>1 DEF Call
  <2>2. CASE Ask(u) BY <2>2 DEF Ask
  <2>3. CASE Open(u) BY <2>3 DEF Open
  <2>4. CASE Answered(u) BY <2>4 DEF Answered
  <2>5. QED BY <2>1, <2>2, <2>3, <2>4 DEF CallerNext
<1>6. CASE \E s \in Subs : SubNext(s)
  <2> PICK s \in Subs : SubNext(s) BY <1>6
  <2>1. CASE Subscribe(s) BY <2>1 DEF Subscribe
  <2>2. CASE Take(s) BY <2>2 DEF Take
  <2>3. CASE Unsubscribe(s) BY <2>3 DEF Unsubscribe
  <2>4. CASE Shut(s) BY <2>4 DEF Shut
  <2>5. QED BY <2>1, <2>2, <2>3, <2>4 DEF SubNext
<1>7. QED BY <1>1, <1>2, <1>3, <1>4, <1>5, <1>6

LEMMA NextIInv == IInv /\ [Next]_vars => IInv'
<1> SUFFICES ASSUME IInv, [Next]_vars PROVE IInv'
  OBVIOUS
<1>1. CASE UNCHANGED vars
  BY <1>1 DEF vars, link, locks, calls, subs, IInv, TypeOK, DownWhileReconnecting, LockHeld,
      Reading, BudgetTested, ToldInOrder, ListedBeforeShut
<1>2. CASE Next BY <1>2, LoopIInv, UserIInv DEF Next
<1>3. QED BY <1>1, <1>2

(* Every reachable state satisfies the inductive invariant. *)
THEOREM Inductive == Spec => []IInv
<1>1. QED BY InitIInv, NextIInv, PTL DEF Spec

(* Every variable keeps its type; the attempt counter of handleReconnect     *)
(* never exceeds MaxReconnectAttempts.                                       *)
THEOREM TypeCorrect == Spec => []TypeOK
<1>1. IInv => TypeOK BY DEF IInv
<1>2. QED BY <1>1, Inductive, PTL

(* OnDisconnect once per lost connection and before the next dial,           *)
(* OnReconnectAborted at most once and last: for any number of losses and    *)
(* whatever callers and closers do with c.mu meanwhile.                      *)
THEOREM CallbacksInOrder == Spec => []CallbackOrder
<1>1. IInv => CallbackOrder BY DEF IInv, ToldInOrder, CallbackOrder
<1>2. QED BY <1>1, Inductive, PTL

(* notifySubscribers never sends on a closed channel. *)
THEOREM SafeToNotify == Spec => []NoSendOnClosedChannel
<1>1. IInv => NoSendOnClosedChannel
  BY DEF IInv, ListedBeforeShut, NoSendOnClosedChannel, TypeOK
<1>2. QED BY <1>1, Inductive, PTL

(* connect replaces c.conn only when it is dead and nobody is reading it. *)
THEOREM DialsOnlyWhenDown == Spec => OneLiveConnection
<1>1. IInv /\ [Next]_vars => (gen' # gen => ~up /\ ~Reading)
  <2> SUFFICES ASSUME IInv, [Next]_vars, gen' # gen PROVE ~up /\ ~Reading
    OBVIOUS
  <2>1. \E alive \in BOOLEAN : DialOk(alive)
    BY DEF vars, link, locks, calls, subs, Next, Lose, GoQuiet, LoopNext, LoopStop, LoopLost, LoopCheck,
       LoopTell, LoopAttempt, LoopTimer, LoopLock, Dial, DialFails, DialRefused,
       LoopNotify, LoopAbort, Register, CloserNext, CloseCall, CloseLock, CloseDone,
       CallerNext, Call, Ask, Open, Answered, SubNext, Subscribe, Take, Unsubscribe, Shut
  <2>2. loop = "dialing" BY <2>1 DEF DialOk
  <2>3. QED
    BY <2>2 DEF IInv, DownWhileReconnecting, Reconnecting, LockHeld
<1>2. QED BY <1>1, Inductive, PTL DEF Spec, OneLiveConnection

-----------------------------------------------------------------------------
(* Each step of the loop is the step of Link it stands for, or none. *)
LEMMA LoopRefines == IInv /\ LoopNext => [Promise!LinkNext]_(Promise!linkVars)
<1> SUFFICES ASSUME IInv, LoopNext PROVE [Promise!LinkNext]_(Promise!linkVars)
  OBVIOUS
<1> USE DEF IInv, TypeOK, Promise!linkVars, Promise!LinkNext, Promise!LinkEnv, link, locks, calls, subs
<1>1. CASE LoopStop
  <2>1. Promise!Finish BY <1>1 DEF LoopStop, Promise!Finish
  <2>2. QED BY <2>1
<1>2. CASE LoopLost BY <1>2 DEF LoopLost
<1>3. CASE LoopCheck
  <2>1. CASE closed
    <3>1. Promise!Finish BY <1>3, <2>1 DEF LoopCheck, Promise!Finish
    <3>2. QED BY <3>1
  <2>2. CASE ~closed BY <1>3, <2>2 DEF LoopCheck
  <2>3. QED BY <2>1, <2>2
<1>4. CASE LoopTell BY <1>4 DEF LoopTell
<1>5. CASE LoopAttempt BY <1>5 DEF LoopAttempt
<1>6. CASE LoopTimer BY <1>6 DEF LoopTimer
<1>7. CASE LoopLock BY <1>7 DEF LoopLock
<1>8. CASE \E alive \in BOOLEAN : DialOk(alive)
  <2>1. Promise!Reconnect
    BY <1>8 DEF DialOk, Promise!Reconnect, DownWhileReconnecting, Reconnecting
  <2>2. QED BY <2>1
<1>9. CASE DialFails BY <1>9 DEF DialFails
<1>10. CASE DialRefused BY <1>10 DEF DialRefused
<1>11. CASE LoopNotify
  <2>1. Promise!Signal BY <1>11 DEF LoopNotify, Promise!Signal
  <2>2. QED BY <2>1
<1>12. CASE LoopAbort
  <2>1. Promise!Finish BY <1>12 DEF LoopAbort, Promise!Finish
  <2>2. QED BY <2>1
<1>13. QED
  BY <1>1, <1>2, <1>3, <1>4, <1>5, <1>6, <1>7, <1>8, <1>9, <1>10, <1>11, <1>12
  DEF LoopNext, Dial

(* So is each step of a user: the bounded close is a loss of the connection. *)
LEMMA UserRefines ==
    ASSUME IInv, Next, ~LoopNext
    PROVE  [Promise!LinkNext]_(Promise!linkVars)
<1> USE DEF IInv, TypeOK, Promise!linkVars, Promise!LinkNext, Promise!LinkEnv, link, locks, calls, subs
<1>1. CASE Lose
  <2>1. Promise!Lose BY <1>1 DEF Lose, Promise!Lose
  <2>2. QED BY <2>1
<1>2. CASE GoQuiet BY <1>2 DEF GoQuiet
<1>3. CASE \E cb \in Callbacks : Register(cb) BY <1>3 DEF Register
<1>4. CASE \E u \in Closers : CloserNext(u)
  <2> PICK u \in Closers : CloserNext(u) BY <1>4
  <2>1. CASE CloseCall(u) BY <2>1 DEF CloseCall
  <2>2. CASE CloseLock(u) BY <2>2 DEF CloseLock
  <2>3. CASE CloseDone(u)
    <3>1. CASE up
      <4>1. Promise!Lose BY <2>3, <3>1 DEF CloseDone, Promise!Lose
      <4>2. QED BY <4>1
    <3>2. CASE ~up
      <4>1. up' = up BY <2>3, <3>2 DEF CloseDone
      <4>2. QED BY <2>3, <4>1 DEF CloseDone
    <3>3. QED BY <3>1, <3>2
  <2>4. QED BY <2>1, <2>2, <2>3 DEF CloserNext
<1>5. CASE \E u \in Callers : CallerNext(u)
  BY <1>5 DEF CallerNext, Call, Ask, Open, Answered
<1>6. CASE \E s \in Subs : SubNext(s)
  <2> PICK s \in Subs : SubNext(s) BY <1>6
  <2>1. CASE Subscribe(s)
    <3>1. Promise!Subscribe(s) BY <2>1 DEF Subscribe, Promise!Subscribe
    <3>2. QED BY <3>1
  <2>2. CASE Take(s)
    <3>1. Promise!Take(s) BY <2>2 DEF Take, Promise!Take
    <3>2. QED BY <3>1
  <2>3. CASE Unsubscribe(s)
    <3>1. Promise!Unsubscribe(s) BY <2>3 DEF Unsubscribe, Promise!Unsubscribe
    <3>2. QED BY <3>1
  <2>4. CASE Shut(s) BY <2>4 DEF Shut
  <2>5. QED BY <2>1, <2>2, <2>3, <2>4 DEF SubNext
<1>7. QED BY <1>1, <1>2, <1>3, <1>4, <1>5, <1>6 DEF Next

(* Connection implements the safety part of Link: what Publisher assumes of  *)
(* its connection holds for every number of subscribers and reconnections.   *)
THEOREM ImplementsLink ==
    Spec => Promise!LinkInit /\ [][Promise!LinkNext]_(Promise!linkVars)
<1>1. Init => Promise!LinkInit BY DEF Init, Promise!LinkInit
<1>2. IInv /\ [Next]_vars => [Promise!LinkNext]_(Promise!linkVars)
  <2>1. CASE UNCHANGED vars
    BY <2>1 DEF vars, link, locks, calls, subs, Promise!linkVars
  <2>2. QED BY <2>1, LoopRefines, UserRefines
<1>3. QED BY <1>1, <1>2, Inductive, PTL DEF Spec
=============================================================================

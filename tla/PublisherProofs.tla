--------------------------- MODULE PublisherProofs ---------------------------
(***************************************************************************)
(* Publisher for every number of callers, channels and connections: its    *)
(* types; that no two synchronous calls are ever outstanding on one        *)
(* channel; that no open channel is left without an owner; that the loop   *)
(* never sleeps on a dead channel with no wake-up on its way; and that a   *)
(* stale report of a channel's death never replaces a healthy channel.     *)
(***************************************************************************)
EXTENDS Publisher, TLAPS, FiniteSetTheorems

(* Who holds rpcMu is where the code holds it. *)
LockHeld ==
    /\ rpcMu = "loop" <=> loop = "retire"
    /\ rpcMu = "close" <=> close = "handshake"
    /\ \A u \in Callers : rpcMu = u <=> caller[u] \in {"holding", "calling"}

(* A call is outstanding only where its process waits for it; Close's may    *)
(* outlive the wait.                                                         *)
CallsMatch ==
    /\ \A c \in Chans : "loop" \in calls[c] =>
         \/ loop \in {"setupCall", "drop"} /\ c = fresh
         \/ loop = "retire" /\ c = old
    /\ \A c \in Chans : \A u \in Callers : u \in calls[c] => caller[u] = "calling" /\ c = using[u]
    /\ \A c \in Chans : "close" \in calls[c] => close \in {"handshake", "done"} /\ c = current

(* Channels are installed in the order they are opened. *)
InOrder ==
    /\ current <= opened
    /\ loop \in {"setup", "setupCall", "install", "drop"} => current < opened
    /\ loop \in {"slot", "retire"} => old < current
    /\ loop \in {"slot", "retire"} => old \in Chans
    /\ \A u \in Callers : caller[u] = "calling" => using[u] <= current /\ using[u] \in Chans
    /\ why # "new" \/ loop \in {"select", "slot", "retire", "probe", "report"} => current \in Chans

(* Close never takes its turn while a call is in flight, and none is made    *)
(* once it has.                                                              *)
CloseIsLast ==
    /\ closed <=> close # "idle"
    /\ close # "idle" => current \in Chans
    /\ close \in {"handshake", "done"} => \A u \in Callers : caller[u] # "calling"

(* The calls a setup has left are counted down to nothing. *)
LeftCounts ==
    /\ loop = "setupCall" => left > 0
    /\ loop \in {"setup", "setupCall", "install", "drop", "slot", "retire", "probe"} => opened \in Chans

IInv ==
    /\ Typing
    /\ LockHeld
    /\ CallsMatch
    /\ InOrder
    /\ CloseIsLast
    /\ LeftCounts

-----------------------------------------------------------------------------
LEMMA InitIInv == Init => IInv
<1> SUFFICES ASSUME Init PROVE IInv
  OBVIOUS
<1> USE PublisherAssumption, LinkAssumption DEF Init, Chans, Procs
<1>1. Typing
  <2>1. LinkTypeOK
    <3>1. gen \in 1..MaxGen OBVIOUS
    <3>2. listed \subseteq Subs /\ signalled \subseteq Subs OBVIOUS
    <3>3. QED BY <3>1, <3>2 DEF LinkTypeOK
  <2>2. opened \in 0..MaxChan /\ current \in 0..MaxChan /\ old \in 0..MaxChan /\ left \in 0..SetupCalls
    OBVIOUS
  <2>3. home \in [Chans -> 0..MaxGen] OBVIOUS
  <2>4. state \in [Chans -> {"none", "open", "failed", "closed"}] OBVIOUS
  <2>5. watch \in [Chans -> {"none", "armed", "reporting", "done"}] OBVIOUS
  <2>6. calls \in [Chans -> SUBSET Procs] OBVIOUS
  <2>7. using \in [Callers -> 0..MaxChan] OBVIOUS
  <2>8. caller \in [Callers -> {"idle", "waiting", "holding", "calling"}] OBVIOUS
  <2>9. QED
    BY <2>1, <2>2, <2>3, <2>4, <2>5, <2>6, <2>7, <2>8 DEF Typing, LoopPoints
<1>2. LockHeld BY DEF LockHeld
<1>3. CallsMatch BY DEF CallsMatch
<1>4. InOrder BY DEF InOrder
<1>5. CloseIsLast BY DEF CloseIsLast
<1>6. LeftCounts BY DEF LeftCounts
<1>7. QED BY <1>1, <1>2, <1>3, <1>4, <1>5, <1>6 DEF IInv

(* Link's own steps keep Link's types. *)
LEMMA LinkEnvType == LinkTypeOK /\ LinkEnv => LinkTypeOK'
<1> SUFFICES ASSUME LinkTypeOK, LinkEnv PROVE LinkTypeOK'
  OBVIOUS
<1> USE DEF LinkTypeOK
<1>1. CASE Lose BY <1>1 DEF Lose
<1>2. CASE Reconnect BY <1>2, LinkAssumption DEF Reconnect
<1>3. CASE Signal BY <1>3 DEF Signal
<1>4. CASE Finish BY <1>4 DEF Finish
<1>5. QED BY <1>1, <1>2, <1>3, <1>4 DEF LinkEnv

(* Sending and returning change one entry of calls, by one process. *)
LEMMA SendReturn ==
    ASSUME NEW p \in Procs, NEW c \in Chans, calls \in [Chans -> SUBSET Procs],
           Send(p, c) \/ Return(p, c)
    PROVE  /\ calls' \in [Chans -> SUBSET Procs]
           /\ \A d \in Chans : \A q \in Procs : q \in calls'[d] =>
                  q \in calls[d] \/ (Send(p, c) /\ q = p /\ d = c)
           /\ Return(p, c) => p \notin calls'[c]
  BY DEF Send, Return

LEMMA StateType ==
    ASSUME NEW p, NEW c \in Chans, state \in [Chans -> {"none", "open", "failed", "closed"}],
           CloseReply(p, c)
    PROVE  state' \in [Chans -> {"none", "open", "failed", "closed"}]
  BY DEF CloseReply

LEMMA LoopIInv == IInv /\ LoopNext => IInv'
<1> SUFFICES ASSUME IInv, LoopNext PROVE IInv'
  OBVIOUS
<1> USE PublisherAssumption
<1>1. CASE SelectSignal
  <2> USE <1>1 DEF SelectSignal, Begin, fresh, Built, env, chans, pub, loopVars,
      userVars, Take, Procs, IInv
  <2>1. Typing'
    <3>1. LinkTypeOK' BY DEF Typing, LinkTypeOK, linkVars
    <3>2. QED BY <3>1 DEF Typing, LeftCounts, LoopPoints
  <2>2. LockHeld' BY DEF Typing, LockHeld
  <2>3. CallsMatch' BY DEF Typing, LockHeld, CallsMatch, InOrder, CloseIsLast
  <2>4. InOrder' BY DEF Typing, InOrder, LeftCounts, CloseIsLast, Chans
  <2>5. CloseIsLast' BY DEF Typing, CloseIsLast, LockHeld, InOrder
  <2>6. LeftCounts' BY DEF Typing, LeftCounts, Chans
  <2>7. QED BY <2>1, <2>2, <2>3, <2>4, <2>5, <2>6
<1>2. CASE SelectShut
  <2> USE <1>2 DEF SelectShut, Begin, fresh, Built, env, chans, pub, loopVars, userVars, Procs, IInv
  <2>1. Typing'
    <3>1. LinkTypeOK' BY DEF Typing, LinkTypeOK, linkVars
    <3>2. QED BY <3>1 DEF Typing, LeftCounts, LoopPoints
  <2>2. LockHeld' BY DEF Typing, LockHeld
  <2>3. CallsMatch' BY DEF Typing, LockHeld, CallsMatch, InOrder, CloseIsLast
  <2>4. InOrder' BY DEF Typing, InOrder, LeftCounts, CloseIsLast, Chans
  <2>5. CloseIsLast' BY DEF Typing, CloseIsLast, LockHeld, InOrder
  <2>6. LeftCounts' BY DEF Typing, LeftCounts, Chans
  <2>7. QED BY <2>1, <2>2, <2>3, <2>4, <2>5, <2>6
<1>3. CASE SelectDead
  <2> USE <1>3 DEF SelectDead, Begin, fresh, Built, env, chans, pub, loopVars, userVars, Procs, IInv
  <2>1. Typing'
    <3>1. LinkTypeOK' BY DEF Typing, LinkTypeOK, linkVars
    <3>2. QED BY ZenonT(40), <3>1 DEF Typing, LeftCounts, LoopPoints
  <2>2. LockHeld' BY DEF Typing, LockHeld
  <2>3. CallsMatch' BY DEF Typing, LockHeld, CallsMatch, InOrder, CloseIsLast
  <2>4. InOrder' BY DEF Typing, InOrder, LeftCounts, CloseIsLast, Chans
  <2>5. CloseIsLast' BY DEF Typing, CloseIsLast, LockHeld, InOrder
  <2>6. LeftCounts' BY DEF Typing, LeftCounts, Chans
  <2>7. QED BY <2>1, <2>2, <2>3, <2>4, <2>5, <2>6
<1>4. CASE SelectRetry
  <2> USE <1>4 DEF SelectRetry, Begin, fresh, Built, env, chans, pub, loopVars,
      userVars, Procs, IInv
  <2>1. Typing'
    <3>1. LinkTypeOK' BY DEF Typing, LinkTypeOK, linkVars
    <3>2. QED BY <3>1 DEF Typing, LeftCounts, LoopPoints
  <2>2. LockHeld' BY DEF Typing, LockHeld
  <2>3. CallsMatch' BY DEF Typing, LockHeld, CallsMatch, InOrder, CloseIsLast
  <2>4. InOrder' BY DEF Typing, InOrder, LeftCounts, CloseIsLast, Chans
  <2>5. CloseIsLast' BY DEF Typing, CloseIsLast, LockHeld, InOrder
  <2>6. LeftCounts' BY DEF Typing, LeftCounts, Chans
  <2>7. QED BY <2>1, <2>2, <2>3, <2>4, <2>5, <2>6
<1>5. CASE Check
  <2> USE <1>5 DEF Check, Begin, fresh, Built, env, chans, pub, loopVars, userVars, Procs, IInv
  <2>1. Typing'
    <3>1. LinkTypeOK' BY DEF Typing, LinkTypeOK, linkVars
    <3>2. QED BY <3>1 DEF Typing, LeftCounts, LoopPoints
  <2>2. LockHeld' BY DEF Typing, LockHeld
  <2>3. CallsMatch' BY DEF Typing, LockHeld, CallsMatch, InOrder, CloseIsLast
  <2>4. InOrder' BY DEF Typing, InOrder, LeftCounts, CloseIsLast, Chans
  <2>5. CloseIsLast' BY DEF Typing, CloseIsLast, LockHeld, InOrder
  <2>6. LeftCounts' BY DEF Typing, LeftCounts, Chans
  <2>7. QED BY <2>1, <2>2, <2>3, <2>4, <2>5, <2>6
<1>6. CASE SetupFails
  <2> USE <1>6 DEF SetupFails, Begin, fresh, Built, env, chans, pub, loopVars, userVars,
      Return, Procs, IInv
  <2>1. Typing'
    <3>1. LinkTypeOK' BY DEF Typing, LinkTypeOK, linkVars
    <3>2. calls' \in [Chans -> SUBSET Procs]
      BY DEF Typing
    <3>3. state' \in [Chans -> {"none", "open", "failed", "closed"}]
      BY DEF Typing
    <3>4. loop' \in LoopPoints /\ why' \in {"new", "idle", "signal", "dead", "retry"} /\ retry' \in BOOLEAN
      BY DEF Typing, LoopPoints
    <3>5. left' \in 0..SetupCalls
      BY DEF Typing
    <3>6. QED BY <3>1, <3>2, <3>3, <3>4, <3>5 DEF Typing, LeftCounts, LoopPoints
  <2>2. LockHeld' BY DEF Typing, LockHeld
  <2>3. CallsMatch' BY DEF Typing, LockHeld, CallsMatch, InOrder, CloseIsLast
  <2>4. InOrder' BY DEF Typing, InOrder, LeftCounts, CloseIsLast, Chans
  <2>5. CloseIsLast' BY DEF Typing, CloseIsLast, LockHeld, InOrder
  <2>6. LeftCounts' BY DEF Typing, LeftCounts, Chans
  <2>7. QED BY <2>1, <2>2, <2>3, <2>4, <2>5, <2>6
<1>7. CASE Open
  <2> USE <1>7 DEF Open, Begin, fresh, Built, env, chans, pub, loopVars, userVars, Procs, IInv
  <2>1. Typing'
    <3>1. LinkTypeOK' BY DEF Typing, LinkTypeOK, linkVars
    <3>2. state' \in [Chans -> {"none", "open", "failed", "closed"}]
      BY DEF Typing, Chans
    <3>3. home' \in [Chans -> 0..MaxGen]
      BY DEF Typing, LinkTypeOK, Chans
    <3>4. opened' \in 0..MaxChan
      BY DEF Typing
    <3>5. QED BY <3>1, <3>2, <3>3, <3>4 DEF Typing, LeftCounts, LoopPoints
  <2>2. LockHeld' BY DEF Typing, LockHeld
  <2>3. CallsMatch' BY DEF Typing, LockHeld, CallsMatch, InOrder, CloseIsLast
  <2>4. InOrder' BY DEF Typing, InOrder, LeftCounts, CloseIsLast, Chans
  <2>5. CloseIsLast' BY DEF Typing, CloseIsLast, LockHeld, InOrder
  <2>6. LeftCounts' BY DEF Typing, LeftCounts, Chans
  <2>7. QED BY <2>1, <2>2, <2>3, <2>4, <2>5, <2>6
<1>8. CASE Setup
  <2> USE <1>8 DEF Setup, Begin, fresh, Built, env, chans, pub, loopVars, userVars,
      Send, Procs, IInv
  <2>1. Typing'
    <3>1. LinkTypeOK' BY DEF Typing, LinkTypeOK, linkVars
    <3>2. QED BY <3>1 DEF Typing, LeftCounts, LoopPoints
  <2>2. LockHeld' BY DEF Typing, LockHeld
  <2>3. CallsMatch' BY DEF Typing, LockHeld, CallsMatch, InOrder, CloseIsLast
  <2>4. InOrder' BY DEF Typing, InOrder, LeftCounts, CloseIsLast, Chans
  <2>5. CloseIsLast' BY DEF Typing, CloseIsLast, LockHeld, InOrder
  <2>6. LeftCounts' BY DEF Typing, LeftCounts, Chans
  <2>7. QED BY <2>1, <2>2, <2>3, <2>4, <2>5, <2>6
<1>9. CASE SetupReply
  <2> USE <1>9 DEF SetupReply, Begin, fresh, Built, env, chans, pub, loopVars, userVars,
      Return, Procs, IInv
  <2>1. Typing'
    <3>1. LinkTypeOK' BY DEF Typing, LinkTypeOK, linkVars
    <3>2. QED BY <3>1 DEF Typing, LeftCounts, LoopPoints
  <2>2. LockHeld' BY DEF Typing, LockHeld
  <2>3. CallsMatch' BY DEF Typing, LockHeld, CallsMatch, InOrder, CloseIsLast
  <2>4. InOrder' BY DEF Typing, InOrder, LeftCounts, CloseIsLast, Chans
  <2>5. CloseIsLast' BY DEF Typing, CloseIsLast, LockHeld, InOrder
  <2>6. LeftCounts' BY DEF Typing, LeftCounts, Chans
  <2>7. QED BY <2>1, <2>2, <2>3, <2>4, <2>5, <2>6
<1>10. CASE Install
  <2> USE <1>10 DEF Install, Begin, fresh, Built, env, chans, pub, loopVars, userVars,
      Send, Procs, IInv
  <2>1. Typing'
    <3>1. LinkTypeOK' BY DEF Typing, LinkTypeOK, linkVars
    <3>2. QED BY <3>1 DEF Typing, LeftCounts, LoopPoints
  <2>2. LockHeld' BY DEF Typing, LockHeld
  <2>3. CallsMatch' BY DEF Typing, LockHeld, CallsMatch, InOrder, CloseIsLast
  <2>4. InOrder' BY DEF Typing, InOrder, LeftCounts, CloseIsLast, Chans
  <2>5. CloseIsLast' BY DEF Typing, CloseIsLast, LockHeld, InOrder
  <2>6. LeftCounts' BY DEF Typing, LeftCounts, Chans
  <2>7. QED BY <2>1, <2>2, <2>3, <2>4, <2>5, <2>6
<1>11. CASE Dropped
  <2> USE <1>11 DEF Dropped, Begin, fresh, Built, env, chans, pub, loopVars, userVars,
      CloseReply, Return, Procs, IInv
  <2>1. Typing'
    <3>1. LinkTypeOK' BY DEF Typing, LinkTypeOK, linkVars
    <3>2. QED BY <3>1 DEF Typing, LeftCounts, LoopPoints
  <2>2. LockHeld' BY DEF Typing, LockHeld
  <2>3. CallsMatch' BY DEF Typing, LockHeld, CallsMatch, InOrder, CloseIsLast
  <2>4. InOrder' BY DEF Typing, InOrder, LeftCounts, CloseIsLast, Chans
  <2>5. CloseIsLast' BY DEF Typing, CloseIsLast, LockHeld, InOrder
  <2>6. LeftCounts' BY DEF Typing, LeftCounts, Chans
  <2>7. QED BY <2>1, <2>2, <2>3, <2>4, <2>5, <2>6
<1>12. CASE Slot
  <2> USE <1>12 DEF Slot, Begin, fresh, Built, env, chans, pub, loopVars, userVars,
      Send, Procs, IInv
  <2>1. Typing'
    <3>1. LinkTypeOK' BY DEF Typing, LinkTypeOK, linkVars
    <3>2. QED BY <3>1 DEF Typing, LeftCounts, LoopPoints
  <2>2. LockHeld' BY DEF Typing, LockHeld
  <2>3. CallsMatch' BY DEF Typing, LockHeld, CallsMatch, InOrder, CloseIsLast
  <2>4. InOrder' BY DEF Typing, InOrder, LeftCounts, CloseIsLast, Chans
  <2>5. CloseIsLast' BY DEF Typing, CloseIsLast, LockHeld, InOrder
  <2>6. LeftCounts' BY DEF Typing, LeftCounts, Chans
  <2>7. QED BY <2>1, <2>2, <2>3, <2>4, <2>5, <2>6
<1>13. CASE SlotTimeout
  <2> USE <1>13 DEF SlotTimeout, Begin, fresh, Built, env, chans, pub, loopVars,
      userVars, Procs, IInv
  <2>1. Typing'
    <3>1. LinkTypeOK' BY DEF Typing, LinkTypeOK, linkVars
    <3>2. stranded' \subseteq Chans
      BY DEF Typing, InOrder
    <3>3. QED BY <3>1, <3>2 DEF Typing, LeftCounts, LoopPoints
  <2>2. LockHeld' BY DEF Typing, LockHeld
  <2>3. CallsMatch' BY DEF Typing, LockHeld, CallsMatch, InOrder, CloseIsLast
  <2>4. InOrder' BY DEF Typing, InOrder, LeftCounts, CloseIsLast, Chans
  <2>5. CloseIsLast' BY DEF Typing, CloseIsLast, LockHeld, InOrder
  <2>6. LeftCounts' BY DEF Typing, LeftCounts, Chans
  <2>7. QED BY <2>1, <2>2, <2>3, <2>4, <2>5, <2>6
<1>14. CASE Retired
  <2> USE <1>14 DEF Retired, Begin, fresh, Built, env, chans, pub, loopVars, userVars,
      CloseReply, Return, Procs, IInv
  <2>1. Typing'
    <3>1. LinkTypeOK' BY DEF Typing, LinkTypeOK, linkVars
    <3>2. calls' \in [Chans -> SUBSET Procs]
      BY DEF Typing
    <3>3. state' \in [Chans -> {"none", "open", "failed", "closed"}]
      BY DEF Typing
    <3>4. QED BY <3>1, <3>2, <3>3 DEF Typing, LeftCounts, LoopPoints
  <2>2. LockHeld' BY DEF Typing, LockHeld
  <2>3. CallsMatch' BY DEF Typing, LockHeld, CallsMatch, InOrder, CloseIsLast
  <2>4. InOrder' BY DEF Typing, InOrder, LeftCounts, CloseIsLast, Chans
  <2>5. CloseIsLast' BY DEF Typing, CloseIsLast, LockHeld, InOrder
  <2>6. LeftCounts' BY DEF Typing, LeftCounts, Chans
  <2>7. QED BY <2>1, <2>2, <2>3, <2>4, <2>5, <2>6
<1>15. CASE Probe
  <2> USE <1>15 DEF Probe, Begin, fresh, Built, env, chans, pub, loopVars, userVars, Procs, IInv
  <2>1. Typing'
    <3>1. LinkTypeOK' BY DEF Typing, LinkTypeOK, linkVars
    <3>2. watch' \in [Chans -> {"none", "armed", "reporting", "done"}]
      BY DEF Typing
    <3>3. QED BY <3>1, <3>2 DEF Typing, LeftCounts, LoopPoints
  <2>2. LockHeld' BY DEF Typing, LockHeld
  <2>3. CallsMatch' BY DEF Typing, LockHeld, CallsMatch, InOrder, CloseIsLast
  <2>4. InOrder' BY DEF Typing, InOrder, LeftCounts, CloseIsLast, Chans
  <2>5. CloseIsLast' BY DEF Typing, CloseIsLast, LockHeld, InOrder
  <2>6. LeftCounts' BY DEF Typing, LeftCounts, Chans
  <2>7. QED BY <2>1, <2>2, <2>3, <2>4, <2>5, <2>6
<1>16. CASE Report
  <2> USE <1>16 DEF Report, Begin, fresh, Built, env, chans, pub, loopVars, userVars, Procs, IInv
  <2>1. Typing'
    <3>1. LinkTypeOK' BY DEF Typing, LinkTypeOK, linkVars
    <3>2. QED BY <3>1 DEF Typing, LeftCounts, LoopPoints
  <2>2. LockHeld' BY DEF Typing, LockHeld
  <2>3. CallsMatch' BY DEF Typing, LockHeld, CallsMatch, InOrder, CloseIsLast
  <2>4. InOrder' BY DEF Typing, InOrder, LeftCounts, CloseIsLast, Chans
  <2>5. CloseIsLast' BY DEF Typing, CloseIsLast, LockHeld, InOrder
  <2>6. LeftCounts' BY DEF Typing, LeftCounts, Chans
  <2>7. QED BY <2>1, <2>2, <2>3, <2>4, <2>5, <2>6
<1>17. QED BY <1>1, <1>2, <1>3, <1>4, <1>5, <1>6, <1>7, <1>8, <1>9, <1>10, <1>11, <1>12,
    <1>13, <1>14, <1>15, <1>16 DEF LoopNext, SetupNext

LEMMA EnvIInv ==
    ASSUME IInv, Connection \/ GoQuiet
    PROVE  IInv'
<1> USE PublisherAssumption
<1>1. CASE Connection
  <2> USE <1>1 DEF Connection, Begin, fresh, Built, env, chans, pub, loopVars, userVars, Procs, IInv
  <2>1. Typing'
    <3>1. LinkTypeOK' BY LinkEnvType DEF Typing
    <3>2. quiet' \in BOOLEAN BY DEF Typing
    <3>3. QED BY <3>1, <3>2 DEF Typing, LeftCounts, LoopPoints
  <2>2. LockHeld' BY DEF Typing, LockHeld
  <2>3. CallsMatch' BY DEF Typing, LockHeld, CallsMatch, InOrder, CloseIsLast
  <2>4. InOrder' BY DEF Typing, InOrder, LeftCounts, CloseIsLast, Chans
  <2>5. CloseIsLast' BY DEF Typing, CloseIsLast, LockHeld, InOrder
  <2>6. LeftCounts' BY DEF Typing, LeftCounts, Chans
  <2>7. QED BY <2>1, <2>2, <2>3, <2>4, <2>5, <2>6
<1>2. CASE GoQuiet
  <2> USE <1>2 DEF GoQuiet, Begin, fresh, Built, env, chans, pub, loopVars, userVars, Procs, IInv
  <2>1. Typing'
    <3>1. LinkTypeOK' BY DEF Typing, LinkTypeOK, linkVars
    <3>2. QED BY <3>1 DEF Typing, LeftCounts, LoopPoints
  <2>2. LockHeld' BY DEF Typing, LockHeld
  <2>3. CallsMatch' BY DEF Typing, LockHeld, CallsMatch, InOrder, CloseIsLast
  <2>4. InOrder' BY DEF Typing, InOrder, LeftCounts, CloseIsLast, Chans
  <2>5. CloseIsLast' BY DEF Typing, CloseIsLast, LockHeld, InOrder
  <2>6. LeftCounts' BY DEF Typing, LeftCounts, Chans
  <2>7. QED BY <2>1, <2>2, <2>3, <2>4, <2>5, <2>6
<1>3. QED BY <1>1, <1>2

LEMMA ChanIInv ==
    ASSUME IInv, NEW c \in Chans, ChanNext(c)
    PROVE  IInv'
<1> USE PublisherAssumption
<1>1. CASE Exception(c)
  <2> USE <1>1 DEF Exception, Begin, fresh, Built, env, chans, pub, loopVars, userVars, Procs, IInv
  <2>1. Typing'
    <3>1. LinkTypeOK' BY DEF Typing, LinkTypeOK, linkVars
    <3>2. QED BY <3>1 DEF Typing, LeftCounts, LoopPoints
  <2>2. LockHeld' BY DEF Typing, LockHeld
  <2>3. CallsMatch' BY DEF Typing, LockHeld, CallsMatch, InOrder, CloseIsLast
  <2>4. InOrder' BY DEF Typing, InOrder, LeftCounts, CloseIsLast, Chans
  <2>5. CloseIsLast' BY DEF Typing, CloseIsLast, LockHeld, InOrder
  <2>6. LeftCounts' BY DEF Typing, LeftCounts, Chans
  <2>7. QED BY <2>1, <2>2, <2>3, <2>4, <2>5, <2>6
<1>2. CASE WatchEnds(c)
  <2> USE <1>2 DEF WatchEnds, Begin, fresh, Built, env, chans, pub, loopVars, userVars, Procs, IInv
  <2>1. Typing'
    <3>1. LinkTypeOK' BY DEF Typing, LinkTypeOK, linkVars
    <3>2. QED BY <3>1 DEF Typing, LeftCounts, LoopPoints
  <2>2. LockHeld' BY DEF Typing, LockHeld
  <2>3. CallsMatch' BY DEF Typing, LockHeld, CallsMatch, InOrder, CloseIsLast
  <2>4. InOrder' BY DEF Typing, InOrder, LeftCounts, CloseIsLast, Chans
  <2>5. CloseIsLast' BY DEF Typing, CloseIsLast, LockHeld, InOrder
  <2>6. LeftCounts' BY DEF Typing, LeftCounts, Chans
  <2>7. QED BY <2>1, <2>2, <2>3, <2>4, <2>5, <2>6
<1>3. CASE WatchSees(c)
  <2> USE <1>3 DEF WatchSees, Begin, fresh, Built, env, chans, pub, loopVars, userVars, Procs, IInv
  <2>1. Typing'
    <3>1. LinkTypeOK' BY DEF Typing, LinkTypeOK, linkVars
    <3>2. QED BY <3>1 DEF Typing, LeftCounts, LoopPoints
  <2>2. LockHeld' BY DEF Typing, LockHeld
  <2>3. CallsMatch' BY DEF Typing, LockHeld, CallsMatch, InOrder, CloseIsLast
  <2>4. InOrder' BY DEF Typing, InOrder, LeftCounts, CloseIsLast, Chans
  <2>5. CloseIsLast' BY DEF Typing, CloseIsLast, LockHeld, InOrder
  <2>6. LeftCounts' BY DEF Typing, LeftCounts, Chans
  <2>7. QED BY <2>1, <2>2, <2>3, <2>4, <2>5, <2>6
<1>4. CASE WatchReports(c)
  <2> USE <1>4 DEF WatchReports, Begin, fresh, Built, env, chans, pub, loopVars,
      userVars, Procs, IInv
  <2>1. Typing'
    <3>1. LinkTypeOK' BY DEF Typing, LinkTypeOK, linkVars
    <3>2. QED BY <3>1 DEF Typing, LeftCounts, LoopPoints
  <2>2. LockHeld' BY DEF Typing, LockHeld
  <2>3. CallsMatch' BY DEF Typing, LockHeld, CallsMatch, InOrder, CloseIsLast
  <2>4. InOrder' BY DEF Typing, InOrder, LeftCounts, CloseIsLast, Chans
  <2>5. CloseIsLast' BY DEF Typing, CloseIsLast, LockHeld, InOrder
  <2>6. LeftCounts' BY DEF Typing, LeftCounts, Chans
  <2>7. QED BY <2>1, <2>2, <2>3, <2>4, <2>5, <2>6
<1>5. QED BY <1>1, <1>2, <1>3, <1>4 DEF ChanNext

LEMMA CallerIInv ==
    ASSUME IInv, NEW u \in Callers, CallerNext(u)
    PROVE  IInv'
<1> USE PublisherAssumption
<1>1. CASE Call(u)
  <2> USE <1>1 DEF Call, Begin, fresh, Built, env, chans, pub, loopVars, userVars, Procs, IInv
  <2>1. Typing'
    <3>1. LinkTypeOK' BY DEF Typing, LinkTypeOK, linkVars
    <3>2. QED BY <3>1 DEF Typing, LeftCounts, LoopPoints
  <2>2. LockHeld' BY DEF Typing, LockHeld
  <2>3. CallsMatch' BY DEF Typing, LockHeld, CallsMatch, InOrder, CloseIsLast
  <2>4. InOrder' BY DEF Typing, InOrder, LeftCounts, CloseIsLast, Chans
  <2>5. CloseIsLast' BY DEF Typing, CloseIsLast, LockHeld, InOrder
  <2>6. LeftCounts' BY DEF Typing, LeftCounts, Chans
  <2>7. QED BY <2>1, <2>2, <2>3, <2>4, <2>5, <2>6
<1>2. CASE CallLock(u)
  <2> USE <1>2 DEF CallLock, Begin, fresh, Built, env, chans, pub, loopVars, userVars, Procs, IInv
  <2>1. Typing'
    <3>1. LinkTypeOK' BY DEF Typing, LinkTypeOK, linkVars
    <3>2. caller' \in [Callers -> {"idle", "waiting", "holding", "calling"}]
      BY DEF Typing
    <3>3. rpcMu' \in Procs \cup {"free"}
      BY DEF Typing
    <3>4. QED BY <3>1, <3>2, <3>3 DEF Typing, LeftCounts, LoopPoints
  <2>2. LockHeld' BY DEF Typing, LockHeld
  <2>3. CallsMatch' BY DEF Typing, LockHeld, CallsMatch, InOrder, CloseIsLast
  <2>4. InOrder' BY DEF Typing, InOrder, LeftCounts, CloseIsLast, Chans
  <2>5. CloseIsLast' BY DEF Typing, CloseIsLast, LockHeld, InOrder
  <2>6. LeftCounts' BY DEF Typing, LeftCounts, Chans
  <2>7. QED BY <2>1, <2>2, <2>3, <2>4, <2>5, <2>6
<1>3. CASE CallSend(u)
  <2> USE <1>3 DEF CallSend, Begin, fresh, Built, env, chans, pub, loopVars, userVars,
      Send, Procs, IInv
  <2>1. Typing'
    <3>1. LinkTypeOK' BY DEF Typing, LinkTypeOK, linkVars
    <3>2. calls' \in [Chans -> SUBSET Procs]
      BY DEF Typing, Chans
    <3>3. using' \in [Callers -> 0..MaxChan]
      BY DEF Typing
    <3>4. caller' \in [Callers -> {"idle", "waiting", "holding", "calling"}]
      BY DEF Typing
    <3>5. QED BY <3>1, <3>2, <3>3, <3>4 DEF Typing, LeftCounts, LoopPoints
  <2>2. LockHeld' BY DEF Typing, LockHeld
  <2>3. CallsMatch' BY DEF Typing, LockHeld, CallsMatch, InOrder, CloseIsLast
  <2>4. InOrder' BY DEF Typing, InOrder, LeftCounts, CloseIsLast, Chans
  <2>5. CloseIsLast' BY DEF Typing, CloseIsLast, LockHeld, InOrder
  <2>6. LeftCounts' BY DEF Typing, LeftCounts, Chans
  <2>7. QED BY <2>1, <2>2, <2>3, <2>4, <2>5, <2>6
<1>4. CASE CallReturn(u)
  <2> USE <1>4 DEF CallReturn, Begin, fresh, Built, env, chans, pub, loopVars, userVars,
      Return, Procs, IInv
  <2>1. Typing'
    <3>1. LinkTypeOK' BY DEF Typing, LinkTypeOK, linkVars
    <3>2. calls' \in [Chans -> SUBSET Procs]
      BY DEF Typing
    <3>3. using' \in [Callers -> 0..MaxChan]
      BY DEF Typing
    <3>4. caller' \in [Callers -> {"idle", "waiting", "holding", "calling"}]
      BY DEF Typing
    <3>5. QED BY <3>1, <3>2, <3>3, <3>4 DEF Typing, LeftCounts, LoopPoints
  <2>2. LockHeld' BY DEF Typing, LockHeld
  <2>3. CallsMatch' BY DEF Typing, LockHeld, CallsMatch, InOrder, CloseIsLast
  <2>4. InOrder' BY DEF Typing, InOrder, LeftCounts, CloseIsLast, Chans
  <2>5. CloseIsLast' BY DEF Typing, CloseIsLast, LockHeld, InOrder
  <2>6. LeftCounts' BY DEF Typing, LeftCounts, Chans
  <2>7. QED BY <2>1, <2>2, <2>3, <2>4, <2>5, <2>6
<1>5. QED BY <1>1, <1>2, <1>3, <1>4 DEF CallerNext

LEMMA CloseIInv ==
    ASSUME IInv, CloseNext
    PROVE  IInv'
<1> USE PublisherAssumption
<1>1. CASE Close
  <2> USE <1>1 DEF Close, Begin, fresh, Built, env, chans, pub, loopVars, userVars,
      Unsubscribe, linkVars, Procs, IInv
  <2>1. Typing'
    <3>1. LinkTypeOK' BY DEF Typing, LinkTypeOK, linkVars
    <3>2. QED BY <3>1 DEF Typing, LeftCounts, LoopPoints
  <2>2. LockHeld' BY DEF Typing, LockHeld
  <2>3. CallsMatch' BY DEF Typing, LockHeld, CallsMatch, InOrder, CloseIsLast
  <2>4. InOrder' BY DEF Typing, InOrder, LeftCounts, CloseIsLast, Chans
  <2>5. CloseIsLast' BY DEF Typing, CloseIsLast, LockHeld, InOrder
  <2>6. LeftCounts' BY DEF Typing, LeftCounts, Chans
  <2>7. QED BY <2>1, <2>2, <2>3, <2>4, <2>5, <2>6
<1>2. CASE CloseSlot
  <2> USE <1>2 DEF CloseSlot, Begin, fresh, Built, env, chans, pub, loopVars, userVars,
      Send, Procs, IInv
  <2>1. Typing'
    <3>1. LinkTypeOK' BY DEF Typing, LinkTypeOK, linkVars
    <3>2. QED BY ZenonT(40), <3>1 DEF Typing, LeftCounts, LoopPoints
  <2>2. LockHeld' BY DEF Typing, LockHeld
  <2>3. CallsMatch' BY DEF Typing, LockHeld, CallsMatch, InOrder, CloseIsLast
  <2>4. InOrder' BY DEF Typing, InOrder, LeftCounts, CloseIsLast, Chans
  <2>5. CloseIsLast' BY DEF Typing, CloseIsLast, LockHeld, InOrder
  <2>6. LeftCounts' BY DEF Typing, LeftCounts, Chans
  <2>7. QED BY <2>1, <2>2, <2>3, <2>4, <2>5, <2>6
<1>3. CASE CloseBusy
  <2> USE <1>3 DEF CloseBusy, Begin, fresh, Built, env, chans, pub, loopVars, userVars, Procs, IInv
  <2>1. Typing'
    <3>1. LinkTypeOK' BY DEF Typing, LinkTypeOK, linkVars
    <3>2. stranded' \subseteq Chans
      BY DEF Typing, CloseIsLast
    <3>3. QED BY <3>1, <3>2 DEF Typing, LeftCounts, LoopPoints
  <2>2. LockHeld' BY DEF Typing, LockHeld
  <2>3. CallsMatch' BY DEF Typing, LockHeld, CallsMatch, InOrder, CloseIsLast
  <2>4. InOrder' BY DEF Typing, InOrder, LeftCounts, CloseIsLast, Chans
  <2>5. CloseIsLast' BY DEF Typing, CloseIsLast, LockHeld, InOrder
  <2>6. LeftCounts' BY DEF Typing, LeftCounts, Chans
  <2>7. QED BY <2>1, <2>2, <2>3, <2>4, <2>5, <2>6
<1>4. CASE CloseClosed
  <2> USE <1>4 DEF CloseClosed, Begin, fresh, Built, env, chans, pub, loopVars,
      userVars, CloseReply, Return, Procs, IInv
  <2>1. Typing'
    <3>1. LinkTypeOK' BY DEF Typing, LinkTypeOK, linkVars
    <3>2. QED BY ZenonT(40), <3>1 DEF Typing, LeftCounts, LoopPoints
  <2>2. LockHeld' BY DEF Typing, LockHeld
  <2>3. CallsMatch' BY DEF Typing, LockHeld, CallsMatch, InOrder, CloseIsLast
  <2>4. InOrder' BY DEF Typing, InOrder, LeftCounts, CloseIsLast, Chans
  <2>5. CloseIsLast' BY DEF Typing, CloseIsLast, LockHeld, InOrder
  <2>6. LeftCounts' BY DEF Typing, LeftCounts, Chans
  <2>7. QED BY <2>1, <2>2, <2>3, <2>4, <2>5, <2>6
<1>5. CASE CloseAbandoned
  <2> USE <1>5 DEF CloseAbandoned, Begin, fresh, Built, env, chans, pub, loopVars,
      userVars, Procs, IInv
  <2>1. Typing'
    <3>1. LinkTypeOK' BY DEF Typing, LinkTypeOK, linkVars
    <3>2. QED BY <3>1 DEF Typing, LeftCounts, LoopPoints
  <2>2. LockHeld' BY DEF Typing, LockHeld
  <2>3. CallsMatch' BY DEF Typing, LockHeld, CallsMatch, InOrder, CloseIsLast
  <2>4. InOrder' BY DEF Typing, InOrder, LeftCounts, CloseIsLast, Chans
  <2>5. CloseIsLast' BY DEF Typing, CloseIsLast, LockHeld, InOrder
  <2>6. LeftCounts' BY DEF Typing, LeftCounts, Chans
  <2>7. QED BY <2>1, <2>2, <2>3, <2>4, <2>5, <2>6
<1>6. QED BY <1>1, <1>2, <1>3, <1>4, <1>5 DEF CloseNext

LEMMA NextIInv == IInv /\ [Next]_vars => IInv'
<1> SUFFICES ASSUME IInv, [Next]_vars PROVE IInv'
  OBVIOUS
<1>1. CASE UNCHANGED vars
  BY <1>1 DEF vars, env, linkVars, chans, pub, loopVars, userVars, IInv, Typing, LinkTypeOK,
      LockHeld, CallsMatch, InOrder, CloseIsLast, LeftCounts, fresh
<1>2. CASE Next
  BY <1>2, EnvIInv, ChanIInv, LoopIInv, CallerIInv, CloseIInv DEF Next
<1>3. QED BY <1>1, <1>2

(* Every reachable state satisfies the inductive invariant: each lock holder *)
(* and each outstanding call is where the code waits for it, channels are    *)
(* installed in the order they are opened, and Close comes after every call. *)
THEOREM Inductive == Spec => []IInv
<1>1. QED BY InitIInv, NextIInv, PTL DEF Spec

(* A reconnect channel is registered as long as somebody reads it: every step*)
(* that ends the loop, or lets it end, takes it back or has taken it back.   *)
LEMMA UnheardKept == Unheard /\ [Next]_vars => Unheard'
<1> SUFFICES ASSUME Unheard, [Next]_vars PROVE Unheard'
  OBVIOUS
<1> USE DEF Unheard, env, linkVars, chans, pub, loopVars, userVars
<1>1. CASE UNCHANGED vars BY <1>1 DEF vars
<1>2. CASE Connection \/ GoQuiet
  BY <1>2 DEF Connection, GoQuiet, LinkEnv, Lose, Reconnect, Signal, Finish
<1>3. ASSUME NEW c \in Chans, ChanNext(c) PROVE Unheard'
  BY <1>3 DEF ChanNext, Exception, WatchEnds, WatchSees, WatchReports
<1>4. CASE LoopNext
  <2>1. CASE SelectSignal BY <2>1 DEF SelectSignal, Begin, Take
  <2>2. CASE SelectShut \/ SelectDead \/ SelectRetry \/ Check
    BY <2>2 DEF SelectShut, SelectDead, SelectRetry, Check, Begin
  <2>3. CASE SetupFails BY <2>3 DEF SetupFails
  <2>4. CASE Open \/ Setup \/ SetupReply BY <2>4 DEF Open, Setup, SetupReply
  <2>5. CASE Install \/ Dropped BY <2>5 DEF Install, Dropped
  <2>6. CASE Slot \/ SlotTimeout \/ Retired \/ Probe \/ Report
    BY <2>6 DEF Slot, SlotTimeout, Retired, Probe, Report
  <2>7. QED BY <1>4, <2>1, <2>2, <2>3, <2>4, <2>5, <2>6 DEF LoopNext, SetupNext
<1>5. ASSUME NEW u \in Callers, CallerNext(u) PROVE Unheard'
  BY <1>5 DEF CallerNext, Call, CallLock, CallSend, CallReturn
<1>6. CASE CloseNext
  BY <1>6 DEF CloseNext, Close, CloseSlot, CloseBusy, CloseClosed, CloseAbandoned, Unsubscribe
<1>7. QED BY <1>1, <1>2, <1>3, <1>4, <1>5, <1>6 DEF Next

(* Every variable of the publisher and of the connection below keeps its     *)
(* type, for any number of channels, callers and setup calls, and            *)
(* p.reconnectCh is not registered once nobody reads it.                     *)
THEOREM TypeCorrect == Spec => []TypeOK
<1>1. IInv => Typing BY DEF IInv
<1>2. Init => Unheard BY DEF Init, Unheard
<1>3. Spec => []Unheard BY <1>2, UnheardKept, PTL DEF Spec
<1>4. QED BY <1>1, <1>3, Inductive, PTL DEF TypeOK

(* Two processes with a call on one channel would have to hold rpcMu both,   *)
(* or one be the setup of a channel nobody else has, or follow Close.        *)
LEMMA OneCaller ==
    ASSUME IInv, NEW c \in Chans, NEW p \in calls[c], NEW q \in calls[c]
    PROVE  p = q
<1> USE PublisherAssumption DEF IInv
<1>1. p \in Procs /\ q \in Procs BY DEF Typing
<1>2. ASSUME NEW u \in Callers, u \in calls[c], "loop" \in calls[c] PROVE FALSE
  BY <1>2 DEF CallsMatch, LockHeld, InOrder, Typing, fresh, Chans
<1>3. ASSUME NEW u \in Callers, u \in calls[c], "close" \in calls[c] PROVE FALSE
  BY <1>3 DEF CallsMatch, CloseIsLast
<1>4. ASSUME "loop" \in calls[c], "close" \in calls[c] PROVE FALSE
  BY <1>4 DEF CallsMatch, InOrder, Typing, fresh, Chans
<1>5. ASSUME NEW u \in Callers, NEW v \in Callers, u \in calls[c], v \in calls[c] PROVE u = v
  BY <1>5 DEF CallsMatch, LockHeld
<1>6. QED BY <1>1, <1>2, <1>3, <1>4, <1>5 DEF Procs

(* The rule amqp091 needs and rpcMu exists for: at most one synchronous call *)
(* is outstanding on any channel, with any number of callers, replacements,  *)
(* timeouts and an abandoned Close.                                          *)
THEOREM NoReplyMixing == Spec => []OneCallPerChannel
<1>1. IInv => OneCallPerChannel
  <2> SUFFICES ASSUME IInv, NEW c \in Chans PROVE Cardinality(calls[c]) <= 1
    BY DEF OneCallPerChannel
  <2>1. CASE calls[c] = {} BY <2>1, FS_EmptySet
  <2>2. CASE calls[c] # {}
    <3> PICK p \in calls[c] : TRUE BY <2>2
    <3>1. calls[c] = {p} BY OneCaller
    <3>2. Cardinality({p}) = 1 BY FS_Singleton
    <3>3. QED BY <3>1, <3>2
  <2>3. QED BY <2>1, <2>2
<1>2. QED BY <1>1, Inductive, PTL

-----------------------------------------------------------------------------
(* The supply of channels: a second invariant, on top of the first.          *)

(* Channels are numbered as they are opened, and none is ahead of its        *)
(* connection.  What has just been installed is what was opened last, and    *)
(* the publisher never closes a channel it goes on using.                    *)
Homes ==
    /\ \A c \in Chans : home[c] <= gen /\ (state[c] = "none" <=> c > opened)
    /\ loop \in {"slot", "retire", "probe", "report"} => current = opened
    /\ loop = "report" => ~Alive(current)
    /\ ~closed /\ current # 0 => state[current] # "closed"
    /\ loop \in {"setup", "setupCall", "install"} => state[fresh] # "closed"

(* A publisher at work is on the list, so it is told of every connection it  *)
(* has no channel on ...                                                     *)
Listed == ~closed /\ loop # "done" => Self \in listed

News == owed \/ Self \in signalled

Told == ~closed =>
    /\ loop = "select" /\ home[current] < gen => retry \/ News
    /\ loop \in {"setup", "setupCall", "install"} /\ home[fresh] < gen => News
    /\ loop \in {"slot", "retire", "probe", "report"} /\ home[current] < gen => News

(* ... and of a channel that fails by its watcher, which is there as long as *)
(* the channel is alive.                                                     *)
Noticed == ~closed =>
    /\ loop = "select" /\ state[current] = "failed" =>
          retry \/ chDead \/ watch[current] \in {"armed", "reporting"}
    /\ Alive(current) /\ loop \notin {"slot", "retire", "probe"} => watch[current] = "armed"

Supply == Homes /\ Listed /\ Told /\ Noticed /\ StaleReportHarmless /\ NoLeakedChannel

(* A reconnect makes no channel alive: every channel there is belongs to an  *)
(* earlier connection.                                                       *)
LEMMA LinkRevivesNone ==
    ASSUME IInv, Homes, Connection, NEW c \in Chans, Alive(c)'
    PROVE  Alive(c)
<1> USE PublisherAssumption, LinkAssumption
    DEF Connection, chans, Alive, Homes, IInv, Typing, LinkTypeOK, Chans
<1>1. state[c] = "open" /\ home[c] = gen' /\ up' /\ c # 0 OBVIOUS
<1>2. CASE Lose BY <1>1, <1>2 DEF Lose
<1>3. CASE Reconnect
  <2>1. home[c] <= gen /\ gen' = gen + 1 BY <1>3 DEF Reconnect
  <2>2. home[c] \in Nat /\ gen \in Nat OBVIOUS
  <2>3. QED BY <1>1, <2>1, <2>2
<1>4. CASE Signal BY <1>1, <1>4 DEF Signal
<1>5. CASE Finish BY <1>1, <1>5 DEF Finish
<1>6. QED BY <1>2, <1>3, <1>4, <1>5 DEF LinkEnv

LEMMA EnvSupply ==
    ASSUME IInv, Supply, Connection \/ GoQuiet
    PROVE  Supply'
<1> USE PublisherAssumption, LinkAssumption DEF IInv, Typing, LinkTypeOK, CallsMatch,
    InOrder, CloseIsLast, LeftCounts, Procs,
        Supply, Homes, Listed, Told, News, Noticed, StaleReportHarmless,
        NoLeakedChannel, Alive, fresh, Built, env, linkVars, chans, pub, loopVars, userVars, Chans
<1>1. CASE Connection
  <2> USE <1>1 DEF Connection, LinkEnv, Lose, Reconnect, Signal, Finish
  <2>1. Homes' /\ Listed' /\ StaleReportHarmless' OBVIOUS
  <2>2. Told' /\ Noticed' OBVIOUS
  <2>3. NoLeakedChannel'
    <3>1. \A c \in Chans : Alive(c)' => Alive(c) BY LinkRevivesNone
    <3>2. UNCHANGED <<current, closed, close, calls, loop, old, opened, stranded>> OBVIOUS
    <3>3. QED BY <3>1, <3>2
  <2>4. QED BY <2>1, <2>2, <2>3
<1>2. CASE GoQuiet
  <2> USE <1>2 DEF GoQuiet
  <2>1. Homes' /\ Listed' /\ StaleReportHarmless' OBVIOUS
  <2>2. Told' /\ Noticed' OBVIOUS
  <2>3. NoLeakedChannel' OBVIOUS
  <2>4. QED BY <2>1, <2>2, <2>3
<1>3. QED BY <1>1, <1>2 DEF Connection

LEMMA ChanSupply ==
    ASSUME IInv, Supply, NEW d \in Chans, ChanNext(d)
    PROVE  Supply'
<1> USE PublisherAssumption, LinkAssumption DEF IInv, Typing, LinkTypeOK, CallsMatch,
    InOrder, CloseIsLast, LeftCounts, Procs,
        Supply, Homes, Listed, Told, News, Noticed, StaleReportHarmless,
        NoLeakedChannel, Alive, fresh, Built, env, linkVars, chans, pub, loopVars, userVars, Chans
<1>1. CASE Exception(d)
  <2> USE <1>1 DEF Exception
  <2>1. Homes' /\ Listed' /\ StaleReportHarmless' OBVIOUS
  <2>2. Told' /\ Noticed' OBVIOUS
  <2>3. NoLeakedChannel' OBVIOUS
  <2>4. QED BY <2>1, <2>2, <2>3
<1>2. CASE WatchEnds(d)
  <2> USE <1>2 DEF WatchEnds
  <2>1. Homes' /\ Listed' /\ StaleReportHarmless' OBVIOUS
  <2>2. Told' /\ Noticed' OBVIOUS
  <2>3. NoLeakedChannel' OBVIOUS
  <2>4. QED BY <2>1, <2>2, <2>3
<1>3. CASE WatchSees(d)
  <2> USE <1>3 DEF WatchSees
  <2>1. Homes' /\ Listed' /\ StaleReportHarmless' OBVIOUS
  <2>2. Told' /\ Noticed' OBVIOUS
  <2>3. NoLeakedChannel' OBVIOUS
  <2>4. QED BY <2>1, <2>2, <2>3
<1>4. CASE WatchReports(d)
  <2> USE <1>4 DEF WatchReports
  <2>1. Homes' /\ Listed' /\ StaleReportHarmless' OBVIOUS
  <2>2. Told' /\ Noticed' OBVIOUS
  <2>3. NoLeakedChannel' OBVIOUS
  <2>4. QED BY <2>1, <2>2, <2>3
<1>5. QED BY <1>1, <1>2, <1>3, <1>4 DEF ChanNext

LEMMA LoopSupply ==
    ASSUME IInv, Supply, LoopNext
    PROVE  Supply'
<1> USE PublisherAssumption, LinkAssumption DEF IInv, Typing, LinkTypeOK, CallsMatch,
    InOrder, CloseIsLast, LeftCounts, Procs,
        Supply, Homes, Listed, Told, News, Noticed, StaleReportHarmless,
        NoLeakedChannel, Alive, fresh, Built, env, linkVars, chans, pub, loopVars, userVars, Chans
<1>1. CASE SelectSignal
  <2> USE <1>1 DEF SelectSignal, Begin, Take
  <2>1. Homes' /\ Listed' /\ StaleReportHarmless' OBVIOUS
  <2>2. Told' /\ Noticed' OBVIOUS
  <2>3. NoLeakedChannel' OBVIOUS
  <2>4. QED BY <2>1, <2>2, <2>3
<1>2. CASE SelectShut
  <2> USE <1>2 DEF SelectShut
  <2>1. Homes' /\ Listed' /\ StaleReportHarmless' OBVIOUS
  <2>2. Told' /\ Noticed' OBVIOUS
  <2>3. NoLeakedChannel' OBVIOUS
  <2>4. QED BY <2>1, <2>2, <2>3
<1>3. CASE SelectDead
  <2> USE <1>3 DEF SelectDead, Begin
  <2>1. Homes' /\ Listed' /\ StaleReportHarmless' OBVIOUS
  <2>2. Told' /\ Noticed' OBVIOUS
  <2>3. NoLeakedChannel' OBVIOUS
  <2>4. QED BY <2>1, <2>2, <2>3
<1>4. CASE SelectRetry
  <2> USE <1>4 DEF SelectRetry, Begin
  <2>1. Homes' /\ Listed' /\ StaleReportHarmless' OBVIOUS
  <2>2. Told' /\ Noticed' OBVIOUS
  <2>3. NoLeakedChannel' OBVIOUS
  <2>4. QED BY <2>1, <2>2, <2>3
<1>5. CASE Check
  <2> USE <1>5 DEF Check
  <2>1. Homes' /\ Listed' /\ StaleReportHarmless' OBVIOUS
  <2>2. Told' /\ Noticed' OBVIOUS
  <2>3. NoLeakedChannel' OBVIOUS
  <2>4. QED BY <2>1, <2>2, <2>3
<1>6. CASE SetupFails
  <2> USE <1>6 DEF SetupFails, Return
  <2>1. Homes' /\ Listed' /\ StaleReportHarmless' OBVIOUS
  <2>2. Told' /\ Noticed' OBVIOUS
  <2>3. NoLeakedChannel' OBVIOUS
  <2>4. QED BY <2>1, <2>2, <2>3
<1>7. CASE Open
  <2> USE <1>7 DEF Open
  <2>1. Homes' /\ Listed' /\ StaleReportHarmless' OBVIOUS
  <2>2. Told' /\ Noticed' OBVIOUS
  <2>3. NoLeakedChannel' OBVIOUS
  <2>4. QED BY <2>1, <2>2, <2>3
<1>8. CASE Setup
  <2> USE <1>8 DEF Setup, Send
  <2>1. Homes' /\ Listed' /\ StaleReportHarmless' OBVIOUS
  <2>2. Told' /\ Noticed' OBVIOUS
  <2>3. NoLeakedChannel' OBVIOUS
  <2>4. QED BY <2>1, <2>2, <2>3
<1>9. CASE SetupReply
  <2> USE <1>9 DEF SetupReply, Return
  <2>1. Homes' /\ Listed' /\ StaleReportHarmless' OBVIOUS
  <2>2. Told' /\ Noticed' OBVIOUS
  <2>3. NoLeakedChannel' OBVIOUS
  <2>4. QED BY <2>1, <2>2, <2>3
<1>10. CASE Install
  <2> USE <1>10 DEF Install, Send
  <2>1. Homes' /\ Listed' /\ StaleReportHarmless' OBVIOUS
  <2>2. Told' /\ Noticed' OBVIOUS
  <2>3. NoLeakedChannel' OBVIOUS
  <2>4. QED BY <2>1, <2>2, <2>3
<1>11. CASE Dropped
  <2> USE <1>11 DEF Dropped, CloseReply, Return
  <2>1. Homes' /\ Listed' /\ StaleReportHarmless' OBVIOUS
  <2>2. Told' /\ Noticed' OBVIOUS
  <2>3. NoLeakedChannel' OBVIOUS
  <2>4. QED BY <2>1, <2>2, <2>3
<1>12. CASE Slot
  <2> USE <1>12 DEF Slot, Send
  <2>1. Homes' /\ Listed' /\ StaleReportHarmless' OBVIOUS
  <2>2. Told' /\ Noticed' OBVIOUS
  <2>3. NoLeakedChannel' OBVIOUS
  <2>4. QED BY <2>1, <2>2, <2>3
<1>13. CASE SlotTimeout
  <2> USE <1>13 DEF SlotTimeout
  <2>1. Homes' /\ Listed' /\ StaleReportHarmless' OBVIOUS
  <2>2. Told' /\ Noticed' OBVIOUS
  <2>3. NoLeakedChannel' OBVIOUS
  <2>4. QED BY <2>1, <2>2, <2>3
<1>14. CASE Retired
  <2> USE <1>14 DEF Retired, CloseReply, Return
  <2>1. Homes' /\ Listed' /\ StaleReportHarmless' OBVIOUS
  <2>2. Told' /\ Noticed' OBVIOUS
  <2>3. NoLeakedChannel' OBVIOUS
  <2>4. QED BY <2>1, <2>2, <2>3
<1>15. CASE Probe
  <2> USE <1>15 DEF Probe
  <2>1. Homes' /\ Listed' /\ StaleReportHarmless' OBVIOUS
  <2>2. Told' /\ Noticed' OBVIOUS
  <2>3. NoLeakedChannel' OBVIOUS
  <2>4. QED BY <2>1, <2>2, <2>3
<1>16. CASE Report
  <2> USE <1>16 DEF Report
  <2>1. Homes' /\ Listed' /\ StaleReportHarmless' OBVIOUS
  <2>2. Told' /\ Noticed' OBVIOUS
  <2>3. NoLeakedChannel' OBVIOUS
  <2>4. QED BY <2>1, <2>2, <2>3
<1>17. QED BY <1>1, <1>2, <1>3, <1>4, <1>5, <1>6, <1>7, <1>8, <1>9, <1>10, <1>11, <1>12,
    <1>13, <1>14, <1>15, <1>16 DEF LoopNext, SetupNext

LEMMA CallerSupply ==
    ASSUME IInv, Supply, NEW u \in Callers, CallerNext(u)
    PROVE  Supply'
<1> USE PublisherAssumption, LinkAssumption DEF IInv, Typing, LinkTypeOK, CallsMatch,
    InOrder, CloseIsLast, LeftCounts, Procs,
        Supply, Homes, Listed, Told, News, Noticed, StaleReportHarmless,
        NoLeakedChannel, Alive, fresh, Built, env, linkVars, chans, pub, loopVars, userVars, Chans
<1>1. CASE Call(u)
  <2> USE <1>1 DEF Call
  <2>1. Homes' /\ Listed' /\ StaleReportHarmless' OBVIOUS
  <2>2. Told' /\ Noticed' OBVIOUS
  <2>3. NoLeakedChannel' OBVIOUS
  <2>4. QED BY <2>1, <2>2, <2>3
<1>2. CASE CallLock(u)
  <2> USE <1>2 DEF CallLock
  <2>1. Homes' /\ Listed' /\ StaleReportHarmless' OBVIOUS
  <2>2. Told' /\ Noticed' OBVIOUS
  <2>3. NoLeakedChannel' OBVIOUS
  <2>4. QED BY <2>1, <2>2, <2>3
<1>3. CASE CallSend(u)
  <2> USE <1>3 DEF CallSend, Send
  <2>1. Homes' /\ Listed' /\ StaleReportHarmless' OBVIOUS
  <2>2. Told' /\ Noticed' OBVIOUS
  <2>3. NoLeakedChannel' OBVIOUS
  <2>4. QED BY <2>1, <2>2, <2>3
<1>4. CASE CallReturn(u)
  <2> USE <1>4 DEF CallReturn, Return
  <2>1. Homes' /\ Listed' /\ StaleReportHarmless' OBVIOUS
  <2>2. Told' /\ Noticed' OBVIOUS
  <2>3. NoLeakedChannel' OBVIOUS
  <2>4. QED BY <2>1, <2>2, <2>3
<1>5. QED BY <1>1, <1>2, <1>3, <1>4 DEF CallerNext

LEMMA CloseSupply ==
    ASSUME IInv, Supply, CloseNext
    PROVE  Supply'
<1> USE PublisherAssumption, LinkAssumption DEF IInv, Typing, LinkTypeOK, CallsMatch,
    InOrder, CloseIsLast, LeftCounts, Procs,
        Supply, Homes, Listed, Told, News, Noticed, StaleReportHarmless,
        NoLeakedChannel, Alive, fresh, Built, env, linkVars, chans, pub, loopVars, userVars, Chans
<1>1. CASE Close
  <2> USE <1>1 DEF Close, Unsubscribe
  <2>1. Homes' /\ Listed' /\ StaleReportHarmless' OBVIOUS
  <2>2. Told' /\ Noticed' OBVIOUS
  <2>3. NoLeakedChannel' OBVIOUS
  <2>4. QED BY <2>1, <2>2, <2>3
<1>2. CASE CloseSlot
  <2> USE <1>2 DEF CloseSlot, Send
  <2>1. Homes' /\ Listed' /\ StaleReportHarmless' OBVIOUS
  <2>2. Told' /\ Noticed' OBVIOUS
  <2>3. NoLeakedChannel' OBVIOUS
  <2>4. QED BY <2>1, <2>2, <2>3
<1>3. CASE CloseBusy
  <2> USE <1>3 DEF CloseBusy
  <2>1. Homes' /\ Listed' /\ StaleReportHarmless' OBVIOUS
  <2>2. Told' /\ Noticed' OBVIOUS
  <2>3. NoLeakedChannel' OBVIOUS
  <2>4. QED BY <2>1, <2>2, <2>3
<1>4. CASE CloseClosed
  <2> USE <1>4 DEF CloseClosed, CloseReply, Return
  <2>1. Homes' /\ Listed' /\ StaleReportHarmless' OBVIOUS
  <2>2. Told' /\ Noticed' OBVIOUS
  <2>3. NoLeakedChannel' OBVIOUS
  <2>4. QED BY <2>1, <2>2, <2>3
<1>5. CASE CloseAbandoned
  <2> USE <1>5 DEF CloseAbandoned
  <2>1. Homes' /\ Listed' /\ StaleReportHarmless' OBVIOUS
  <2>2. Told' /\ Noticed' OBVIOUS
  <2>3. NoLeakedChannel' OBVIOUS
  <2>4. QED BY <2>1, <2>2, <2>3
<1>6. QED BY <1>1, <1>2, <1>3, <1>4, <1>5 DEF CloseNext

LEMMA InitSupply == Init => Supply
<1> SUFFICES ASSUME Init PROVE Supply
  OBVIOUS
<1> USE PublisherAssumption, LinkAssumption DEF Init, Alive, fresh, Chans
<1>1. Homes BY DEF Homes
<1>2. Listed BY DEF Listed
<1>3. Told /\ Noticed BY DEF Told, Noticed
<1>4. StaleReportHarmless BY DEF StaleReportHarmless
<1>5. NoLeakedChannel BY DEF NoLeakedChannel
<1>6. QED BY <1>1, <1>2, <1>3, <1>4, <1>5 DEF Supply

LEMMA NextSupply == IInv /\ Supply /\ [Next]_vars => Supply'
<1> SUFFICES ASSUME IInv, Supply, [Next]_vars PROVE Supply'
  OBVIOUS
<1>1. CASE UNCHANGED vars
  BY <1>1 DEF vars, env, linkVars, chans, pub, loopVars, userVars, Supply, Homes, Listed, News,
      Told, Noticed, StaleReportHarmless, NoLeakedChannel, Alive, fresh
<1>2. CASE Next
  BY <1>2, EnvSupply, ChanSupply, LoopSupply, CallerSupply, CloseSupply DEF Next
<1>3. QED BY <1>1, <1>2

(* Every reachable state satisfies the second invariant: whatever the        *)
(* publisher has, is setting up or is replacing, either works or has its     *)
(* replacement announced by a signal, a watcher, a report or a timer.        *)
THEOREM SupplyInductive == Spec => []Supply
<1>1. QED BY InitSupply, NextSupply, Inductive, PTL DEF Spec

(* setupChannel, Close: a channel that is open belongs to somebody who will  *)
(* use it or close it, or was left on purpose because a call on it would not *)
(* finish.                                                                   *)
THEOREM NoLeak == Spec => []NoLeakedChannel
<1>1. Supply => NoLeakedChannel BY DEF Supply
<1>2. QED BY <1>1, SupplyInductive, PTL

(* handleReconnect: the loop never sleeps on a dead channel of a live        *)
(* connection with no wake-up on its way.  A channel of an earlier           *)
(* connection has its signal, one that failed has its watcher.               *)
THEOREM WakesUp == Spec => []WakeUpPending
<1>1. IInv /\ Supply => WakeUpPending
  <2> SUFFICES ASSUME IInv, Supply, loop = "select", ~closed, up, ~Alive(current)
               PROVE  \/ retry \/ chDead \/ News
                      \/ current # 0 /\ watch[current] \in {"armed", "reporting"}
    BY DEF WakeUpPending, News
  <2> USE PublisherAssumption, LinkAssumption DEF Supply, Chans
  <2>1. current \in Chans /\ current # 0 BY DEF IInv, InOrder
  <2>2. state[current] \in {"open", "failed"}
    BY <2>1 DEF IInv, InOrder, Typing, Homes
  <2>3. CASE state[current] = "failed" BY <2>1, <2>3 DEF Noticed
  <2>4. CASE home[current] < gen BY <2>4 DEF Told
  <2>5. CASE state[current] = "open" /\ ~(home[current] < gen)
    BY <2>1, <2>5 DEF Alive, Homes, IInv, Typing, LinkTypeOK
  <2>6. QED BY <2>2, <2>3, <2>4, <2>5
<1>2. QED BY <1>1, Inductive, SupplyInductive, PTL

(* "The state of the current channel decides, not the signal": a report that *)
(* arrives late, of a channel long replaced, begins no setup beside a healthy*)
(* one, and so never replaces it.                                            *)
THEOREM Harmless ==
    Spec => /\ []StaleReportHarmless
            /\ [][current' # current /\ Alive(current) => why # "dead"]_vars
<1>1. ASSUME IInv, Supply, [Next]_vars
      PROVE  [current' # current /\ Alive(current) => why # "dead"]_vars
  <2> SUFFICES ASSUME Next, current' # current, Alive(current), why = "dead" PROVE FALSE
    BY <1>1
  <2>1. loop = "install"
    <3> USE DEF env, linkVars, chans, pub, loopVars, userVars
    <3>1. CASE Connection \/ GoQuiet BY <3>1 DEF Connection, GoQuiet
    <3>2. ASSUME NEW c \in Chans, ChanNext(c) PROVE FALSE
      BY <3>2 DEF ChanNext, Exception, WatchEnds, WatchSees, WatchReports
    <3>3. CASE LoopNext
      BY <3>3 DEF LoopNext, SetupNext, SelectSignal, SelectShut, SelectDead, SelectRetry, Check,
          SetupFails, Open, Setup, SetupReply, Install, Dropped, Slot, SlotTimeout, Retired,
          Probe, Report, Begin
    <3>4. ASSUME NEW u \in Callers, CallerNext(u) PROVE FALSE
      BY <3>4 DEF CallerNext, Call, CallLock, CallSend, CallReturn
    <3>5. CASE CloseNext
      BY <3>5 DEF CloseNext, Close, CloseSlot, CloseBusy, CloseClosed, CloseAbandoned
    <3>6. QED BY <3>1, <3>2, <3>3, <3>4, <3>5 DEF Next
  <2>2. QED BY <1>1, <2>1 DEF Supply, StaleReportHarmless
<1>2. Supply => StaleReportHarmless BY DEF Supply
<1>3. QED BY <1>1, <1>2, Inductive, SupplyInductive, PTL DEF Spec

-----------------------------------------------------------------------------
(* Connection.NotifyReconnect, UnsubscribeReconnect: what a publisher does   *)
(* with its connection is what Link lets a subscriber do, and what it relies *)
(* on is what Link does; Connection implements Link (ConnectionProofs), so   *)
(* the two fit together.                                                     *)
THEOREM KeepsToLink == Spec => [][LinkNext]_linkVars
<1>1. [Next]_vars => [LinkNext]_linkVars
  <2> SUFFICES ASSUME [Next]_vars PROVE [LinkNext]_linkVars OBVIOUS
  <2> USE PublisherAssumption DEF env, linkVars, chans, pub, loopVars, userVars
  <2>1. CASE UNCHANGED vars BY <2>1 DEF vars
  <2>2. CASE Connection \/ GoQuiet BY <2>2 DEF Connection, GoQuiet, LinkNext
  <2>3. ASSUME NEW c \in Chans, ChanNext(c) PROVE UNCHANGED linkVars
    BY <2>3 DEF ChanNext, Exception, WatchEnds, WatchSees, WatchReports
  <2>4. CASE LoopNext
    <3>1. CASE SelectSignal BY <3>1 DEF SelectSignal, LinkNext
    <3>2. CASE SetupFails
      <4>1. CASE listed' = listed BY <3>2, <4>1 DEF SetupFails
      <4>2. CASE listed' = listed \ {Self}
        <5>1. Unsubscribe(Self) BY <3>2, <4>2 DEF SetupFails, Unsubscribe
        <5>2. QED BY <5>1 DEF LinkNext
      <4>3. QED BY <3>2, <4>1, <4>2 DEF SetupFails
    <3>3. CASE SelectShut \/ SelectDead \/ SelectRetry \/ Check
      BY <3>3 DEF SelectShut, SelectDead, SelectRetry, Check
    <3>4. CASE Open \/ Setup \/ SetupReply \/ Install \/ Dropped
      BY <3>4 DEF Open, Setup, SetupReply, Install, Dropped
    <3>5. CASE Slot \/ SlotTimeout \/ Retired \/ Probe \/ Report
      BY <3>5 DEF Slot, SlotTimeout, Retired, Probe, Report
    <3>6. QED BY <2>4, <3>1, <3>2, <3>3, <3>4, <3>5 DEF LoopNext, SetupNext
  <2>5. ASSUME NEW u \in Callers, CallerNext(u) PROVE UNCHANGED linkVars
    BY <2>5 DEF CallerNext, Call, CallLock, CallSend, CallReturn
  <2>6. CASE CloseNext
    BY <2>6 DEF CloseNext, Close, CloseSlot, CloseBusy, CloseClosed, CloseAbandoned, LinkNext
  <2>7. QED BY <2>1, <2>2, <2>3, <2>4, <2>5, <2>6 DEF Next
<1>2. QED BY <1>1, PTL DEF Spec
=============================================================================

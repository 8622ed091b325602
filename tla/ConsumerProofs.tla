--------------------------- MODULE ConsumerProofs ---------------------------
(***************************************************************************)
(* Consumer for every number of applications, handlers, loops, channels    *)
(* and connections: its types; that no two synchronous calls are ever      *)
(* outstanding on one live channel; that no open channel is left without   *)
(* an owner; that no consumer tag is used while the broker still has it,   *)
(* and none is left behind by a loop that has ended; that nothing is       *)
(* handed out once Close has seen the loop stop, and that a graceful Close *)
(* leaves no handler at work.                                              *)
(***************************************************************************)
EXTENDS Consumer, TLAPS, FiniteSetTheorems

Holding == {"consume", "spentClose", "retire", "cancelCall"}
Subscribed == {"forward", "offer", "cancel", "cancelSlot", "cancelCall"}
OnChannel == Subscribed \cup {"lock", "consume", "clear", "spent", "spentClose"}
Setting == {"setup", "install", "drop"}
Cancelling == {"cancel", "cancelSlot", "cancelCall"}

(* TypeOK, a group of variables at a time. *)
TWire == LinkTypeOK /\ wire \in {"ok", "quiet", "broken"}
TChans ==
    /\ opened \in Chans
    /\ state \in [Chans -> {"none", "open", "failed", "closed"}]
    /\ home \in [Chans -> 0..MaxGen]
    /\ watch \in [Chans -> {"none", "armed", "reporting", "done"}]
TReg == reg \in [Chans -> SUBSET Runs]
TCalls == calls \in [Chans -> SUBSET Procs] /\ rpcMu \in Procs \cup {"free"}
TCon == current \in 0..MaxChan /\ closed \in BOOLEAN /\ chDead \in BOOLEAN
TPc ==
    /\ pc \in [Apps \cup {"loop"} -> LoopPoints \cup AppPoints]
    /\ loop \in LoopPoints /\ \A a \in Apps : pc[a] \in AppPoints
TSub ==
    /\ pending \in (Chans \X Runs) \cup {NoSub}
    /\ sub \in [Apps \cup {"loop"} -> (0..MaxChan) \X (0..MaxRun)]
    /\ old \in 0..MaxChan
TRun ==
    /\ run \in 0..MaxRun /\ cancelled \in BOOLEAN /\ ctxDone \subseteq Runs
    /\ mine \in [Apps -> 0..MaxRun]
    /\ idle \in [Runs -> 0..Concurrency] /\ busy \in [Runs -> 0..Concurrency]
TClose ==
    /\ close \in {"idle", "loops", "drain", "look", "slot", "handshake", "returned"}
    /\ stopped \in BOOLEAN /\ expired \in BOOLEAN
    /\ stranded \subseteq Chans

(* Who holds rpcMu is where the code holds it. *)
LockHeld ==
    /\ rpcMu = "loop" <=> loop \in Holding
    /\ rpcMu = "close" <=> close = "handshake"
    /\ \A a \in Apps : rpcMu = a <=> pc[a] = "cancelCall"

(* A call is outstanding only where its process waits for it; Close's may    *)
(* outlive the wait, on a connection that has fallen silent.                 *)
CallsMatch ==
    /\ \A c \in Chans : "loop" \in calls[c] =>
         \/ loop \in {"consume", "spentClose", "cancelCall"} /\ c = sub["loop"][1]
         \/ loop \in {"setup", "drop"} /\ c = fresh
         \/ loop = "retire" /\ c = old
    /\ \A c \in Chans : \A a \in Apps : a \in calls[c] => pc[a] = "cancelCall" /\ c = sub[a][1]
    /\ \A c \in Chans : "close" \in calls[c] =>
         /\ close \in {"handshake", "returned"} /\ stopped /\ c = current
         /\ close = "returned" /\ Alive(c) => wire = "quiet"
    /\ close = "handshake" => "close" \in calls[current]

(* Where the loop is decides which channel it is dealing with: the current   *)
(* one, from taking it up until it gives it up, or none.                     *)
LoopChannel ==
    /\ loop \in OnChannel => sub["loop"][1] \in Chans
    /\ loop \in OnChannel \ {"spent", "spentClose"} => sub["loop"][1] = current
    /\ loop \notin OnChannel \cup {"exit"} => sub["loop"][1] = 0
    /\ loop # "none" => run \in Runs /\ sub["loop"][2] = TagOf(run)
    /\ loop \in {"slot", "retire"} => old \in Chans /\ old < opened
    /\ loop \in {"slot", "retire", "probe", "report"} => current = opened
    /\ loop = "drop" => closed

(* Channels are numbered as they are opened, on the connection of the day,   *)
(* and what the setup in progress has opened is in nobody else's hands.      *)
Numbered ==
    /\ \A c \in Chans : home[c] <= gen /\ (state[c] = "none" <=> c > opened)
    /\ \A c \in Chans : c > opened => reg[c] = {}
    /\ current <= opened /\ pending[1] <= opened /\ \A a \in Apps : sub[a][1] <= opened
    /\ loop \in Setting =>
         current < opened /\ pending[1] < opened /\ \A a \in Apps : sub[a][1] < opened

(* Close comes after the loop it waits for, and no loop is started then. *)
ClosingLast ==
    /\ closed <=> close # "idle"
    /\ stopped => closed /\ ~Running
    /\ close \in {"slot", "handshake"} => stopped /\ current \in Chans

(* Each caller of Consume has handlers of its own. *)
Crews ==
    /\ \A a \in Apps : mine[a] <= run /\ (pc[a] \in {"add", "serving"} <=> mine[a] # 0)
    /\ \A a, b \in Apps : mine[a] = mine[b] /\ mine[a] # 0 => a = b
    /\ \A r \in Runs : r > run => idle[r] = 0 /\ busy[r] = 0
    /\ \A a \in Apps : pc[a] = "add" => idle[mine[a]] = 0 /\ busy[mine[a]] = 0
    /\ \A r \in Runs : idle[r] + busy[r] <= Concurrency

(* A subscription that could not be cancelled is on a channel whose          *)
(* connection can only die: nothing is consumed and no channel is opened     *)
(* before it has.                                                            *)
Doomed(s) ==
    Alive(s[1]) => wire = "broken" /\ loop \notin Subscribed \cup Setting \cup {"slot", "retire"}

Leftovers ==
    /\ Doomed(pending)
    /\ \A a \in Apps : pc[a] \in Cancelling =>
         sub[a] # NoSub /\ sub[a] \in (Chans \X Runs) /\ Doomed(sub[a])
    /\ ~closed => \A a \in Apps : pc[a] \in Cancelling /\ Alive(sub[a][1]) => pending = sub[a]

(* What is registered on a live channel is what the loop consumes, or what   *)
(* is on record; and the loop's own tag is nowhere else.                     *)
Registered ==
    /\ ~closed => \A c \in Chans, t \in Runs : Alive(c) /\ t \in reg[c] =>
         pending = <<c, t>> \/ (loop \in Subscribed /\ sub["loop"] = <<c, t>>)
    /\ loop \notin {"none", "exit", "done"} => \A c \in Chans :
         Alive(c) /\ sub["loop"][2] \in reg[c] => loop \in Subscribed /\ c = sub["loop"][1]

IInv ==
    /\ TWire /\ TChans /\ TReg /\ TCalls /\ TCon /\ TPc /\ TSub /\ TRun /\ TClose
    /\ LoopChannel /\ LockHeld /\ CallsMatch
    /\ Numbered
    /\ ClosingLast
    /\ Crews /\ Drained
    /\ Leftovers /\ Registered
    /\ NoLeakedChannel

-----------------------------------------------------------------------------
(* The loop's steps, a stage at a time. *)
LoopConsumes == \/ LoopTop \/ ConsumeSend \/ Consumed \/ ConsumeFails
                \/ Clear \/ SpentSlot \/ SpentClosed
LoopForwards == \/ Receive \/ Offer \/ ForwardCancelled \/ DeliveriesEnd \/ Exit
                \/ WaitSignal \/ WaitEnds \/ WaitDead \/ WaitTimer \/ Check
LoopSetsUp == \/ OpenFails \/ Open \/ SetupReply \/ Install \/ Dropped
              \/ Slot \/ Retired \/ Probe \/ Report

(* subscribed = ch, and subscribed = nil. *)
LEMMA Subscribe1 ==
    ASSUME TSub, NEW c \in 0..MaxChan, sub' = [sub EXCEPT !["loop"][1] = c]
    PROVE  /\ sub' \in [Apps \cup {"loop"} -> (0..MaxChan) \X (0..MaxRun)]
           /\ sub'["loop"] = <<c, sub["loop"][2]>>
           /\ sub'["loop"][1] = c /\ sub'["loop"][2] = sub["loop"][2]
           /\ \A a \in Apps : sub'[a] = sub[a]
  BY ConsumerAssumption DEF TSub

LEMMA NoneSubscribed ==
    ASSUME TSub, NoChannel
    PROVE  /\ sub' \in [Apps \cup {"loop"} -> (0..MaxChan) \X (0..MaxRun)]
           /\ sub'["loop"][1] = 0 /\ sub'["loop"][2] = sub["loop"][2]
           /\ \A a \in Apps : sub'[a] = sub[a]
<1>1. 0 \in 0..MaxChan BY ConsumerAssumption
<1>2. QED BY <1>1, Subscribe1 DEF NoChannel

(* A handler that is still to be counted, or that serves, belongs to a run.  *)
LEMMA CrewRun ==
    ASSUME TRun, Crews, NEW a \in Apps, pc[a] \in {"add", "serving"}
    PROVE  mine[a] \in Runs
<1>1. mine[a] # 0 BY DEF Crews
<1>2. mine[a] \in 0..MaxRun BY DEF TRun
<1>3. MaxRun \in Nat BY ConsumerAssumption
<1>4. QED BY <1>1, <1>2, <1>3 DEF Runs

(* The answer to a channel.close, or its failure: the channel is no longer   *)
(* open, or calls on it fail; nothing else is affected.                      *)
LEMMA Replied ==
    ASSUME TChans, TReg, TCalls, NEW p \in Procs, NEW d \in Chans, CloseReply(p, d),
           UNCHANGED <<linkVars, opened, home, watch>>
    PROVE  /\ TChans' /\ TReg'
           /\ calls' \in [Chans -> SUBSET Procs]
           /\ \A c \in Chans : calls'[c] = IF c = d THEN calls[c] \ {p} ELSE calls[c]
           /\ \A c \in Chans : reg'[c] \subseteq reg[c]
                /\ (state'[c] = "none" <=> state[c] = "none")
           /\ \A c \in 0..MaxChan : Alive(c)' => Alive(c) /\ (c = d => wire = "broken")
<1> USE ConsumerAssumption DEF TChans, TReg, TCalls, Chans, linkVars
<1>1. calls' = [calls EXCEPT ![d] = calls[d] \ {p}]
  BY DEF CloseReply, Answered, Failed, Return
<1>2. CASE Answered(p, d) /\ reg' = [reg EXCEPT ![d] = {}]
  /\ state' = [state EXCEPT ![d] = "closed"]
  <2>1. state[d] = "open" BY <1>2 DEF Answered, Alive
  <2>2. \A c \in Chans : c # d => (Alive(c)' <=> Alive(c)) BY <1>2 DEF Alive
  <2>3. ~Alive(d)' BY <1>2 DEF Alive
  <2>4. \A c \in 0..MaxChan : Alive(c)' => Alive(c) /\ (c = d => wire = "broken")
    BY <2>2, <2>3 DEF Alive
  <2>5. QED BY <1>1, <1>2, <2>1, <2>4
<1>3. CASE Failed(p, d) /\ UNCHANGED <<state, reg>>
  <2>1. \A c : Alive(c)' <=> Alive(c) BY <1>3 DEF Alive
  <2>2. Alive(d) => wire = "broken" BY <1>3 DEF Failed
  <2>3. QED BY <1>1, <1>3, <2>1, <2>2
<1>4. QED BY <1>2, <1>3 DEF CloseReply

(* A reconnect makes no channel alive, and a lost connection takes the       *)
(* broker's registrations along.                                             *)
LEMMA ConnectionKills ==
    ASSUME TWire, TChans, TReg, Numbered, Connection
    PROVE  /\ TWire' /\ TReg' /\ gen <= gen'
           /\ \A c \in 0..MaxChan : Alive(c)' => Alive(c) /\ wire' = wire /\ reg'[c] = reg[c]
           /\ \A c \in Chans : reg'[c] \subseteq reg[c]
<1> USE ConsumerAssumption, LinkAssumption DEF TWire, LinkTypeOK, TChans, TReg, Chans, Connection
<1>1. gen' \in 1..MaxGen /\ gen <= gen' /\ up' \in BOOLEAN /\ (gen' = gen /\ up' => up)
  <2>1. CASE Lose
    <3>1. gen' = gen /\ ~up' /\ up' \in BOOLEAN BY <2>1 DEF Lose
    <3>2. gen' \in 1..MaxGen /\ gen <= gen' BY <3>1
    <3>3. QED BY <3>1, <3>2
  <2>2. CASE Reconnect BY <2>2 DEF Reconnect
  <2>3. CASE Signal BY <2>3 DEF Signal
  <2>4. CASE Finish BY <2>4 DEF Finish
  <2>5. QED BY <2>1, <2>2, <2>3, <2>4 DEF LinkEnv
<1>2. over' \in BOOLEAN /\ owed' \in BOOLEAN /\ listed' \subseteq Subs
  /\ signalled' \subseteq Subs
  BY DEF LinkEnv, Lose, Reconnect, Signal, Finish
<1>3. TWire' BY <1>1, <1>2
<1>4. TReg' /\ \A c \in Chans : reg'[c] \subseteq reg[c] OBVIOUS
<1>5. ASSUME NEW c \in Chans, Alive(c)' PROVE Alive(c) /\ wire' = wire /\ reg' = reg
  <2>1. state[c] = "open" /\ home[c] = gen' /\ up' BY <1>5 DEF Alive, chans
  <2>2. home[c] <= gen BY DEF Numbered
  <2>3. gen' = gen BY <1>1, <2>1, <2>2
  <2>4. QED BY <1>1, <2>1, <2>3 DEF Alive
<1>6. \A c : Alive(c)' => c # 0 BY DEF Alive
<1>7. ASSUME NEW c \in 0..MaxChan, Alive(c)' PROVE Alive(c) /\ wire' = wire /\ reg'[c] = reg[c]
  <2>1. c \in Chans BY <1>6, <1>7
  <2>2. QED BY <1>5, <1>7, <2>1
<1>8. QED BY <1>1, <1>3, <1>4, <1>7

(* The connection is lost, replaced, or falls silent or broken: what is alive*)
(* can only become fewer.                                                    *)
LEMMA EnvIInv ==
    ASSUME IInv, Connection \/ WireFails
    PROVE  IInv'
<1> USE ConsumerAssumption, LinkAssumption DEF IInv, env, linkVars, chans, con, rpcs, local,
  loopCtx, users, work, closing, loop, fresh
<1>1. CASE Connection
  <2>1. TWire' /\ TReg' /\ gen <= gen'
        /\ \A c \in 0..MaxChan : Alive(c)' => Alive(c) /\ wire' = wire /\ reg'[c] = reg[c]
    BY <1>1, ConnectionKills
  <2>2. \A c \in Chans : reg'[c] \subseteq reg[c]
    BY <1>1, ConnectionKills
  <2>3. gen \in Nat /\ gen' \in Nat
    BY <2>1 DEF TWire, LinkTypeOK
  <2>4. UNCHANGED <<chans, rpcs, con, chDead, local, users, stranded>>
    BY <1>1 DEF Connection
  <2>5. \A c \in Chans : Alive(c)' => Alive(c) /\ wire' = wire /\ reg'[c] = reg[c]
    BY <2>1 DEF Chans
  <2>6. TChans' /\ TCalls' /\ TCon' /\ TPc' /\ TSub'
    BY <1>1, <2>1, <2>2, <2>3, <2>4, <2>5 DEF TChans, TCalls, TCon, TPc, TSub, Connection
  <2>7. TRun' /\ TClose' /\ LoopChannel' /\ LockHeld' /\ ClosingLast'
    BY <1>1, <2>1, <2>2, <2>3, <2>4, <2>5 DEF TRun, TClose, LoopChannel, LockHeld, ClosingLast,
      Running, Connection
  <2>8. Crews' /\ Drained'
    BY <1>1, <2>1, <2>2, <2>3, <2>4, <2>5 DEF Crews, Drained, Connection
  <2>9. TWire'
    BY <2>1
  <2>10. TReg'
    BY <2>1
  <2>11. CallsMatch'
    BY <2>1, <2>2, <2>3, <2>4, <2>5 DEF TPc, TCalls, CallsMatch, LockHeld, Holding, LoopChannel,
      OnChannel, Subscribed, ClosingLast, Running, TSub, Procs
  <2>12. Numbered'
    BY <2>1, <2>2, <2>3, <2>4, <2>5 DEF TPc, Numbered, TChans, TReg, TSub, TCon, Setting, Chans
  <2>13. Leftovers'
    BY <2>1, <2>2, <2>3, <2>4, <2>5 DEF TPc, Leftovers, Doomed, TSub, NoSub, Chans, Runs,
      Subscribed, Setting, Cancelling
  <2>14. Registered'
    BY <2>1, <2>2, <2>3, <2>4, <2>5 DEF TPc, Registered, Subscribed, TSub, TReg, LoopChannel,
      OnChannel
  <2>15. NoLeakedChannel'
    BY <2>1, <2>2, <2>3, <2>4, <2>5 DEF TPc, NoLeakedChannel, LoopChannel, OnChannel,
      Subscribed, ClosingLast, CallsMatch, TSub, TCalls
  <2> QED BY <2>6, <2>7, <2>8, <2>9, <2>10, <2>11, <2>12, <2>13, <2>14, <2>15 DEF IInv
<1>2. CASE WireFails
  <2>1. \A c : Alive(c)' <=> Alive(c)
    BY <1>2 DEF Alive, WireFails
  <2>2. TChans' /\ TReg' /\ TCalls' /\ TCon' /\ TPc'
    BY <1>2, <2>1 DEF TChans, TReg, TCalls, TCon, TPc, WireFails
  <2>3. TSub' /\ TRun' /\ TClose' /\ LoopChannel' /\ LockHeld'
    BY <1>2, <2>1 DEF TSub, TRun, TClose, LoopChannel, LockHeld, WireFails
  <2>4. Numbered' /\ ClosingLast' /\ Crews' /\ Drained' /\ Registered'
    BY <1>2, <2>1 DEF Numbered, ClosingLast, Crews, Drained, Registered, Running, WireFails
  <2>5. TWire'
    BY <1>2, <2>1 DEF TWire, LinkTypeOK, WireFails
  <2>6. CallsMatch'
    BY <1>2, <2>1 DEF TPc, TCalls, CallsMatch, LockHeld, Holding, LoopChannel, OnChannel,
      Subscribed, ClosingLast, Running, TSub, Procs, WireFails
  <2>7. Leftovers'
    BY <1>2, <2>1 DEF TPc, Leftovers, Doomed, TSub, NoSub, Chans, Runs, Subscribed, Setting,
      Cancelling, WireFails
  <2>8. NoLeakedChannel'
    BY <1>2, <2>1 DEF TPc, NoLeakedChannel, LoopChannel, OnChannel, Subscribed, ClosingLast,
      CallsMatch, TSub, TCalls, WireFails
  <2> QED BY <2>2, <2>3, <2>4, <2>5, <2>6, <2>7, <2>8 DEF IInv
<1> QED BY <1>1, <1>2 DEF Connection

(* What the broker does to one channel, and the goroutine that watches it.   *)
LEMMA ChanIInv ==
    ASSUME IInv, NEW d \in Chans, ChanNext(d)
    PROVE  IInv'
<1> USE ConsumerAssumption, LinkAssumption DEF IInv, env, linkVars, chans, con, rpcs, local,
  loopCtx, users, work, closing, loop, fresh
<1>1. CASE Exception(d)
  <2>1. \A c \in Chans : Alive(c)' => Alive(c) /\ c # d
    BY <1>1 DEF Exception, Alive, TChans
  <2>2. \A c \in 0..MaxChan : Alive(c)' => Alive(c) /\ c # d
    BY <1>1 DEF Exception, Alive, TChans, Chans
  <2>3. \A c \in Chans : reg'[c] \subseteq reg[c] /\ (state'[c] = "none" <=> state[c] = "none")
    BY <1>1 DEF Exception, Alive, TChans, TReg
  <2>4. TWire' /\ TCalls' /\ TCon' /\ TPc' /\ TSub'
    BY <1>1, <2>1, <2>2, <2>3 DEF TWire, TCalls, TCon, TPc, TSub, LinkTypeOK, Exception
  <2>5. TRun' /\ TClose' /\ LoopChannel' /\ LockHeld' /\ ClosingLast'
    BY <1>1, <2>1, <2>2, <2>3 DEF TRun, TClose, LoopChannel, LockHeld, ClosingLast, Running,
      Exception
  <2>6. Crews' /\ Drained'
    BY <1>1, <2>1, <2>2, <2>3 DEF Crews, Drained, Exception
  <2>7. TChans'
    BY <1>1, <2>1, <2>2, <2>3 DEF TChans, Chans, Exception
  <2>8. TReg'
    BY <1>1, <2>1, <2>2, <2>3 DEF TReg, Exception
  <2>9. CallsMatch'
    BY <1>1, <2>1, <2>2, <2>3 DEF TPc, TCalls, CallsMatch, LockHeld, Holding, LoopChannel,
      OnChannel, Subscribed, ClosingLast, Running, TSub, Procs, Exception
  <2>10. Numbered'
    BY <1>1, <2>1, <2>2, <2>3 DEF TPc, Numbered, TChans, TReg, TSub, TCon, Setting, Chans,
      Exception
  <2>11. Leftovers'
    BY <1>1, <2>1, <2>2, <2>3 DEF TPc, Leftovers, Doomed, TSub, NoSub, Chans, Runs, Subscribed,
      Setting, Cancelling, Exception
  <2>12. Registered'
    BY <1>1, <2>1, <2>2, <2>3 DEF TPc, Registered, Subscribed, TSub, TReg, LoopChannel,
      OnChannel, Exception
  <2>13. NoLeakedChannel'
    BY <1>1, <2>1, <2>2, <2>3 DEF TPc, NoLeakedChannel, LoopChannel, OnChannel, Subscribed,
      ClosingLast, CallsMatch, TSub, TCalls, Exception
  <2> QED BY <2>4, <2>5, <2>6, <2>7, <2>8, <2>9, <2>10, <2>11, <2>12, <2>13 DEF IInv
<1>2. CASE BrokerCancels(d)
  <2>1. \A c : Alive(c)' <=> Alive(c)
    BY <1>2 DEF Alive, BrokerCancels
  <2>2. TWire' /\ TChans' /\ TCalls' /\ TCon' /\ TPc'
    BY <1>2, <2>1 DEF TWire, TChans, TCalls, TCon, TPc, LinkTypeOK, BrokerCancels
  <2>3. TSub' /\ TRun' /\ TClose' /\ LoopChannel' /\ LockHeld'
    BY <1>2, <2>1 DEF TSub, TRun, TClose, LoopChannel, LockHeld, BrokerCancels
  <2>4. CallsMatch' /\ ClosingLast' /\ Crews' /\ Drained' /\ Leftovers'
    BY <1>2, <2>1 DEF CallsMatch, ClosingLast, Crews, Drained, Leftovers, Running, Doomed,
      BrokerCancels
  <2>5. NoLeakedChannel'
    BY <1>2, <2>1 DEF NoLeakedChannel, BrokerCancels
  <2>6. TReg'
    BY <1>2, <2>1 DEF TReg, BrokerCancels
  <2>7. Numbered'
    BY <1>2, <2>1 DEF TPc, Numbered, TChans, TReg, TSub, TCon, Setting, Chans, BrokerCancels
  <2>8. Registered'
    BY <1>2, <2>1 DEF TPc, Registered, Subscribed, TSub, TReg, LoopChannel, OnChannel,
      BrokerCancels
  <2> QED BY <2>2, <2>3, <2>4, <2>5, <2>6, <2>7, <2>8 DEF IInv
<1>3. CASE WatchEnds(d)
  <2>1. \A c : Alive(c)' <=> Alive(c)
    BY <1>3 DEF Alive, WatchEnds
  <2>2. TWire' /\ TReg' /\ TCalls' /\ TCon' /\ TPc'
    BY <1>3, <2>1 DEF TWire, TReg, TCalls, TCon, TPc, LinkTypeOK, WatchEnds
  <2>3. TSub' /\ TRun' /\ TClose' /\ LoopChannel' /\ LockHeld'
    BY <1>3, <2>1 DEF TSub, TRun, TClose, LoopChannel, LockHeld, WatchEnds
  <2>4. CallsMatch' /\ Numbered' /\ ClosingLast' /\ Crews' /\ Drained'
    BY <1>3, <2>1 DEF CallsMatch, Numbered, ClosingLast, Crews, Drained, Running, WatchEnds
  <2>5. Leftovers' /\ Registered' /\ NoLeakedChannel'
    BY <1>3, <2>1 DEF Leftovers, Registered, NoLeakedChannel, Doomed, WatchEnds
  <2>6. TChans'
    BY <1>3, <2>1 DEF TChans, Chans, WatchEnds
  <2> QED BY <2>2, <2>3, <2>4, <2>5, <2>6 DEF IInv
<1>4. CASE WatchSees(d)
  <2>1. \A c : Alive(c)' <=> Alive(c)
    BY <1>4 DEF Alive, WatchSees
  <2>2. TWire' /\ TReg' /\ TCalls' /\ TCon' /\ TPc'
    BY <1>4, <2>1 DEF TWire, TReg, TCalls, TCon, TPc, LinkTypeOK, WatchSees
  <2>3. TSub' /\ TRun' /\ TClose' /\ LoopChannel' /\ LockHeld'
    BY <1>4, <2>1 DEF TSub, TRun, TClose, LoopChannel, LockHeld, WatchSees
  <2>4. CallsMatch' /\ Numbered' /\ ClosingLast' /\ Crews' /\ Drained'
    BY <1>4, <2>1 DEF CallsMatch, Numbered, ClosingLast, Crews, Drained, Running, WatchSees
  <2>5. Leftovers' /\ Registered' /\ NoLeakedChannel'
    BY <1>4, <2>1 DEF Leftovers, Registered, NoLeakedChannel, Doomed, WatchSees
  <2>6. TChans'
    BY <1>4, <2>1 DEF TChans, Chans, WatchSees
  <2> QED BY <2>2, <2>3, <2>4, <2>5, <2>6 DEF IInv
<1>5. CASE WatchReports(d)
  <2>1. \A c : Alive(c)' <=> Alive(c)
    BY <1>5 DEF Alive, WatchReports
  <2>2. TWire' /\ TReg' /\ TCalls' /\ TPc' /\ TSub'
    BY <1>5, <2>1 DEF TWire, TReg, TCalls, TPc, TSub, LinkTypeOK, WatchReports
  <2>3. TRun' /\ TClose' /\ LoopChannel' /\ LockHeld' /\ CallsMatch'
    BY <1>5, <2>1 DEF TRun, TClose, LoopChannel, LockHeld, CallsMatch, WatchReports
  <2>4. Numbered' /\ ClosingLast' /\ Crews' /\ Drained' /\ Leftovers'
    BY <1>5, <2>1 DEF Numbered, ClosingLast, Crews, Drained, Leftovers, Running, Doomed,
      WatchReports
  <2>5. Registered' /\ NoLeakedChannel'
    BY <1>5, <2>1 DEF Registered, NoLeakedChannel, WatchReports
  <2>6. TChans'
    BY <1>5, <2>1 DEF TChans, Chans, WatchReports
  <2>7. TCon'
    BY <1>5, <2>1 DEF TCon, TChans, Chans, WatchReports
  <2> QED BY <2>2, <2>3, <2>4, <2>5, <2>6, <2>7 DEF IInv
<1> QED BY <1>1, <1>2, <1>3, <1>4, <1>5 DEF ChanNext

(* consumeLoop up to a subscription, and the closing of a spent channel.     *)
LEMMA ConsumeIInv ==
    ASSUME IInv, LoopConsumes
    PROVE  IInv'
<1> USE ConsumerAssumption, LinkAssumption DEF IInv, env, linkVars, chans, con, rpcs, local,
  loopCtx, users, work, closing, loop, fresh
<1>1. CASE LoopTop
  <2>1. \A c : Alive(c)' <=> Alive(c)
    BY <1>1 DEF Alive, LoopTop
  <2>2. \/ loop' = "exit" /\ sub' = sub
        \/ loop' = "wait" /\ sub' = sub /\ current = 0
        \/ loop' = "lock" /\ sub' = [sub EXCEPT !["loop"][1] = current] /\ current # 0
    BY <1>1 DEF LoopTop, Go, TPc
  <2>3. \A a \in Apps : pc'[a] = pc[a]
    BY <1>1 DEF LoopTop, Go, TPc
  <2>4. /\ sub' \in [Apps \cup {"loop"} -> (0..MaxChan) \X (0..MaxRun)]
        /\ sub'["loop"][2] = sub["loop"][2] /\ \A a \in Apps : sub'[a] = sub[a]
        /\ loop' = "lock" => sub'["loop"][1] = current
    BY <2>2, Subscribe1 DEF TSub, TCon
  <2>5. loop' # "lock" => sub'["loop"][1] = sub["loop"][1]
    BY <2>2
  <2>6. TWire' /\ TChans' /\ TReg' /\ TCalls' /\ TCon'
    BY <1>1, <2>1, <2>2, <2>3, <2>4, <2>5 DEF TWire, TChans, TReg, TCalls, TCon, LinkTypeOK,
      LoopTop
  <2>7. TRun' /\ TClose' /\ Drained'
    BY <1>1, <2>1, <2>2, <2>3, <2>4, <2>5 DEF TRun, TClose, Drained, LoopTop
  <2>8. TPc'
    BY <1>1, <2>1, <2>2, <2>3, <2>4, <2>5 DEF TPc, LoopPoints, AppPoints, LoopTop, Go, Done
  <2>9. TSub'
    BY <1>1, <2>4 DEF LoopTop, TSub
  <2>10. LoopChannel'
    <3>1. UNCHANGED <<current, run, old, opened, closed>> /\ loop = "top"
      BY <1>1 DEF LoopTop
    <3>2. sub["loop"][1] = 0 /\ run \in Runs /\ sub["loop"][2] = TagOf(run)
      BY <3>1 DEF LoopChannel, OnChannel, Subscribed
    <3>3. current \in Chans \cup {0} BY DEF TCon, Chans
    <3>4. QED BY <2>1, <2>2, <2>3, <2>4, <2>5, <3>1, <3>2, <3>3 DEF LoopChannel, OnChannel,
      Subscribed
  <2>11. LockHeld'
    BY <1>1, <2>1, <2>2, <2>3, <2>4, <2>5 DEF TPc, LockHeld, Holding, TCalls, LoopTop, Go, Done
  <2>12. CallsMatch'
    BY <1>1, <2>1, <2>2, <2>3, <2>4, <2>5 DEF TPc, TCalls, CallsMatch, LockHeld, Holding,
      LoopChannel, OnChannel, Subscribed, ClosingLast, Running, TSub, Procs, LoopTop, Go, Done
  <2>13. Numbered'
    BY <1>1, <2>1, <2>2, <2>3, <2>4, <2>5 DEF TPc, Numbered, TChans, TReg, TSub, TCon, Setting,
      Chans, LoopTop, Go, Done
  <2>14. ClosingLast'
    BY <1>1, <2>1, <2>2, <2>3, <2>4, <2>5 DEF TPc, ClosingLast, TCon, Running, LoopChannel,
      OnChannel, Subscribed, LoopTop, Go, Done
  <2>15. Crews'
    BY SMTT(30), <1>1, <2>1, <2>2, <2>3, <2>4, <2>5 DEF TPc, Crews, TRun, Runs, LoopChannel,
      LoopTop, Go, Done
  <2>16. Leftovers'
    BY <1>1, <2>1, <2>2, <2>3, <2>4, <2>5 DEF TPc, Leftovers, Doomed, TSub, NoSub, Chans, Runs,
      Subscribed, Setting, Cancelling, LoopTop, Go, Done
  <2>17. Registered'
    BY <1>1, <2>1, <2>2, <2>3, <2>4, <2>5 DEF TPc, Registered, Subscribed, TSub, TReg,
      LoopChannel, OnChannel, LoopTop, Go, Done
  <2>18. NoLeakedChannel'
    BY <1>1, <2>1, <2>2, <2>3, <2>4, <2>5 DEF TPc, NoLeakedChannel, LoopChannel, OnChannel,
      Subscribed, ClosingLast, CallsMatch, TSub, TCalls, LoopTop, Go, Done
  <2> QED BY <2>6, <2>7, <2>8, <2>9, <2>10, <2>11, <2>12, <2>13, <2>14, <2>15, <2>16, <2>17,
      <2>18 DEF IInv
<1>2. CASE ConsumeSend
  <2>1. \A c : Alive(c)' <=> Alive(c)
    BY <1>2 DEF Alive, ConsumeSend
  <2>2. TWire' /\ TChans' /\ TReg' /\ TCon' /\ TSub'
    BY <1>2, <2>1 DEF TWire, TChans, TReg, TCon, TSub, LinkTypeOK, ConsumeSend
  <2>3. TRun' /\ TClose' /\ Drained'
    BY <1>2, <2>1 DEF TRun, TClose, Drained, ConsumeSend
  <2>4. TCalls'
    BY <1>2, <2>1 DEF TCalls, Procs, ConsumeSend, Go, Send
  <2>5. TPc'
    BY <1>2, <2>1 DEF TPc, LoopPoints, AppPoints, ConsumeSend, Go, Send
  <2>6. LoopChannel'
    BY <1>2, <2>1 DEF TPc, TSub, LoopChannel, TCon, TChans, TRun, Chans, Numbered, Setting,
      OnChannel, Subscribed, ConsumeSend, Go, Send
  <2>7. LockHeld'
    BY <1>2, <2>1 DEF TPc, LockHeld, Holding, TCalls, ConsumeSend, Go, Send
  <2>8. CallsMatch'
    BY <1>2, <2>1 DEF TPc, TCalls, CallsMatch, LockHeld, Holding, LoopChannel, OnChannel,
      Subscribed, ClosingLast, Running, TSub, Procs, ConsumeSend, Go, Send
  <2>9. Numbered'
    BY <1>2, <2>1 DEF TPc, Numbered, TChans, TReg, TSub, TCon, Setting, Chans, ConsumeSend, Go,
      Send
  <2>10. ClosingLast'
    BY <1>2, <2>1 DEF TPc, ClosingLast, TCon, Running, LoopChannel, OnChannel, Subscribed,
      ConsumeSend, Go, Send
  <2>11. Crews'
    BY <1>2, <2>1 DEF TPc, Crews, TRun, Runs, LoopChannel, ConsumeSend, Go, Send
  <2>12. Leftovers'
    BY <1>2, <2>1 DEF TPc, Leftovers, Doomed, TSub, NoSub, Chans, Runs, Subscribed, Setting,
      Cancelling, ConsumeSend, Go, Send
  <2>13. Registered'
    BY <1>2, <2>1 DEF TPc, Registered, Subscribed, TSub, TReg, LoopChannel, OnChannel,
      ConsumeSend, Go, Send
  <2>14. NoLeakedChannel'
    BY <1>2, <2>1 DEF TPc, NoLeakedChannel, LoopChannel, OnChannel, Subscribed, ClosingLast,
      CallsMatch, TSub, TCalls, ConsumeSend, Go, Send
  <2> QED BY <2>2, <2>3, <2>4, <2>5, <2>6, <2>7, <2>8, <2>9, <2>10, <2>11, <2>12, <2>13, <2>14 DEF
    IInv
<1>3. CASE Consumed
  <2>1. \A c : Alive(c)' <=> Alive(c)
    BY <1>3 DEF Alive, Consumed
  <2>2. sub["loop"][1] \in Chans /\ sub["loop"][1] <= opened
    BY <1>3 DEF Consumed, LoopChannel, OnChannel, Subscribed, Numbered
  <2>3. sub["loop"][2] \in Runs
    BY <1>3 DEF Consumed, LoopChannel, TagOf, Runs
  <2>4. TWire' /\ TChans' /\ TCon' /\ TSub' /\ TRun'
    BY <1>3, <2>1, <2>2, <2>3 DEF TWire, TChans, TCon, TSub, TRun, LinkTypeOK, Consumed
  <2>5. TClose' /\ Drained'
    BY <1>3, <2>1, <2>2, <2>3 DEF TClose, Drained, Consumed
  <2>6. TReg'
    BY <1>3, <2>1, <2>2, <2>3 DEF TReg, Consumed, Go, Answered, Return
  <2>7. TCalls'
    BY <1>3, <2>1, <2>2, <2>3 DEF TCalls, Procs, Consumed, Go, Answered, Return
  <2>8. TPc'
    BY <1>3, <2>1, <2>2, <2>3 DEF TPc, LoopPoints, AppPoints, Consumed, Go, Answered, Return
  <2>9. LoopChannel'
    BY <1>3, <2>1, <2>2, <2>3 DEF TPc, TSub, LoopChannel, TCon, TChans, TRun, Chans, Numbered,
      Setting, OnChannel, Subscribed, Consumed, Go, Answered, Return
  <2>10. LockHeld'
    BY <1>3, <2>1, <2>2, <2>3 DEF TPc, LockHeld, Holding, TCalls, Consumed, Go, Answered, Return
  <2>11. CallsMatch'
    BY <1>3, <2>1, <2>2, <2>3 DEF TPc, TCalls, CallsMatch, LockHeld, Holding, LoopChannel,
      OnChannel, Subscribed, ClosingLast, Running, TSub, Procs, Consumed, Go, Answered, Return
  <2>12. Numbered'
    BY <1>3, <2>1, <2>2, <2>3 DEF TPc, Numbered, TChans, TReg, TSub, TCon, Setting, Chans,
      Consumed, Go, Answered, Return
  <2>13. ClosingLast'
    BY <1>3, <2>1, <2>2, <2>3 DEF TPc, ClosingLast, TCon, Running, LoopChannel, OnChannel,
      Subscribed, Consumed, Go, Answered, Return
  <2>14. Crews'
    BY <1>3, <2>1, <2>2, <2>3 DEF TPc, Crews, TRun, Runs, LoopChannel, Consumed, Go, Answered,
      Return
  <2>15. Leftovers'
    BY <1>3, <2>1, <2>2, <2>3 DEF TPc, Leftovers, Doomed, TSub, NoSub, Chans, Runs, Subscribed,
      Setting, Cancelling, Consumed, Go, Answered, Return
  <2>16. Registered'
    BY <1>3, <2>1, <2>2, <2>3 DEF TPc, Registered, Subscribed, TSub, TReg, LoopChannel,
      OnChannel, Consumed, Go, Answered, Return
  <2>17. NoLeakedChannel'
    BY <1>3, <2>1, <2>2, <2>3 DEF TPc, NoLeakedChannel, LoopChannel, OnChannel, Subscribed,
      ClosingLast, CallsMatch, TSub, TCalls, Consumed, Go, Answered, Return
  <2> QED BY <2>4, <2>5, <2>6, <2>7, <2>8, <2>9, <2>10, <2>11, <2>12, <2>13, <2>14, <2>15,
      <2>16, <2>17 DEF IInv
<1>4. CASE ConsumeFails
  <2>1. \A c : Alive(c)' <=> Alive(c)
    BY <1>4 DEF Alive, ConsumeFails
  <2>2. TWire' /\ TChans' /\ TReg' /\ TCon' /\ TSub'
    BY <1>4, <2>1 DEF TWire, TChans, TReg, TCon, TSub, LinkTypeOK, ConsumeFails
  <2>3. TRun' /\ TClose' /\ Drained'
    BY <1>4, <2>1 DEF TRun, TClose, Drained, ConsumeFails
  <2>4. TCalls'
    BY <1>4, <2>1 DEF TCalls, Procs, ConsumeFails, Go, Failed, Return
  <2>5. TPc'
    BY <1>4, <2>1 DEF TPc, LoopPoints, AppPoints, ConsumeFails, Go, Failed, Return
  <2>6. LoopChannel'
    BY <1>4, <2>1 DEF TPc, TSub, LoopChannel, TCon, TChans, TRun, Chans, Numbered, Setting,
      OnChannel, Subscribed, ConsumeFails, Go, Failed, Return
  <2>7. LockHeld'
    BY <1>4, <2>1 DEF TPc, LockHeld, Holding, TCalls, ConsumeFails, Go, Failed, Return
  <2>8. CallsMatch'
    BY <1>4, <2>1 DEF TPc, TCalls, CallsMatch, LockHeld, Holding, LoopChannel, OnChannel,
      Subscribed, ClosingLast, Running, TSub, Procs, ConsumeFails, Go, Failed, Return
  <2>9. Numbered'
    BY <1>4, <2>1 DEF TPc, Numbered, TChans, TReg, TSub, TCon, Setting, Chans, ConsumeFails, Go,
      Failed, Return
  <2>10. ClosingLast'
    BY <1>4, <2>1 DEF TPc, ClosingLast, TCon, Running, LoopChannel, OnChannel, Subscribed,
      ConsumeFails, Go, Failed, Return
  <2>11. Crews'
    BY <1>4, <2>1 DEF TPc, Crews, TRun, Runs, LoopChannel, ConsumeFails, Go, Failed, Return
  <2>12. Leftovers'
    BY <1>4, <2>1 DEF TPc, Leftovers, Doomed, TSub, NoSub, Chans, Runs, Subscribed, Setting,
      Cancelling, ConsumeFails, Go, Failed, Return
  <2>13. Registered'
    BY <1>4, <2>1 DEF TPc, Registered, Subscribed, TSub, TReg, LoopChannel, OnChannel,
      ConsumeFails, Go, Failed, Return
  <2>14. NoLeakedChannel'
    BY <1>4, <2>1 DEF TPc, NoLeakedChannel, LoopChannel, OnChannel, Subscribed, ClosingLast,
      CallsMatch, TSub, TCalls, ConsumeFails, Go, Failed, Return
  <2> QED BY <2>2, <2>3, <2>4, <2>5, <2>6, <2>7, <2>8, <2>9, <2>10, <2>11, <2>12, <2>13, <2>14 DEF
    IInv
<1>5. CASE Clear
  <2>1. \A c : Alive(c)' <=> Alive(c)
    BY <1>5 DEF Alive, Clear
  <2>2. TWire' /\ TChans' /\ TReg' /\ TCalls' /\ TSub'
    BY <1>5, <2>1 DEF TWire, TChans, TReg, TCalls, TSub, LinkTypeOK, Clear
  <2>3. TRun' /\ TClose' /\ Drained'
    BY <1>5, <2>1 DEF TRun, TClose, Drained, Clear
  <2>4. TCon'
    BY <1>5, <2>1 DEF TCon, TChans, Chans, Clear, Go
  <2>5. TPc'
    BY <1>5, <2>1 DEF TPc, LoopPoints, AppPoints, Clear, Go
  <2>6. LoopChannel'
    BY <1>5, <2>1 DEF TPc, TSub, LoopChannel, TCon, TChans, TRun, Chans, Numbered, Setting,
      OnChannel, Subscribed, Clear, Go
  <2>7. LockHeld'
    BY <1>5, <2>1 DEF TPc, LockHeld, Holding, TCalls, Clear, Go
  <2>8. CallsMatch'
    BY <1>5, <2>1 DEF TPc, TCalls, CallsMatch, LockHeld, Holding, LoopChannel, OnChannel,
      Subscribed, ClosingLast, Running, TSub, Procs, Clear, Go
  <2>9. Numbered'
    BY <1>5, <2>1 DEF TPc, Numbered, TChans, TReg, TSub, TCon, Setting, Chans, Clear, Go
  <2>10. ClosingLast'
    BY <1>5, <2>1 DEF TPc, ClosingLast, TCon, Running, LoopChannel, OnChannel, Subscribed,
      Clear, Go
  <2>11. Crews'
    BY <1>5, <2>1 DEF TPc, Crews, TRun, Runs, LoopChannel, Clear, Go
  <2>12. Leftovers'
    BY <1>5, <2>1 DEF TPc, Leftovers, Doomed, TSub, NoSub, Chans, Runs, Subscribed, Setting,
      Cancelling, Clear, Go
  <2>13. Registered'
    BY <1>5, <2>1 DEF TPc, Registered, Subscribed, TSub, TReg, LoopChannel, OnChannel, Clear, Go
  <2>14. NoLeakedChannel'
    BY <1>5, <2>1 DEF TPc, NoLeakedChannel, LoopChannel, OnChannel, Subscribed, ClosingLast,
      CallsMatch, TSub, TCalls, Clear, Go
  <2> QED BY <2>2, <2>3, <2>4, <2>5, <2>6, <2>7, <2>8, <2>9, <2>10, <2>11, <2>12, <2>13, <2>14 DEF
    IInv
<1>6. CASE SpentSlot
  <2>1. \A c : Alive(c)' <=> Alive(c)
    BY <1>6 DEF Alive, SpentSlot
  <2>2. TWire' /\ TChans' /\ TReg' /\ TCon' /\ TSub'
    BY <1>6, <2>1 DEF TWire, TChans, TReg, TCon, TSub, LinkTypeOK, SpentSlot
  <2>3. TRun' /\ TClose' /\ Drained'
    BY <1>6, <2>1 DEF TRun, TClose, Drained, SpentSlot
  <2>4. TCalls'
    BY <1>6, <2>1 DEF TCalls, Procs, SpentSlot, Go, Send
  <2>5. TPc'
    BY <1>6, <2>1 DEF TPc, LoopPoints, AppPoints, SpentSlot, Go, Send
  <2>6. LoopChannel'
    BY <1>6, <2>1 DEF TPc, TSub, LoopChannel, TCon, TChans, TRun, Chans, Numbered, Setting,
      OnChannel, Subscribed, SpentSlot, Go, Send
  <2>7. LockHeld'
    BY <1>6, <2>1 DEF TPc, LockHeld, Holding, TCalls, SpentSlot, Go, Send
  <2>8. CallsMatch'
    BY <1>6, <2>1 DEF TPc, TCalls, CallsMatch, LockHeld, Holding, LoopChannel, OnChannel,
      Subscribed, ClosingLast, Running, TSub, Procs, SpentSlot, Go, Send
  <2>9. Numbered'
    BY <1>6, <2>1 DEF TPc, Numbered, TChans, TReg, TSub, TCon, Setting, Chans, SpentSlot, Go,
      Send
  <2>10. ClosingLast'
    BY <1>6, <2>1 DEF TPc, ClosingLast, TCon, Running, LoopChannel, OnChannel, Subscribed,
      SpentSlot, Go, Send
  <2>11. Crews'
    BY <1>6, <2>1 DEF TPc, Crews, TRun, Runs, LoopChannel, SpentSlot, Go, Send
  <2>12. Leftovers'
    BY <1>6, <2>1 DEF TPc, Leftovers, Doomed, TSub, NoSub, Chans, Runs, Subscribed, Setting,
      Cancelling, SpentSlot, Go, Send
  <2>13. Registered'
    BY <1>6, <2>1 DEF TPc, Registered, Subscribed, TSub, TReg, LoopChannel, OnChannel,
      SpentSlot, Go, Send
  <2>14. NoLeakedChannel'
    BY <1>6, <2>1 DEF TPc, NoLeakedChannel, LoopChannel, OnChannel, Subscribed, ClosingLast,
      CallsMatch, TSub, TCalls, SpentSlot, Go, Send
  <2> QED BY <2>2, <2>3, <2>4, <2>5, <2>6, <2>7, <2>8, <2>9, <2>10, <2>11, <2>12, <2>13, <2>14 DEF
    IInv
<1>7. CASE SpentClosed
  <2>1. sub["loop"][1] \in Chans /\ "loop" \in Procs
    BY <1>7 DEF SpentClosed, LoopChannel, OnChannel, Subscribed, TChans, TCon, TSub, Chans,
      Procs
  <2>2. UNCHANGED <<linkVars, opened, home, watch>> /\ CloseReply("loop", sub["loop"][1])
    BY <1>7 DEF SpentClosed
  <2>3. TChans' /\ TReg' /\ calls' \in [Chans -> SUBSET Procs]
    BY <2>1, <2>2, Replied
  <2>4. \A c \in Chans : calls'[c] = IF c = sub["loop"][1] THEN calls[c] \ {"loop"} ELSE calls[c]
    <3>1. calls' = [calls EXCEPT ![sub["loop"][1]] = calls[sub["loop"][1]] \ {"loop"}]
      BY <2>2 DEF CloseReply, Answered, Failed, Return
    <3>2. QED BY <2>1, <3>1 DEF TCalls
  <2>5. \A c \in Chans : reg'[c] \subseteq reg[c] /\ (state'[c] = "none" <=> state[c] = "none")
    BY <2>1, <2>2, Replied
  <2>6. \A c \in 0..MaxChan : Alive(c)' => Alive(c) /\ (c = sub["loop"][1] => wire = "broken")
    BY <2>1, <2>2, Replied
  <2>7. \A c \in Chans : Alive(c)' => Alive(c) /\ (c = sub["loop"][1] => wire = "broken")
    BY <2>6 DEF Chans
  <2>8. sub' \in [Apps \cup {"loop"} -> (0..MaxChan) \X (0..MaxRun)]
        /\ sub'["loop"][1] = 0 /\ sub'["loop"][2] = sub["loop"][2]
        /\ \A a \in Apps : sub'[a] = sub[a]
    BY <1>7, NoneSubscribed DEF SpentClosed
  <2>9. TWire' /\ TCon' /\ TRun' /\ TClose' /\ Drained'
    BY <1>7, <2>1, <2>2, <2>3, <2>4, <2>5, <2>6, <2>7, <2>8 DEF TWire, TCon, TRun, TClose,
      Drained, LinkTypeOK, SpentClosed
  <2>10. TChans'
    BY <2>3
  <2>11. TReg'
    BY <2>3
  <2>12. TCalls'
    BY <1>7, <2>1, <2>2, <2>3, <2>4, <2>5, <2>6, <2>7, <2>8 DEF TCalls, Procs, SpentClosed, Go
  <2>13. TPc'
    BY <1>7, <2>1, <2>2, <2>3, <2>4, <2>5, <2>6, <2>7, <2>8 DEF TPc, LoopPoints, AppPoints,
      SpentClosed, Go
  <2>14. TSub'
    BY <1>7, <2>1, <2>2, <2>3, <2>4, <2>5, <2>6, <2>7, <2>8 DEF SpentClosed, TSub
  <2>15. LoopChannel'
    BY <1>7, <2>1, <2>2, <2>3, <2>4, <2>5, <2>6, <2>7, <2>8 DEF TPc, TSub, LoopChannel, TCon,
      TChans, TRun, Chans, Numbered, Setting, OnChannel, Subscribed, SpentClosed, Go
  <2>16. LockHeld'
    BY <1>7, <2>1, <2>2, <2>3, <2>4, <2>5, <2>6, <2>7, <2>8 DEF TPc, LockHeld, Holding, TCalls,
      SpentClosed, Go
  <2>17. CallsMatch'
    BY <1>7, <2>1, <2>2, <2>3, <2>4, <2>5, <2>6, <2>7, <2>8 DEF TPc, TCalls, CallsMatch,
      LockHeld, Holding, LoopChannel, OnChannel, Subscribed, ClosingLast, Running, TSub, Procs,
      SpentClosed, Go
  <2>18. Numbered'
    BY <1>7, <2>1, <2>2, <2>3, <2>4, <2>5, <2>6, <2>7, <2>8 DEF TPc, Numbered, TChans, TReg,
      TSub, TCon, Setting, Chans, SpentClosed, Go
  <2>19. ClosingLast'
    BY <1>7, <2>1, <2>2, <2>3, <2>4, <2>5, <2>6, <2>7, <2>8 DEF TPc, ClosingLast, TCon, Running,
      LoopChannel, OnChannel, Subscribed, SpentClosed, Go
  <2>20. Crews'
    BY SMTT(30), <1>7, <2>1, <2>2, <2>3, <2>4, <2>5, <2>6, <2>7, <2>8 DEF TPc, Crews, TRun, Runs,
      LoopChannel, SpentClosed, Go
  <2>21. Leftovers'
    BY <1>7, <2>1, <2>2, <2>3, <2>4, <2>5, <2>6, <2>7, <2>8 DEF TPc, Leftovers, Doomed, TSub,
      NoSub, Chans, Runs, Subscribed, Setting, Cancelling, SpentClosed, Go
  <2>22. Registered'
    BY <1>7, <2>1, <2>2, <2>3, <2>4, <2>5, <2>6, <2>7, <2>8 DEF TPc, Registered, Subscribed,
      TSub, TReg, LoopChannel, OnChannel, SpentClosed, Go
  <2>23. NoLeakedChannel'
    BY <1>7, <2>1, <2>2, <2>3, <2>4, <2>5, <2>6, <2>7, <2>8 DEF TPc, NoLeakedChannel,
      LoopChannel, OnChannel, Subscribed, ClosingLast, CallsMatch, TSub, TCalls, SpentClosed, Go
  <2> QED BY <2>9, <2>10, <2>11, <2>12, <2>13, <2>14, <2>15, <2>16, <2>17, <2>18, <2>19,
      <2>20, <2>21, <2>22, <2>23 DEF IInv
<1> QED BY <1>1, <1>2, <1>3, <1>4, <1>5, <1>6, <1>7 DEF LoopConsumes

(* consumeLoop handing deliveries over, and waiting for a channel to use.    *)
LEMMA ForwardIInv ==
    ASSUME IInv, LoopForwards
    PROVE  IInv'
<1> USE ConsumerAssumption, LinkAssumption DEF IInv, env, linkVars, chans, con, rpcs, local,
  loopCtx, users, work, closing, loop, fresh
<1>1. CASE Receive
  <2>1. \A c : Alive(c)' <=> Alive(c)
    BY <1>1 DEF Alive, Receive
  <2>2. TWire' /\ TChans' /\ TReg' /\ TCalls' /\ TCon'
    BY <1>1, <2>1 DEF TWire, TChans, TReg, TCalls, TCon, LinkTypeOK, Receive
  <2>3. TSub' /\ TRun' /\ TClose' /\ Drained'
    BY <1>1, <2>1 DEF TSub, TRun, TClose, Drained, Receive
  <2>4. TPc'
    BY <1>1, <2>1 DEF TPc, LoopPoints, AppPoints, Receive, Go
  <2>5. LoopChannel'
    BY <1>1, <2>1 DEF TPc, TSub, LoopChannel, TCon, TChans, TRun, Chans, Numbered, Setting,
      OnChannel, Subscribed, Receive, Go
  <2>6. LockHeld'
    BY <1>1, <2>1 DEF TPc, LockHeld, Holding, TCalls, Receive, Go
  <2>7. CallsMatch'
    BY <1>1, <2>1 DEF TPc, TCalls, CallsMatch, LockHeld, Holding, LoopChannel, OnChannel,
      Subscribed, ClosingLast, Running, TSub, Procs, Receive, Go
  <2>8. Numbered'
    BY <1>1, <2>1 DEF TPc, Numbered, TChans, TReg, TSub, TCon, Setting, Chans, Receive, Go
  <2>9. ClosingLast'
    BY <1>1, <2>1 DEF TPc, ClosingLast, TCon, Running, LoopChannel, OnChannel, Subscribed,
      Receive, Go
  <2>10. Crews'
    BY <1>1, <2>1 DEF TPc, Crews, TRun, Runs, LoopChannel, Receive, Go
  <2>11. Leftovers'
    BY <1>1, <2>1 DEF TPc, Leftovers, Doomed, TSub, NoSub, Chans, Runs, Subscribed, Setting,
      Cancelling, Receive, Go
  <2>12. Registered'
    BY <1>1, <2>1 DEF TPc, Registered, Subscribed, TSub, TReg, LoopChannel, OnChannel, Receive,
      Go
  <2>13. NoLeakedChannel'
    BY <1>1, <2>1 DEF TPc, NoLeakedChannel, LoopChannel, OnChannel, Subscribed, ClosingLast,
      CallsMatch, TSub, TCalls, Receive, Go
  <2> QED BY <2>2, <2>3, <2>4, <2>5, <2>6, <2>7, <2>8, <2>9, <2>10, <2>11, <2>12, <2>13 DEF IInv
<1>2. CASE Offer
  <2>0. \A a \in Apps : pc[a] = "add" => mine[a] \in Runs BY CrewRun
  <2>1. \A c : Alive(c)' <=> Alive(c)
    BY <1>2 DEF Alive, Offer
  <2>2. run \in Runs /\ idle[run] \in 0..Concurrency /\ busy[run] \in 0..Concurrency
        /\ idle[run] + busy[run] <= Concurrency
    BY <1>2 DEF Offer, Crews, TRun, Runs, LoopChannel
  <2>3. idle[run] > 0 /\ idle' = [idle EXCEPT ![run] = idle[run] - 1]
        /\ busy' = [busy EXCEPT ![run] = busy[run] + 1]
    BY <1>2 DEF Offer
  <2>4. idle[run] - 1 \in 0..Concurrency /\ busy[run] + 1 \in 0..Concurrency
    BY <2>2, <2>3
  <2>5. idle' \in [Runs -> 0..Concurrency] /\ busy' \in [Runs -> 0..Concurrency]
    BY <2>2, <2>3, <2>4 DEF TRun
  <2>6. \A r \in Runs : idle'[r] + busy'[r] = idle[r] + busy[r]
    /\ (r # run => idle'[r] = idle[r] /\ busy'[r] = busy[r])
    BY <2>2, <2>3 DEF TRun
  <2>7. TWire' /\ TChans' /\ TReg' /\ TCalls' /\ TCon'
    BY <1>2, <2>1, <2>2, <2>3, <2>4, <2>5, <2>6 DEF TWire, TChans, TReg, TCalls, TCon,
      LinkTypeOK, Offer
  <2>8. TSub' /\ TClose'
    BY <1>2, <2>1, <2>2, <2>3, <2>4, <2>5, <2>6 DEF TSub, TClose, Offer
  <2>9. TPc'
    BY <1>2, <2>1, <2>2, <2>3, <2>4, <2>5, <2>6 DEF TPc, LoopPoints, AppPoints, Offer, Go
  <2>10. TRun'
    BY <1>2, <2>5 DEF Offer, TRun
  <2>11. LoopChannel'
    BY <1>2, <2>1, <2>2, <2>3, <2>4, <2>5, <2>6 DEF TPc, TSub, LoopChannel, TCon, TChans, TRun,
      Chans, Numbered, Setting, OnChannel, Subscribed, Offer, Go
  <2>12. LockHeld'
    BY <1>2, <2>1, <2>2, <2>3, <2>4, <2>5, <2>6 DEF TPc, LockHeld, Holding, TCalls, Offer, Go
  <2>13. CallsMatch'
    BY <1>2, <2>1, <2>2, <2>3, <2>4, <2>5, <2>6 DEF TPc, TCalls, CallsMatch, LockHeld, Holding,
      LoopChannel, OnChannel, Subscribed, ClosingLast, Running, TSub, Procs, Offer, Go
  <2>14. Numbered'
    BY <1>2, <2>1, <2>2, <2>3, <2>4, <2>5, <2>6 DEF TPc, Numbered, TChans, TReg, TSub, TCon,
      Setting, Chans, Offer, Go
  <2>15. ClosingLast'
    BY <1>2, <2>1, <2>2, <2>3, <2>4, <2>5, <2>6 DEF TPc, ClosingLast, TCon, Running,
      LoopChannel, OnChannel, Subscribed, Offer, Go
  <2>16. Crews'
    <3> USE <1>2, <2>1, <2>2, <2>3, <2>4, <2>5, <2>6 DEF Offer, Go, Crews, TRun, TPc, Runs
    <3>1. UNCHANGED <<mine, run>> /\ \A a \in Apps : pc'[a] = pc[a] OBVIOUS
    <3>2. \A r \in Runs : r > run => idle'[r] = 0 /\ busy'[r] = 0 BY DEF LoopChannel
    <3>3. ASSUME NEW a \in Apps, pc[a] = "add" PROVE idle'[mine[a]] = 0 /\ busy'[mine[a]] = 0
      <4>1. mine[a] \in Runs BY <2>0, <3>3
      <4>2. idle[mine[a]] = 0 /\ busy[mine[a]] = 0 BY <3>3
      <4>3. QED BY <4>1, <4>2
    <3>4. \A a \in Apps : pc'[a] = "add" => idle'[mine'[a]] = 0 /\ busy'[mine'[a]] = 0
      BY <3>1, <3>3
    <3>5. \A r \in Runs : idle'[r] + busy'[r] <= Concurrency OBVIOUS
    <3>6. QED BY <3>1, <3>2, <3>4, <3>5
  <2>17. Drained'
    BY <1>2, <2>2, <2>3 DEF Offer, Drained, NoHandlers
  <2>18. Leftovers'
    BY <1>2, <2>1, <2>2, <2>3, <2>4, <2>5, <2>6 DEF TPc, Leftovers, Doomed, TSub, NoSub, Chans,
      Runs, Subscribed, Setting, Cancelling, Offer, Go
  <2>19. Registered'
    BY <1>2, <2>1, <2>2, <2>3, <2>4, <2>5, <2>6 DEF TPc, Registered, Subscribed, TSub, TReg,
      LoopChannel, OnChannel, Offer, Go
  <2>20. NoLeakedChannel'
    BY <1>2, <2>1, <2>2, <2>3, <2>4, <2>5, <2>6 DEF TPc, NoLeakedChannel, LoopChannel,
      OnChannel, Subscribed, ClosingLast, CallsMatch, TSub, TCalls, Offer, Go
  <2> QED BY <2>7, <2>8, <2>9, <2>10, <2>11, <2>12, <2>13, <2>14, <2>15, <2>16, <2>17, <2>18,
      <2>19, <2>20 DEF IInv
<1>3. CASE ForwardCancelled
  <2>1. \A c : Alive(c)' <=> Alive(c)
    BY <1>3 DEF Alive, ForwardCancelled
  <2>2. TWire' /\ TChans' /\ TReg' /\ TCalls' /\ TCon'
    BY <1>3, <2>1 DEF TWire, TChans, TReg, TCalls, TCon, LinkTypeOK, ForwardCancelled
  <2>3. TSub' /\ TRun' /\ TClose' /\ Drained'
    BY <1>3, <2>1 DEF TSub, TRun, TClose, Drained, ForwardCancelled
  <2>4. TPc'
    BY <1>3, <2>1 DEF TPc, LoopPoints, AppPoints, ForwardCancelled, Go, Done
  <2>5. LoopChannel'
    BY <1>3, <2>1 DEF TPc, TSub, LoopChannel, TCon, TChans, TRun, Chans, Numbered, Setting,
      OnChannel, Subscribed, ForwardCancelled, Go, Done
  <2>6. LockHeld'
    BY <1>3, <2>1 DEF TPc, LockHeld, Holding, TCalls, ForwardCancelled, Go, Done
  <2>7. CallsMatch'
    BY <1>3, <2>1 DEF TPc, TCalls, CallsMatch, LockHeld, Holding, LoopChannel, OnChannel,
      Subscribed, ClosingLast, Running, TSub, Procs, ForwardCancelled, Go, Done
  <2>8. Numbered'
    BY <1>3, <2>1 DEF TPc, Numbered, TChans, TReg, TSub, TCon, Setting, Chans, ForwardCancelled,
      Go, Done
  <2>9. ClosingLast'
    BY <1>3, <2>1 DEF TPc, ClosingLast, TCon, Running, LoopChannel, OnChannel, Subscribed,
      ForwardCancelled, Go, Done
  <2>10. Crews'
    BY <1>3, <2>1 DEF TPc, Crews, TRun, Runs, LoopChannel, ForwardCancelled, Go, Done
  <2>11. Leftovers'
    BY <1>3, <2>1 DEF TPc, Leftovers, Doomed, TSub, NoSub, Chans, Runs, Subscribed, Setting,
      Cancelling, ForwardCancelled, Go, Done
  <2>12. Registered'
    BY <1>3, <2>1 DEF TPc, Registered, Subscribed, TSub, TReg, LoopChannel, OnChannel,
      ForwardCancelled, Go, Done
  <2>13. NoLeakedChannel'
    BY <1>3, <2>1 DEF TPc, NoLeakedChannel, LoopChannel, OnChannel, Subscribed, ClosingLast,
      CallsMatch, TSub, TCalls, ForwardCancelled, Go, Done
  <2> QED BY <2>2, <2>3, <2>4, <2>5, <2>6, <2>7, <2>8, <2>9, <2>10, <2>11, <2>12, <2>13 DEF IInv
<1>4. CASE DeliveriesEnd
  <2>1. \A c : Alive(c)' <=> Alive(c)
    BY <1>4 DEF Alive, DeliveriesEnd
  <2>2. TWire' /\ TChans' /\ TReg' /\ TCalls' /\ TCon'
    BY <1>4, <2>1 DEF TWire, TChans, TReg, TCalls, TCon, LinkTypeOK, DeliveriesEnd
  <2>3. TRun' /\ TClose' /\ Drained'
    BY <1>4, <2>1 DEF TRun, TClose, Drained, DeliveriesEnd
  <2>4. TPc'
    BY <1>4, <2>1 DEF TPc, LoopPoints, AppPoints, DeliveriesEnd, Go, NoChannel
  <2>5. TSub'
    BY SMTT(30), <1>4, <2>1 DEF TSub, TCon, TChans, TPc, LoopChannel, OnChannel, Leftovers,
      Cancelling, NoSub, Chans, Runs, DeliveriesEnd, Go, NoChannel
  <2>6. LoopChannel'
    BY <1>4, <2>1 DEF TPc, TSub, LoopChannel, TCon, TChans, TRun, Chans, Numbered, Setting,
      OnChannel, Subscribed, DeliveriesEnd, Go, NoChannel
  <2>7. LockHeld'
    BY <1>4, <2>1 DEF TPc, LockHeld, Holding, TCalls, DeliveriesEnd, Go, NoChannel
  <2>8. CallsMatch'
    BY <1>4, <2>1 DEF TPc, TCalls, CallsMatch, LockHeld, Holding, LoopChannel, OnChannel,
      Subscribed, ClosingLast, Running, TSub, Procs, DeliveriesEnd, Go, NoChannel
  <2>9. Numbered'
    BY <1>4, <2>1 DEF TPc, Numbered, TChans, TReg, TSub, TCon, Setting, Chans, DeliveriesEnd,
      Go, NoChannel
  <2>10. ClosingLast'
    BY <1>4, <2>1 DEF TPc, ClosingLast, TCon, Running, LoopChannel, OnChannel, Subscribed,
      DeliveriesEnd, Go, NoChannel
  <2>11. Crews'
    BY <1>4, <2>1 DEF TPc, Crews, TRun, Runs, LoopChannel, DeliveriesEnd, Go, NoChannel
  <2>12. Leftovers'
    BY <1>4, <2>1 DEF TPc, Leftovers, Doomed, TSub, NoSub, Chans, Runs, Subscribed, Setting,
      Cancelling, DeliveriesEnd, Go, NoChannel
  <2>13. Registered'
    BY <1>4, <2>1 DEF TPc, Registered, Subscribed, TSub, TReg, LoopChannel, OnChannel,
      DeliveriesEnd, Go, NoChannel
  <2>14. NoLeakedChannel'
    BY <1>4, <2>1 DEF TPc, NoLeakedChannel, LoopChannel, OnChannel, Subscribed, ClosingLast,
      CallsMatch, TSub, TCalls, DeliveriesEnd, Go, NoChannel
  <2> QED BY <2>2, <2>3, <2>4, <2>5, <2>6, <2>7, <2>8, <2>9, <2>10, <2>11, <2>12, <2>13, <2>14 DEF
    IInv
<1>5. CASE Exit
  <2>1. \A c : Alive(c)' <=> Alive(c)
    BY <1>5 DEF Alive, Exit
  <2>2. TWire' /\ TChans' /\ TReg' /\ TCalls' /\ TCon'
    BY <1>5, <2>1 DEF TWire, TChans, TReg, TCalls, TCon, LinkTypeOK, Exit
  <2>3. TRun' /\ TClose' /\ Drained'
    BY <1>5, <2>1 DEF TRun, TClose, Drained, Exit
  <2>4. TPc'
    BY <1>5, <2>1 DEF TPc, LoopPoints, AppPoints, Exit, Go, NoChannel
  <2>5. TSub'
    BY <1>5, <2>1 DEF TSub, TCon, TChans, TPc, LoopChannel, OnChannel, Leftovers, Cancelling,
      NoSub, Chans, Runs, Exit, Go, NoChannel
  <2>6. LoopChannel'
    BY <1>5, <2>1 DEF TPc, TSub, LoopChannel, TCon, TChans, TRun, Chans, Numbered, Setting,
      OnChannel, Subscribed, Exit, Go, NoChannel
  <2>7. LockHeld'
    BY <1>5, <2>1 DEF TPc, LockHeld, Holding, TCalls, Exit, Go, NoChannel
  <2>8. CallsMatch'
    BY <1>5, <2>1 DEF TPc, TCalls, CallsMatch, LockHeld, Holding, LoopChannel, OnChannel,
      Subscribed, ClosingLast, Running, TSub, Procs, Exit, Go, NoChannel
  <2>9. Numbered'
    BY <1>5, <2>1 DEF TPc, Numbered, TChans, TReg, TSub, TCon, Setting, Chans, Exit, Go,
      NoChannel
  <2>10. ClosingLast'
    BY <1>5, <2>1 DEF TPc, ClosingLast, TCon, Running, LoopChannel, OnChannel, Subscribed, Exit,
      Go, NoChannel
  <2>11. Crews'
    BY <1>5, <2>1 DEF TPc, Crews, TRun, Runs, LoopChannel, Exit, Go, NoChannel
  <2>12. Leftovers'
    BY <1>5, <2>1 DEF TPc, Leftovers, Doomed, TSub, NoSub, Chans, Runs, Subscribed, Setting,
      Cancelling, Exit, Go, NoChannel
  <2>13. Registered'
    BY <1>5, <2>1 DEF TPc, Registered, Subscribed, TSub, TReg, LoopChannel, OnChannel, Exit, Go,
      NoChannel
  <2>14. NoLeakedChannel'
    BY <1>5, <2>1 DEF TPc, NoLeakedChannel, LoopChannel, OnChannel, Subscribed, ClosingLast,
      CallsMatch, TSub, TCalls, Exit, Go, NoChannel
  <2> QED BY <2>2, <2>3, <2>4, <2>5, <2>6, <2>7, <2>8, <2>9, <2>10, <2>11, <2>12, <2>13, <2>14 DEF
    IInv
<1>6. CASE WaitSignal
  <2>1. \A c : Alive(c)' <=> Alive(c)
    BY <1>6 DEF Alive, WaitSignal, Take
  <2>2. TChans' /\ TReg' /\ TCalls' /\ TCon' /\ TSub'
    BY <1>6, <2>1 DEF TChans, TReg, TCalls, TCon, TSub, WaitSignal, Take
  <2>3. TRun' /\ TClose' /\ Drained'
    BY <1>6, <2>1 DEF TRun, TClose, Drained, WaitSignal, Take
  <2>4. TWire'
    BY <1>6, <2>1 DEF TWire, LinkTypeOK, WaitSignal, Go, Take
  <2>5. TPc'
    BY <1>6, <2>1 DEF TPc, LoopPoints, AppPoints, WaitSignal, Go, Take
  <2>6. LoopChannel'
    BY <1>6, <2>1 DEF TPc, TSub, LoopChannel, TCon, TChans, TRun, Chans, Numbered, Setting,
      OnChannel, Subscribed, WaitSignal, Go, Take
  <2>7. LockHeld'
    BY <1>6, <2>1 DEF TPc, LockHeld, Holding, TCalls, WaitSignal, Go, Take
  <2>8. CallsMatch'
    BY <1>6, <2>1 DEF TPc, TCalls, CallsMatch, LockHeld, Holding, LoopChannel, OnChannel,
      Subscribed, ClosingLast, Running, TSub, Procs, WaitSignal, Go, Take
  <2>9. Numbered'
    BY <1>6, <2>1 DEF TPc, Numbered, TChans, TReg, TSub, TCon, Setting, Chans, WaitSignal, Go,
      Take
  <2>10. ClosingLast'
    BY <1>6, <2>1 DEF TPc, ClosingLast, TCon, Running, LoopChannel, OnChannel, Subscribed,
      WaitSignal, Go, Take
  <2>11. Crews'
    BY <1>6, <2>1 DEF TPc, Crews, TRun, Runs, LoopChannel, WaitSignal, Go, Take
  <2>12. Leftovers'
    BY <1>6, <2>1 DEF TPc, Leftovers, Doomed, TSub, NoSub, Chans, Runs, Subscribed, Setting,
      Cancelling, WaitSignal, Go, Take
  <2>13. Registered'
    BY <1>6, <2>1 DEF TPc, Registered, Subscribed, TSub, TReg, LoopChannel, OnChannel,
      WaitSignal, Go, Take
  <2>14. NoLeakedChannel'
    BY <1>6, <2>1 DEF TPc, NoLeakedChannel, LoopChannel, OnChannel, Subscribed, ClosingLast,
      CallsMatch, TSub, TCalls, WaitSignal, Go, Take
  <2> QED BY <2>2, <2>3, <2>4, <2>5, <2>6, <2>7, <2>8, <2>9, <2>10, <2>11, <2>12, <2>13, <2>14 DEF
    IInv
<1>7. CASE WaitEnds
  <2>1. \A c : Alive(c)' <=> Alive(c)
    BY <1>7 DEF Alive, WaitEnds
  <2>2. TWire' /\ TChans' /\ TReg' /\ TCalls' /\ TCon'
    BY <1>7, <2>1 DEF TWire, TChans, TReg, TCalls, TCon, LinkTypeOK, WaitEnds
  <2>3. TSub' /\ TRun' /\ TClose' /\ Drained'
    BY <1>7, <2>1 DEF TSub, TRun, TClose, Drained, WaitEnds
  <2>4. TPc'
    BY <1>7, <2>1 DEF TPc, LoopPoints, AppPoints, WaitEnds, Go, Done
  <2>5. LoopChannel'
    BY <1>7, <2>1 DEF TPc, TSub, LoopChannel, TCon, TChans, TRun, Chans, Numbered, Setting,
      OnChannel, Subscribed, WaitEnds, Go, Done
  <2>6. LockHeld'
    BY <1>7, <2>1 DEF TPc, LockHeld, Holding, TCalls, WaitEnds, Go, Done
  <2>7. CallsMatch'
    BY <1>7, <2>1 DEF TPc, TCalls, CallsMatch, LockHeld, Holding, LoopChannel, OnChannel,
      Subscribed, ClosingLast, Running, TSub, Procs, WaitEnds, Go, Done
  <2>8. Numbered'
    BY <1>7, <2>1 DEF TPc, Numbered, TChans, TReg, TSub, TCon, Setting, Chans, WaitEnds, Go,
      Done
  <2>9. ClosingLast'
    BY <1>7, <2>1 DEF TPc, ClosingLast, TCon, Running, LoopChannel, OnChannel, Subscribed,
      WaitEnds, Go, Done
  <2>10. Crews'
    BY <1>7, <2>1 DEF TPc, Crews, TRun, Runs, LoopChannel, WaitEnds, Go, Done
  <2>11. Leftovers'
    BY <1>7, <2>1 DEF TPc, Leftovers, Doomed, TSub, NoSub, Chans, Runs, Subscribed, Setting,
      Cancelling, WaitEnds, Go, Done
  <2>12. Registered'
    BY <1>7, <2>1 DEF TPc, Registered, Subscribed, TSub, TReg, LoopChannel, OnChannel, WaitEnds,
      Go, Done
  <2>13. NoLeakedChannel'
    BY <1>7, <2>1 DEF TPc, NoLeakedChannel, LoopChannel, OnChannel, Subscribed, ClosingLast,
      CallsMatch, TSub, TCalls, WaitEnds, Go, Done
  <2> QED BY <2>2, <2>3, <2>4, <2>5, <2>6, <2>7, <2>8, <2>9, <2>10, <2>11, <2>12, <2>13 DEF IInv
<1>8. CASE WaitDead
  <2>1. \A c : Alive(c)' <=> Alive(c)
    BY <1>8 DEF Alive, WaitDead
  <2>2. TWire' /\ TChans' /\ TReg' /\ TCalls' /\ TSub'
    BY <1>8, <2>1 DEF TWire, TChans, TReg, TCalls, TSub, LinkTypeOK, WaitDead
  <2>3. TRun' /\ TClose' /\ Drained'
    BY <1>8, <2>1 DEF TRun, TClose, Drained, WaitDead
  <2>4. TCon'
    BY <1>8, <2>1 DEF TCon, TChans, Chans, WaitDead, Go
  <2>5. TPc'
    BY <1>8, <2>1 DEF TPc, LoopPoints, AppPoints, WaitDead, Go
  <2>6. LoopChannel'
    BY <1>8, <2>1 DEF TPc, TSub, LoopChannel, TCon, TChans, TRun, Chans, Numbered, Setting,
      OnChannel, Subscribed, WaitDead, Go
  <2>7. LockHeld'
    BY <1>8, <2>1 DEF TPc, LockHeld, Holding, TCalls, WaitDead, Go
  <2>8. CallsMatch'
    BY <1>8, <2>1 DEF TPc, TCalls, CallsMatch, LockHeld, Holding, LoopChannel, OnChannel,
      Subscribed, ClosingLast, Running, TSub, Procs, WaitDead, Go
  <2>9. Numbered'
    BY <1>8, <2>1 DEF TPc, Numbered, TChans, TReg, TSub, TCon, Setting, Chans, WaitDead, Go
  <2>10. ClosingLast'
    BY <1>8, <2>1 DEF TPc, ClosingLast, TCon, Running, LoopChannel, OnChannel, Subscribed,
      WaitDead, Go
  <2>11. Crews'
    BY <1>8, <2>1 DEF TPc, Crews, TRun, Runs, LoopChannel, WaitDead, Go
  <2>12. Leftovers'
    BY <1>8, <2>1 DEF TPc, Leftovers, Doomed, TSub, NoSub, Chans, Runs, Subscribed, Setting,
      Cancelling, WaitDead, Go
  <2>13. Registered'
    BY <1>8, <2>1 DEF TPc, Registered, Subscribed, TSub, TReg, LoopChannel, OnChannel, WaitDead,
      Go
  <2>14. NoLeakedChannel'
    BY <1>8, <2>1 DEF TPc, NoLeakedChannel, LoopChannel, OnChannel, Subscribed, ClosingLast,
      CallsMatch, TSub, TCalls, WaitDead, Go
  <2> QED BY <2>2, <2>3, <2>4, <2>5, <2>6, <2>7, <2>8, <2>9, <2>10, <2>11, <2>12, <2>13, <2>14 DEF
    IInv
<1>9. CASE WaitTimer
  <2>1. \A c : Alive(c)' <=> Alive(c)
    BY <1>9 DEF Alive, WaitTimer
  <2>2. TWire' /\ TChans' /\ TReg' /\ TCalls' /\ TCon'
    BY <1>9, <2>1 DEF TWire, TChans, TReg, TCalls, TCon, LinkTypeOK, WaitTimer
  <2>3. TSub' /\ TRun' /\ TClose' /\ Drained'
    BY <1>9, <2>1 DEF TSub, TRun, TClose, Drained, WaitTimer
  <2>4. TPc'
    BY <1>9, <2>1 DEF TPc, LoopPoints, AppPoints, WaitTimer, Go
  <2>5. LoopChannel'
    BY <1>9, <2>1 DEF TPc, TSub, LoopChannel, TCon, TChans, TRun, Chans, Numbered, Setting,
      OnChannel, Subscribed, WaitTimer, Go
  <2>6. LockHeld'
    BY <1>9, <2>1 DEF TPc, LockHeld, Holding, TCalls, WaitTimer, Go
  <2>7. CallsMatch'
    BY <1>9, <2>1 DEF TPc, TCalls, CallsMatch, LockHeld, Holding, LoopChannel, OnChannel,
      Subscribed, ClosingLast, Running, TSub, Procs, WaitTimer, Go
  <2>8. Numbered'
    BY <1>9, <2>1 DEF TPc, Numbered, TChans, TReg, TSub, TCon, Setting, Chans, WaitTimer, Go
  <2>9. ClosingLast'
    BY <1>9, <2>1 DEF TPc, ClosingLast, TCon, Running, LoopChannel, OnChannel, Subscribed,
      WaitTimer, Go
  <2>10. Crews'
    BY <1>9, <2>1 DEF TPc, Crews, TRun, Runs, LoopChannel, WaitTimer, Go
  <2>11. Leftovers'
    BY <1>9, <2>1 DEF TPc, Leftovers, Doomed, TSub, NoSub, Chans, Runs, Subscribed, Setting,
      Cancelling, WaitTimer, Go
  <2>12. Registered'
    BY <1>9, <2>1 DEF TPc, Registered, Subscribed, TSub, TReg, LoopChannel, OnChannel,
      WaitTimer, Go
  <2>13. NoLeakedChannel'
    BY <1>9, <2>1 DEF TPc, NoLeakedChannel, LoopChannel, OnChannel, Subscribed, ClosingLast,
      CallsMatch, TSub, TCalls, WaitTimer, Go
  <2> QED BY <2>2, <2>3, <2>4, <2>5, <2>6, <2>7, <2>8, <2>9, <2>10, <2>11, <2>12, <2>13 DEF IInv
<1>10. CASE Check
  <2>1. \A c : Alive(c)' <=> Alive(c)
    BY <1>10 DEF Alive, Check
  <2>2. TWire' /\ TChans' /\ TReg' /\ TCalls' /\ TCon'
    BY <1>10, <2>1 DEF TWire, TChans, TReg, TCalls, TCon, LinkTypeOK, Check
  <2>3. TSub' /\ TRun' /\ TClose' /\ Drained'
    BY <1>10, <2>1 DEF TSub, TRun, TClose, Drained, Check
  <2>4. TPc'
    BY <1>10, <2>1 DEF TPc, LoopPoints, AppPoints, Check, Go, Done
  <2>5. LoopChannel'
    BY <1>10, <2>1 DEF TPc, TSub, LoopChannel, TCon, TChans, TRun, Chans, Numbered, Setting,
      OnChannel, Subscribed, Check, Go, Done
  <2>6. LockHeld'
    BY <1>10, <2>1 DEF TPc, LockHeld, Holding, TCalls, Check, Go, Done
  <2>7. CallsMatch'
    BY <1>10, <2>1 DEF TPc, TCalls, CallsMatch, LockHeld, Holding, LoopChannel, OnChannel,
      Subscribed, ClosingLast, Running, TSub, Procs, Check, Go, Done
  <2>8. Numbered'
    BY <1>10, <2>1 DEF TPc, Numbered, TChans, TReg, TSub, TCon, Setting, Chans, Check, Go, Done
  <2>9. ClosingLast'
    BY <1>10, <2>1 DEF TPc, ClosingLast, TCon, Running, LoopChannel, OnChannel, Subscribed,
      Check, Go, Done
  <2>10. Crews'
    BY <1>10, <2>1 DEF TPc, Crews, TRun, Runs, LoopChannel, Check, Go, Done
  <2>11. Leftovers'
    BY <1>10, <2>1 DEF TPc, Leftovers, Doomed, TSub, NoSub, Chans, Runs, Subscribed, Setting,
      Cancelling, Check, Go, Done
  <2>12. Registered'
    BY <1>10, <2>1 DEF TPc, Registered, Subscribed, TSub, TReg, LoopChannel, OnChannel, Check,
      Go, Done
  <2>13. NoLeakedChannel'
    BY <1>10, <2>1 DEF TPc, NoLeakedChannel, LoopChannel, OnChannel, Subscribed, ClosingLast,
      CallsMatch, TSub, TCalls, Check, Go, Done
  <2> QED BY <2>2, <2>3, <2>4, <2>5, <2>6, <2>7, <2>8, <2>9, <2>10, <2>11, <2>12, <2>13 DEF IInv
<1> QED BY <1>1, <1>2, <1>3, <1>4, <1>5, <1>6, <1>7, <1>8, <1>9, <1>10 DEF LoopForwards

(* setupChannel and the retiring of the channel it replaces.                 *)
LEMMA SetupIInv ==
    ASSUME IInv, LoopSetsUp
    PROVE  IInv'
<1> USE ConsumerAssumption, LinkAssumption DEF IInv, env, linkVars, chans, con, rpcs, local,
  loopCtx, users, work, closing, loop, fresh
<1>1. CASE OpenFails
  <2>1. \A c : Alive(c)' <=> Alive(c)
    BY <1>1 DEF Alive, OpenFails
  <2>2. TWire' /\ TChans' /\ TReg' /\ TCalls' /\ TCon'
    BY <1>1, <2>1 DEF TWire, TChans, TReg, TCalls, TCon, LinkTypeOK, OpenFails
  <2>3. TSub' /\ TRun' /\ TClose' /\ Drained'
    BY <1>1, <2>1 DEF TSub, TRun, TClose, Drained, OpenFails
  <2>4. TPc'
    BY <1>1, <2>1 DEF TPc, LoopPoints, AppPoints, OpenFails, Go
  <2>5. LoopChannel'
    BY <1>1, <2>1 DEF TPc, TSub, LoopChannel, TCon, TChans, TRun, Chans, Numbered, Setting,
      OnChannel, Subscribed, OpenFails, Go
  <2>6. LockHeld'
    BY <1>1, <2>1 DEF TPc, LockHeld, Holding, TCalls, OpenFails, Go
  <2>7. CallsMatch'
    BY <1>1, <2>1 DEF TPc, TCalls, CallsMatch, LockHeld, Holding, LoopChannel, OnChannel,
      Subscribed, ClosingLast, Running, TSub, Procs, OpenFails, Go
  <2>8. Numbered'
    BY <1>1, <2>1 DEF TPc, Numbered, TChans, TReg, TSub, TCon, Setting, Chans, OpenFails, Go
  <2>9. ClosingLast'
    BY <1>1, <2>1 DEF TPc, ClosingLast, TCon, Running, LoopChannel, OnChannel, Subscribed,
      OpenFails, Go
  <2>10. Crews'
    BY <1>1, <2>1 DEF TPc, Crews, TRun, Runs, LoopChannel, OpenFails, Go
  <2>11. Leftovers'
    BY <1>1, <2>1 DEF TPc, Leftovers, Doomed, TSub, NoSub, Chans, Runs, Subscribed, Setting,
      Cancelling, OpenFails, Go
  <2>12. Registered'
    BY <1>1, <2>1 DEF TPc, Registered, Subscribed, TSub, TReg, LoopChannel, OnChannel,
      OpenFails, Go
  <2>13. NoLeakedChannel'
    BY <1>1, <2>1 DEF TPc, NoLeakedChannel, LoopChannel, OnChannel, Subscribed, ClosingLast,
      CallsMatch, TSub, TCalls, OpenFails, Go
  <2> QED BY <2>2, <2>3, <2>4, <2>5, <2>6, <2>7, <2>8, <2>9, <2>10, <2>11, <2>12, <2>13 DEF IInv
<1>2. CASE Open
  <2>1. opened' = opened + 1 /\ opened + 1 \in Chans /\ opened \in Nat /\ wire = "ok"
        /\ loop = "open" /\ loop' = "setup" /\ \A a \in Apps : pc'[a] = pc[a]
    BY <1>2 DEF Open, Go, TChans, TPc, Chans
  <2>2. \A c \in Chans : c # opened + 1 => state'[c] = state[c] /\ home'[c] = home[c]
    BY <1>2 DEF Open, TChans
  <2>3. state'[opened + 1] = "open" /\ home'[opened + 1] = gen
    BY <1>2, <2>1 DEF Open, TChans
  <2>4. \A c \in 0..MaxChan : c # opened + 1 => (Alive(c)' <=> Alive(c))
    BY <1>2, <2>2 DEF Open, Alive, Chans
  <2>5. \A c \in Chans : c # opened + 1 => (Alive(c)' <=> Alive(c))
    BY <2>4 DEF Chans
  <2>6. /\ pending[1] <= opened /\ pending[1] \in 0..MaxChan /\ current <= opened
        /\ \A a \in Apps : sub[a][1] <= opened /\ sub[a][1] \in 0..MaxChan
    BY DEF Numbered, TSub, NoSub, Chans
  <2>7. pending[1] # opened + 1 /\ \A a \in Apps : sub[a][1] # opened + 1
    BY <2>1, <2>6 DEF Chans
  <2>8. ~Alive(pending[1])' /\ \A a \in Apps : pc[a] \in Cancelling => ~Alive(sub[a][1])'
    BY <1>2, <2>1, <2>4, <2>6, <2>7 DEF Leftovers, Doomed, Open
  <2>9. reg[opened + 1] = {}
    BY <2>1 DEF Numbered, Chans
  <2>10. UNCHANGED <<env, watch, reg, current, closed, pending, sub>> /\ sub["loop"][1] = 0
    BY <1>2, <2>1 DEF Open, LoopChannel, OnChannel, Subscribed
  <2>11. TWire' /\ TReg' /\ TCon' /\ TSub' /\ TRun'
    BY <1>2, <2>1, <2>2, <2>3, <2>4, <2>5, <2>6, <2>7, <2>8, <2>9, <2>10 DEF TWire, TReg, TCon,
      TSub, TRun, LinkTypeOK, Open
  <2>12. TClose' /\ Drained'
    BY <1>2, <2>1, <2>2, <2>3, <2>4, <2>5, <2>6, <2>7, <2>8, <2>9, <2>10 DEF TClose, Drained,
      Open
  <2>13. TChans'
    BY <1>2, <2>1, <2>10 DEF Open, TChans, TWire, LinkTypeOK
  <2>14. TCalls'
    BY <1>2, <2>1, <2>2, <2>3, <2>4, <2>5, <2>6, <2>7, <2>8, <2>9, <2>10 DEF TCalls, Procs,
      Open, Go, Send
  <2>15. TPc'
    BY <1>2, <2>1, <2>2, <2>3, <2>4, <2>5, <2>6, <2>7, <2>8, <2>9, <2>10 DEF TPc, LoopPoints,
      AppPoints, Open, Go, Send
  <2>16. LoopChannel'
    BY <1>2, <2>1, <2>2, <2>3, <2>4, <2>5, <2>6, <2>7, <2>8, <2>9, <2>10 DEF TPc, TSub,
      LoopChannel, TCon, TChans, TRun, Chans, Numbered, Setting, OnChannel, Subscribed, Open,
      Go, Send
  <2>17. LockHeld'
    BY <1>2, <2>1, <2>2, <2>3, <2>4, <2>5, <2>6, <2>7, <2>8, <2>9, <2>10 DEF TPc, LockHeld,
      Holding, TCalls, Open, Go, Send
  <2>18. CallsMatch'
    BY <1>2, <2>1, <2>2, <2>3, <2>4, <2>5, <2>6, <2>7, <2>8, <2>9, <2>10 DEF TPc, TCalls,
      CallsMatch, LockHeld, Holding, LoopChannel, OnChannel, Subscribed, ClosingLast, Running,
      TSub, Procs, Open, Go, Send
  <2>19. Numbered'
    <3>1. \A c \in Chans : home'[c] <= gen' /\ (state'[c] = "none" <=> c > opened')
      <4>1. gen \in Nat /\ gen' = gen BY <2>10 DEF TWire, LinkTypeOK
      <4>2. QED BY <2>1, <2>2, <2>3, <4>1 DEF Numbered, Chans
    <3>2. \A c \in Chans : c > opened' => reg'[c] = {} BY <2>1, <2>10 DEF Numbered, Chans
    <3>3. /\ current' < opened' /\ pending'[1] < opened'
          /\ \A a \in Apps : sub'[a][1] < opened'
      BY <2>1, <2>6, <2>10 DEF TCon
    <3>4. current' <= opened' /\ pending'[1] <= opened' /\ \A a \in Apps : sub'[a][1] <= opened'
      BY <2>1, <2>6, <2>10 DEF TCon
    <3>5. QED BY <3>1, <3>2, <3>3, <3>4 DEF Numbered
  <2>20. ClosingLast'
    BY <1>2, <2>1, <2>2, <2>3, <2>4, <2>5, <2>6, <2>7, <2>8, <2>9, <2>10 DEF TPc, ClosingLast,
      TCon, Running, LoopChannel, OnChannel, Subscribed, Open, Go, Send
  <2>21. Crews'
    BY SMTT(30), <1>2, <2>1, <2>2, <2>3, <2>4, <2>5, <2>6, <2>7, <2>8, <2>9, <2>10 DEF TPc,
      Crews, TRun, Runs, LoopChannel, Open, Go, Send
  <2>22. Leftovers'
    BY <2>1, <2>8, <2>10 DEF Leftovers, Doomed
  <2>23. Registered'
    <3>1. \A c \in Chans, t \in Runs : Alive(c)' /\ t \in reg'[c] => Alive(c) /\ t \in reg[c]
      BY <2>5, <2>9, <2>10
    <3>2. sub["loop"][2] \in Runs BY <2>1 DEF LoopChannel, TagOf, Runs
    <3>3. QED BY <2>1, <2>10, <3>1, <3>2 DEF Registered, Subscribed
  <2>24. NoLeakedChannel'
    BY <1>2, <2>1, <2>2, <2>3, <2>4, <2>5, <2>6, <2>7, <2>8, <2>9, <2>10 DEF Open, Send,
      NoLeakedChannel, TCalls
  <2> QED BY <2>11, <2>12, <2>13, <2>14, <2>15, <2>16, <2>17, <2>18, <2>19, <2>20, <2>21,
      <2>22, <2>23, <2>24 DEF IInv
<1>3. CASE SetupReply
  <2>1. \A c : Alive(c)' <=> Alive(c)
    BY <1>3 DEF Alive, SetupReply
  <2>2. TWire' /\ TChans' /\ TReg' /\ TCon' /\ TSub'
    BY <1>3, <2>1 DEF TWire, TChans, TReg, TCon, TSub, LinkTypeOK, SetupReply
  <2>3. TRun' /\ TClose' /\ Drained'
    BY <1>3, <2>1 DEF TRun, TClose, Drained, SetupReply
  <2>4. TCalls'
    BY <1>3, <2>1 DEF TCalls, Procs, SetupReply, Go, Answered, Failed, Return
  <2>5. TPc'
    BY <1>3, <2>1 DEF TPc, LoopPoints, AppPoints, SetupReply, Go, Answered, Failed, Return
  <2>6. LoopChannel'
    BY SMTT(30), <1>3, <2>1 DEF TPc, TSub, LoopChannel, TCon, TChans, TRun, Chans, Numbered,
      Setting, OnChannel, Subscribed, SetupReply, Go, Answered, Failed, Return
  <2>7. LockHeld'
    BY <1>3, <2>1 DEF TPc, LockHeld, Holding, TCalls, SetupReply, Go, Answered, Failed, Return
  <2>8. CallsMatch'
    BY <1>3, <2>1 DEF TPc, TCalls, CallsMatch, LockHeld, Holding, LoopChannel, OnChannel,
      Subscribed, ClosingLast, Running, TSub, Procs, SetupReply, Go, Answered, Failed, Return
  <2>9. Numbered'
    BY <1>3, <2>1 DEF TPc, Numbered, TChans, TReg, TSub, TCon, Setting, Chans, SetupReply, Go,
      Answered, Failed, Return
  <2>10. ClosingLast'
    BY <1>3, <2>1 DEF TPc, ClosingLast, TCon, Running, LoopChannel, OnChannel, Subscribed,
      SetupReply, Go, Answered, Failed, Return
  <2>11. Crews'
    BY <1>3, <2>1 DEF TPc, Crews, TRun, Runs, LoopChannel, SetupReply, Go, Answered, Failed,
      Return
  <2>12. Leftovers'
    BY <1>3, <2>1 DEF TPc, Leftovers, Doomed, TSub, NoSub, Chans, Runs, Subscribed, Setting,
      Cancelling, SetupReply, Go, Answered, Failed, Return
  <2>13. Registered'
    BY <1>3, <2>1 DEF TPc, Registered, Subscribed, TSub, TReg, LoopChannel, OnChannel,
      SetupReply, Go, Answered, Failed, Return
  <2>14. NoLeakedChannel'
    BY <1>3, <2>1 DEF TPc, NoLeakedChannel, LoopChannel, OnChannel, Subscribed, ClosingLast,
      CallsMatch, TSub, TCalls, SetupReply, Go, Answered, Failed, Return
  <2> QED BY <2>2, <2>3, <2>4, <2>5, <2>6, <2>7, <2>8, <2>9, <2>10, <2>11, <2>12, <2>13, <2>14 DEF
    IInv
<1>4. CASE Install /\ closed
  <2>1. \A c : Alive(c)' <=> Alive(c)
    BY <1>4 DEF Alive, Install
  <2>2. TWire' /\ TChans' /\ TReg' /\ TCon' /\ TSub'
    BY <1>4, <2>1 DEF TWire, TChans, TReg, TCon, TSub, LinkTypeOK, Install
  <2>3. TRun' /\ TClose' /\ Drained'
    BY <1>4, <2>1 DEF TRun, TClose, Drained, Install
  <2>4. TCalls'
    BY <1>4, <2>1 DEF TCalls, Procs, Install, Go, Send
  <2>5. TPc'
    BY <1>4, <2>1 DEF TPc, LoopPoints, AppPoints, Install, Go, Send
  <2>6. LoopChannel'
    BY SMTT(30), <1>4, <2>1 DEF TPc, TSub, LoopChannel, TCon, TChans, TRun, Chans, Numbered,
      Setting, OnChannel, Subscribed, Install, Go, Send
  <2>7. LockHeld'
    BY <1>4, <2>1 DEF TPc, LockHeld, Holding, TCalls, Install, Go, Send
  <2>8. CallsMatch'
    BY <1>4, <2>1 DEF TPc, TCalls, CallsMatch, LockHeld, Holding, LoopChannel, OnChannel,
      Subscribed, ClosingLast, Running, TSub, Procs, Install, Go, Send
  <2>9. Numbered'
    BY <1>4, <2>1 DEF TPc, Numbered, TChans, TReg, TSub, TCon, Setting, Chans, Install, Go, Send
  <2>10. ClosingLast'
    BY <1>4, <2>1 DEF TPc, ClosingLast, TCon, Running, LoopChannel, OnChannel, Subscribed,
      Install, Go, Send
  <2>11. Crews'
    BY <1>4, <2>1 DEF TPc, Crews, TRun, Runs, LoopChannel, Install, Go, Send
  <2>12. Leftovers'
    BY <1>4, <2>1 DEF TPc, Leftovers, Doomed, TSub, NoSub, Chans, Runs, Subscribed, Setting,
      Cancelling, Install, Go, Send
  <2>13. Registered'
    BY <1>4, <2>1 DEF TPc, Registered, Subscribed, TSub, TReg, LoopChannel, OnChannel, Install,
      Go, Send
  <2>14. NoLeakedChannel'
    BY <1>4, <2>1 DEF TPc, NoLeakedChannel, LoopChannel, OnChannel, Subscribed, ClosingLast,
      CallsMatch, TSub, TCalls, Install, Go, Send
  <2> QED BY <2>2, <2>3, <2>4, <2>5, <2>6, <2>7, <2>8, <2>9, <2>10, <2>11, <2>12, <2>13, <2>14 DEF
    IInv
<1>5. CASE Install /\ ~closed
  <2>1. \A c : Alive(c)' <=> Alive(c)
    BY <1>5 DEF Alive, Install
  <2>2. /\ current' = opened /\ old' = current /\ pending' = NoSub /\ opened \in Chans
        /\ loop = "install" /\ loop' = (IF current = 0 THEN "probe" ELSE "slot")
        /\ \A a \in Apps : pc'[a] = pc[a]
    BY <1>5 DEF Install, Go, TChans, TPc
  <2>3. UNCHANGED <<env, chans, reg, calls, closed, sub, run, users, stranded>>
    BY <1>5 DEF Install
  <2>4. close = "idle" /\ ~closed /\ sub["loop"][1] = 0 /\ current < opened
    /\ current \in 0..MaxChan
    BY <1>5, <2>2 DEF ClosingLast, LoopChannel, OnChannel, Subscribed, Numbered, Setting, TCon
  <2>5. /\ run \in Runs /\ sub["loop"][2] = TagOf(run)
        /\ \A a \in Apps : sub[a][1] <= opened
    BY <2>2 DEF LoopChannel, Numbered
  <2>6. ~Alive(0) /\ ~Alive(0)'
    BY DEF Alive
  <2>7. ~Alive(pending[1]) /\ \A a \in Apps : pc[a] \in Cancelling => ~Alive(sub[a][1])
    BY <2>2 DEF Leftovers, Doomed, Setting
  <2>8. \A c \in Chans, t \in Runs : ~(Alive(c) /\ t \in reg[c])
    BY <2>2, <2>4, <2>7 DEF Registered, Subscribed
  <2>9. TWire' /\ TChans' /\ TReg' /\ TCalls' /\ TRun'
    BY <1>5, <2>1, <2>2, <2>3, <2>4, <2>5, <2>6, <2>7, <2>8 DEF TWire, TChans, TReg, TCalls,
      TRun, LinkTypeOK, Install
  <2>10. TClose' /\ Drained'
    BY <1>5, <2>1, <2>2, <2>3, <2>4, <2>5, <2>6, <2>7, <2>8 DEF TClose, Drained, Install
  <2>11. TCon'
    BY <1>5, <2>1, <2>2, <2>3, <2>4, <2>5, <2>6, <2>7, <2>8 DEF TCon, TChans, Chans, Install,
      Go, Send
  <2>12. TPc'
    BY <1>5, <2>1, <2>2, <2>3, <2>4, <2>5, <2>6, <2>7, <2>8 DEF TPc, LoopPoints, AppPoints,
      Install, Go, Send
  <2>13. TSub'
    BY <1>5, <2>1, <2>2, <2>3, <2>4, <2>5, <2>6, <2>7, <2>8 DEF TSub, TCon, TChans, TPc,
      LoopChannel, OnChannel, Leftovers, Cancelling, NoSub, Chans, Runs, Install, Go, Send
  <2>14. LoopChannel'
    BY <2>1, <2>2, <2>3, <2>4, <2>5, <2>6, <2>7, <2>8 DEF LoopChannel, OnChannel, Subscribed,
      Chans
  <2>15. LockHeld'
    BY <1>5, <2>1, <2>2, <2>3, <2>4, <2>5, <2>6, <2>7, <2>8 DEF TPc, LockHeld, Holding, TCalls,
      Install, Go, Send
  <2>16. CallsMatch'
    BY <1>5, <2>1, <2>2, <2>3, <2>4, <2>5, <2>6, <2>7, <2>8 DEF TPc, TCalls, CallsMatch,
      LockHeld, Holding, LoopChannel, OnChannel, Subscribed, ClosingLast, Running, TSub, Procs,
      Install, Go, Send
  <2>17. Numbered'
    <3>1. /\ \A c \in Chans : home'[c] <= gen' /\ (state'[c] = "none" <=> c > opened')
          /\ \A c \in Chans : c > opened' => reg'[c] = {}
      BY <2>3 DEF Numbered
    <3>2. current' <= opened' /\ pending'[1] <= opened' /\ \A a \in Apps : sub'[a][1] <= opened'
      BY <2>2, <2>3, <2>5 DEF NoSub, Chans
    <3>3. loop' \notin Setting BY <2>2 DEF Setting
    <3>4. QED BY <3>1, <3>2, <3>3 DEF Numbered
  <2>18. ClosingLast'
    BY <1>5, <2>1, <2>2, <2>3, <2>4, <2>5, <2>6, <2>7, <2>8 DEF TPc, ClosingLast, TCon, Running,
      LoopChannel, OnChannel, Subscribed, Install, Go, Send
  <2>19. Crews'
    BY <1>5, <2>1, <2>2, <2>3, <2>4, <2>5, <2>6, <2>7, <2>8 DEF TPc, Crews, TRun, Runs,
      LoopChannel, Install, Go, Send
  <2>20. Leftovers'
    BY <2>1, <2>2, <2>3, <2>4, <2>5, <2>6, <2>7, <2>8 DEF Leftovers, Doomed, NoSub
  <2>21. Registered'
    <3>1. \A c \in Chans, t \in Runs : ~(Alive(c)' /\ t \in reg'[c])
      BY <2>1, <2>3, <2>8
    <3>2. sub'["loop"][2] \in Runs BY <2>3, <2>5 DEF TagOf, Runs, TRun
    <3>3. QED BY <3>1, <3>2 DEF Registered
  <2>22. NoLeakedChannel'
    <3>1. ASSUME NEW c \in Chans, Alive(c), wire # "broken"
          PROVE  c = current \/ c = opened \/ c \in stranded
      BY <2>2, <3>1 DEF NoLeakedChannel
    <3>2. \A c \in Chans : c # 0 BY DEF Chans
    <3>3. QED BY <2>1, <2>2, <2>3, <2>4, <2>5, <2>6, <2>7, <2>8, <3>1, <3>2 DEF NoLeakedChannel
  <2> QED BY <2>9, <2>10, <2>11, <2>12, <2>13, <2>14, <2>15, <2>16, <2>17, <2>18, <2>19,
      <2>20, <2>21, <2>22 DEF IInv
<1>6. CASE Dropped
  <2>1. fresh \in Chans /\ "loop" \in Procs
    BY <1>6 DEF Dropped, LoopChannel, OnChannel, Subscribed, TChans, TCon, TSub, Chans, Procs
  <2>2. UNCHANGED <<linkVars, opened, home, watch>> /\ CloseReply("loop", fresh)
    BY <1>6 DEF Dropped
  <2>3. TChans' /\ TReg' /\ calls' \in [Chans -> SUBSET Procs]
    BY <2>1, <2>2, Replied
  <2>4. \A c \in Chans : calls'[c] = IF c = fresh THEN calls[c] \ {"loop"} ELSE calls[c]
    <3>1. calls' = [calls EXCEPT ![fresh] = calls[fresh] \ {"loop"}]
      BY <2>2 DEF CloseReply, Answered, Failed, Return
    <3>2. QED BY <2>1, <3>1 DEF TCalls
  <2>5. \A c \in Chans : reg'[c] \subseteq reg[c] /\ (state'[c] = "none" <=> state[c] = "none")
    BY <2>1, <2>2, Replied
  <2>6. \A c \in 0..MaxChan : Alive(c)' => Alive(c) /\ (c = fresh => wire = "broken")
    BY <2>1, <2>2, Replied
  <2>7. \A c \in Chans : Alive(c)' => Alive(c) /\ (c = fresh => wire = "broken")
    BY <2>6 DEF Chans
  <2>8. TWire' /\ TCon' /\ TSub' /\ TRun' /\ TClose'
    BY <1>6, <2>1, <2>2, <2>3, <2>4, <2>5, <2>6, <2>7 DEF TWire, TCon, TSub, TRun, TClose,
      LinkTypeOK, Dropped
  <2>9. Drained'
    BY <1>6, <2>1, <2>2, <2>3, <2>4, <2>5, <2>6, <2>7 DEF Drained, Dropped
  <2>10. TChans'
    BY <2>3
  <2>11. TReg'
    BY <2>3
  <2>12. TCalls'
    BY <1>6, <2>1, <2>2, <2>3, <2>4, <2>5, <2>6, <2>7 DEF TCalls, Procs, Dropped, Go
  <2>13. TPc'
    BY <1>6, <2>1, <2>2, <2>3, <2>4, <2>5, <2>6, <2>7 DEF TPc, LoopPoints, AppPoints, Dropped,
      Go
  <2>14. LoopChannel'
    BY <1>6, <2>1, <2>2, <2>3, <2>4, <2>5, <2>6, <2>7 DEF TPc, TSub, LoopChannel, TCon, TChans,
      TRun, Chans, Numbered, Setting, OnChannel, Subscribed, Dropped, Go
  <2>15. LockHeld'
    BY <1>6, <2>1, <2>2, <2>3, <2>4, <2>5, <2>6, <2>7 DEF TPc, LockHeld, Holding, TCalls,
      Dropped, Go
  <2>16. CallsMatch'
    BY <1>6, <2>1, <2>2, <2>3, <2>4, <2>5, <2>6, <2>7 DEF TPc, TCalls, CallsMatch, LockHeld,
      Holding, LoopChannel, OnChannel, Subscribed, ClosingLast, Running, TSub, Procs, Dropped,
      Go
  <2>17. Numbered'
    BY <1>6, <2>1, <2>2, <2>3, <2>4, <2>5, <2>6, <2>7 DEF TPc, Numbered, TChans, TReg, TSub,
      TCon, Setting, Chans, Dropped, Go
  <2>18. ClosingLast'
    BY <1>6, <2>1, <2>2, <2>3, <2>4, <2>5, <2>6, <2>7 DEF TPc, ClosingLast, TCon, Running,
      LoopChannel, OnChannel, Subscribed, Dropped, Go
  <2>19. Crews'
    BY <1>6, <2>1, <2>2, <2>3, <2>4, <2>5, <2>6, <2>7 DEF TPc, Crews, TRun, Runs, LoopChannel,
      Dropped, Go
  <2>20. Leftovers'
    BY <1>6, <2>1, <2>2, <2>3, <2>4, <2>5, <2>6, <2>7 DEF TPc, Leftovers, Doomed, TSub, NoSub,
      Chans, Runs, Subscribed, Setting, Cancelling, Dropped, Go
  <2>21. Registered'
    BY <1>6, <2>1, <2>2, <2>3, <2>4, <2>5, <2>6, <2>7 DEF TPc, Registered, Subscribed, TSub,
      TReg, LoopChannel, OnChannel, Dropped, Go
  <2>22. NoLeakedChannel'
    BY <1>6, <2>1, <2>2, <2>3, <2>4, <2>5, <2>6, <2>7 DEF TPc, NoLeakedChannel, LoopChannel,
      OnChannel, Subscribed, ClosingLast, CallsMatch, TSub, TCalls, Dropped, Go
  <2> QED BY <2>8, <2>9, <2>10, <2>11, <2>12, <2>13, <2>14, <2>15, <2>16, <2>17, <2>18, <2>19,
      <2>20, <2>21, <2>22 DEF IInv
<1>7. CASE Slot
  <2>1. \A c : Alive(c)' <=> Alive(c)
    BY <1>7 DEF Alive, Slot
  <2>2. TWire' /\ TChans' /\ TReg' /\ TCon' /\ TSub'
    BY <1>7, <2>1 DEF TWire, TChans, TReg, TCon, TSub, LinkTypeOK, Slot
  <2>3. TRun' /\ TClose' /\ Drained'
    BY <1>7, <2>1 DEF TRun, TClose, Drained, Slot
  <2>4. TCalls'
    BY <1>7, <2>1 DEF TCalls, Procs, Slot, Go, Send
  <2>5. TPc'
    BY <1>7, <2>1 DEF TPc, LoopPoints, AppPoints, Slot, Go, Send
  <2>6. LoopChannel'
    BY <1>7, <2>1 DEF TPc, TSub, LoopChannel, TCon, TChans, TRun, Chans, Numbered, Setting,
      OnChannel, Subscribed, Slot, Go, Send
  <2>7. LockHeld'
    BY <1>7, <2>1 DEF TPc, LockHeld, Holding, TCalls, Slot, Go, Send
  <2>8. CallsMatch'
    BY <1>7, <2>1 DEF TPc, TCalls, CallsMatch, LockHeld, Holding, LoopChannel, OnChannel,
      Subscribed, ClosingLast, Running, TSub, Procs, Slot, Go, Send
  <2>9. Numbered'
    BY <1>7, <2>1 DEF TPc, Numbered, TChans, TReg, TSub, TCon, Setting, Chans, Slot, Go, Send
  <2>10. ClosingLast'
    BY <1>7, <2>1 DEF TPc, ClosingLast, TCon, Running, LoopChannel, OnChannel, Subscribed, Slot,
      Go, Send
  <2>11. Crews'
    BY <1>7, <2>1 DEF TPc, Crews, TRun, Runs, LoopChannel, Slot, Go, Send
  <2>12. Leftovers'
    BY <1>7, <2>1 DEF TPc, Leftovers, Doomed, TSub, NoSub, Chans, Runs, Subscribed, Setting,
      Cancelling, Slot, Go, Send
  <2>13. Registered'
    BY <1>7, <2>1 DEF TPc, Registered, Subscribed, TSub, TReg, LoopChannel, OnChannel, Slot, Go,
      Send
  <2>14. NoLeakedChannel'
    BY <1>7, <2>1 DEF TPc, NoLeakedChannel, LoopChannel, OnChannel, Subscribed, ClosingLast,
      CallsMatch, TSub, TCalls, Slot, Go, Send
  <2> QED BY <2>2, <2>3, <2>4, <2>5, <2>6, <2>7, <2>8, <2>9, <2>10, <2>11, <2>12, <2>13, <2>14 DEF
    IInv
<1>8. CASE Retired
  <2>1. old \in Chans /\ "loop" \in Procs
    BY <1>8 DEF Retired, LoopChannel, OnChannel, Subscribed, TChans, TCon, TSub, Chans, Procs
  <2>2. UNCHANGED <<linkVars, opened, home, watch>> /\ CloseReply("loop", old)
    BY <1>8 DEF Retired
  <2>3. TChans' /\ TReg' /\ calls' \in [Chans -> SUBSET Procs]
    BY <2>1, <2>2, Replied
  <2>4. \A c \in Chans : calls'[c] = IF c = old THEN calls[c] \ {"loop"} ELSE calls[c]
    <3>1. calls' = [calls EXCEPT ![old] = calls[old] \ {"loop"}]
      BY <2>2 DEF CloseReply, Answered, Failed, Return
    <3>2. QED BY <2>1, <3>1 DEF TCalls
  <2>5. \A c \in Chans : reg'[c] \subseteq reg[c] /\ (state'[c] = "none" <=> state[c] = "none")
    BY <2>1, <2>2, Replied
  <2>6. \A c \in 0..MaxChan : Alive(c)' => Alive(c) /\ (c = old => wire = "broken")
    BY <2>1, <2>2, Replied
  <2>7. \A c \in Chans : Alive(c)' => Alive(c) /\ (c = old => wire = "broken")
    BY <2>6 DEF Chans
  <2>8. TWire' /\ TCon' /\ TRun' /\ TClose' /\ Drained'
    BY <1>8, <2>1, <2>2, <2>3, <2>4, <2>5, <2>6, <2>7 DEF TWire, TCon, TRun, TClose, Drained,
      LinkTypeOK, Retired
  <2>9. TChans'
    BY <2>3
  <2>10. TReg'
    BY <2>3
  <2>11. TCalls'
    BY <1>8, <2>1, <2>2, <2>3, <2>4, <2>5, <2>6, <2>7 DEF TCalls, Procs, Retired, Go
  <2>12. TPc'
    BY <1>8, <2>1, <2>2, <2>3, <2>4, <2>5, <2>6, <2>7 DEF TPc, LoopPoints, AppPoints, Retired,
      Go
  <2>13. TSub'
    BY SMTT(30), <1>8, <2>1, <2>2, <2>3, <2>4, <2>5, <2>6, <2>7 DEF TSub, TCon, TChans, TPc,
      LoopChannel, OnChannel, Leftovers, Cancelling, NoSub, Chans, Runs, Retired, Go
  <2>14. LoopChannel'
    BY <1>8, <2>1, <2>2, <2>3, <2>4, <2>5, <2>6, <2>7 DEF TPc, TSub, LoopChannel, TCon, TChans,
      TRun, Chans, Numbered, Setting, OnChannel, Subscribed, Retired, Go
  <2>15. LockHeld'
    BY <1>8, <2>1, <2>2, <2>3, <2>4, <2>5, <2>6, <2>7 DEF TPc, LockHeld, Holding, TCalls,
      Retired, Go
  <2>16. CallsMatch'
    BY <1>8, <2>1, <2>2, <2>3, <2>4, <2>5, <2>6, <2>7 DEF TPc, TCalls, CallsMatch, LockHeld,
      Holding, LoopChannel, OnChannel, Subscribed, ClosingLast, Running, TSub, Procs, Retired,
      Go
  <2>17. Numbered'
    BY <1>8, <2>1, <2>2, <2>3, <2>4, <2>5, <2>6, <2>7 DEF TPc, Numbered, TChans, TReg, TSub,
      TCon, Setting, Chans, Retired, Go
  <2>18. ClosingLast'
    BY <1>8, <2>1, <2>2, <2>3, <2>4, <2>5, <2>6, <2>7 DEF TPc, ClosingLast, TCon, Running,
      LoopChannel, OnChannel, Subscribed, Retired, Go
  <2>19. Crews'
    BY <1>8, <2>1, <2>2, <2>3, <2>4, <2>5, <2>6, <2>7 DEF TPc, Crews, TRun, Runs, LoopChannel,
      Retired, Go
  <2>20. Leftovers'
    BY <1>8, <2>1, <2>2, <2>3, <2>4, <2>5, <2>6, <2>7 DEF TPc, Leftovers, Doomed, TSub, NoSub,
      Chans, Runs, Subscribed, Setting, Cancelling, Retired, Go
  <2>21. Registered'
    BY <1>8, <2>1, <2>2, <2>3, <2>4, <2>5, <2>6, <2>7 DEF TPc, Registered, Subscribed, TSub,
      TReg, LoopChannel, OnChannel, Retired, Go
  <2>22. NoLeakedChannel'
    BY <1>8, <2>1, <2>2, <2>3, <2>4, <2>5, <2>6, <2>7 DEF TPc, NoLeakedChannel, LoopChannel,
      OnChannel, Subscribed, ClosingLast, CallsMatch, TSub, TCalls, Retired, Go
  <2> QED BY <2>8, <2>9, <2>10, <2>11, <2>12, <2>13, <2>14, <2>15, <2>16, <2>17, <2>18, <2>19,
      <2>20, <2>21, <2>22 DEF IInv
<1>9. CASE Probe
  <2>1. \A c : Alive(c)' <=> Alive(c)
    BY <1>9 DEF Alive, Probe
  <2>2. TWire' /\ TReg' /\ TCalls' /\ TCon' /\ TSub'
    BY <1>9, <2>1 DEF TWire, TReg, TCalls, TCon, TSub, LinkTypeOK, Probe
  <2>3. TRun' /\ TClose' /\ Drained'
    BY <1>9, <2>1 DEF TRun, TClose, Drained, Probe
  <2>4. TChans'
    BY <1>9, <2>1 DEF TChans, Chans, Probe, Go
  <2>5. TPc'
    BY <1>9, <2>1 DEF TPc, LoopPoints, AppPoints, Probe, Go
  <2>6. LoopChannel'
    BY <1>9, <2>1 DEF TPc, TSub, LoopChannel, TCon, TChans, TRun, Chans, Numbered, Setting,
      OnChannel, Subscribed, Probe, Go
  <2>7. LockHeld'
    BY <1>9, <2>1 DEF TPc, LockHeld, Holding, TCalls, Probe, Go
  <2>8. CallsMatch'
    BY <1>9, <2>1 DEF TPc, TCalls, CallsMatch, LockHeld, Holding, LoopChannel, OnChannel,
      Subscribed, ClosingLast, Running, TSub, Procs, Probe, Go
  <2>9. Numbered'
    BY <1>9, <2>1 DEF TPc, Numbered, TChans, TReg, TSub, TCon, Setting, Chans, Probe, Go
  <2>10. ClosingLast'
    BY <1>9, <2>1 DEF TPc, ClosingLast, TCon, Running, LoopChannel, OnChannel, Subscribed,
      Probe, Go
  <2>11. Crews'
    BY <1>9, <2>1 DEF TPc, Crews, TRun, Runs, LoopChannel, Probe, Go
  <2>12. Leftovers'
    BY <1>9, <2>1 DEF TPc, Leftovers, Doomed, TSub, NoSub, Chans, Runs, Subscribed, Setting,
      Cancelling, Probe, Go
  <2>13. Registered'
    BY <1>9, <2>1 DEF TPc, Registered, Subscribed, TSub, TReg, LoopChannel, OnChannel, Probe, Go
  <2>14. NoLeakedChannel'
    BY <1>9, <2>1 DEF TPc, NoLeakedChannel, LoopChannel, OnChannel, Subscribed, ClosingLast,
      CallsMatch, TSub, TCalls, Probe, Go
  <2> QED BY <2>2, <2>3, <2>4, <2>5, <2>6, <2>7, <2>8, <2>9, <2>10, <2>11, <2>12, <2>13, <2>14 DEF
    IInv
<1>10. CASE Report
  <2>1. \A c : Alive(c)' <=> Alive(c)
    BY <1>10 DEF Alive, Report
  <2>2. TWire' /\ TChans' /\ TReg' /\ TCalls' /\ TSub'
    BY <1>10, <2>1 DEF TWire, TChans, TReg, TCalls, TSub, LinkTypeOK, Report
  <2>3. TRun' /\ TClose' /\ Drained'
    BY <1>10, <2>1 DEF TRun, TClose, Drained, Report
  <2>4. TCon'
    BY <1>10, <2>1 DEF TCon, TChans, Chans, Report, Go
  <2>5. TPc'
    BY <1>10, <2>1 DEF TPc, LoopPoints, AppPoints, Report, Go
  <2>6. LoopChannel'
    BY <1>10, <2>1 DEF TPc, TSub, LoopChannel, TCon, TChans, TRun, Chans, Numbered, Setting,
      OnChannel, Subscribed, Report, Go
  <2>7. LockHeld'
    BY <1>10, <2>1 DEF TPc, LockHeld, Holding, TCalls, Report, Go
  <2>8. CallsMatch'
    BY <1>10, <2>1 DEF TPc, TCalls, CallsMatch, LockHeld, Holding, LoopChannel, OnChannel,
      Subscribed, ClosingLast, Running, TSub, Procs, Report, Go
  <2>9. Numbered'
    BY <1>10, <2>1 DEF TPc, Numbered, TChans, TReg, TSub, TCon, Setting, Chans, Report, Go
  <2>10. ClosingLast'
    BY <1>10, <2>1 DEF TPc, ClosingLast, TCon, Running, LoopChannel, OnChannel, Subscribed,
      Report, Go
  <2>11. Crews'
    BY <1>10, <2>1 DEF TPc, Crews, TRun, Runs, LoopChannel, Report, Go
  <2>12. Leftovers'
    BY <1>10, <2>1 DEF TPc, Leftovers, Doomed, TSub, NoSub, Chans, Runs, Subscribed, Setting,
      Cancelling, Report, Go
  <2>13. Registered'
    BY <1>10, <2>1 DEF TPc, Registered, Subscribed, TSub, TReg, LoopChannel, OnChannel, Report,
      Go
  <2>14. NoLeakedChannel'
    BY <1>10, <2>1 DEF TPc, NoLeakedChannel, LoopChannel, OnChannel, Subscribed, ClosingLast,
      CallsMatch, TSub, TCalls, Report, Go
  <2> QED BY <2>2, <2>3, <2>4, <2>5, <2>6, <2>7, <2>8, <2>9, <2>10, <2>11, <2>12, <2>13, <2>14 DEF
    IInv
<1> QED BY <1>1, <1>2, <1>3, <1>4, <1>5, <1>6, <1>7, <1>8, <1>9, <1>10 DEF LoopSetsUp

(* cancelSubscription as the loop runs it.                                   *)
LEMMA LoopCancelIInv ==
    ASSUME IInv, CancelStep("loop")
    PROVE  IInv'
<1> USE ConsumerAssumption, LinkAssumption DEF IInv, env, linkVars, chans, con, rpcs, local,
  loopCtx, users, work, closing, loop, fresh
<1>1. CASE CancelNeedless("loop")
  <2>1. \A c : Alive(c)' <=> Alive(c)
    BY <1>1 DEF Alive, CancelNeedless
  <2>2. \/ pending' = pending
        \/ pending' = NoSub /\ pending = sub["loop"] /\ (closed \/ ~Alive(sub["loop"][1]))
    BY <1>1 DEF CancelNeedless, Forget
  <2>3. loop' = "exit" /\ \A a \in Apps : pc'[a] = pc[a]
    BY <1>1 DEF CancelNeedless, Go, After, TPc
  <2>4. ~Alive(0) /\ ~Alive(0)' /\ NoSub[1] = 0 /\ NoSub[2] = 0
    BY DEF Alive, NoSub
  <2>5. UNCHANGED <<env, chans, con, sub, old, run, users, stranded>>
    BY <1>1 DEF CancelNeedless
  <2>6. pc["loop"] = "cancel"
    BY <1>1 DEF CancelNeedless
  <2>7. TWire' /\ TChans' /\ TReg' /\ TCalls' /\ TCon'
    BY <1>1, <2>1, <2>2, <2>3, <2>4, <2>5, <2>6 DEF TWire, TChans, TReg, TCalls, TCon,
      LinkTypeOK, CancelNeedless
  <2>8. TRun' /\ TClose' /\ Drained'
    BY <1>1, <2>1, <2>2, <2>3, <2>4, <2>5, <2>6 DEF TRun, TClose, Drained, CancelNeedless
  <2>9. TPc'
    BY <1>1, <2>1, <2>2, <2>3, <2>4, <2>5, <2>6 DEF TPc, LoopPoints, AppPoints, CancelNeedless,
      Go, Forget, After
  <2>10. TSub'
    BY <1>1, <2>1, <2>2, <2>3, <2>4, <2>5, <2>6 DEF TSub, TCon, TChans, TPc, LoopChannel,
      OnChannel, Leftovers, Cancelling, NoSub, Chans, Runs, CancelNeedless, Go, Forget, After
  <2>11. LoopChannel'
    BY <1>1, <2>1, <2>2, <2>3, <2>4, <2>5, <2>6 DEF TPc, TSub, LoopChannel, TCon, TChans, TRun,
      Chans, Numbered, Setting, OnChannel, Subscribed, CancelNeedless, Go, Forget, After
  <2>12. LockHeld'
    BY <1>1, <2>1, <2>2, <2>3, <2>4, <2>5, <2>6 DEF TPc, LockHeld, Holding, TCalls,
      CancelNeedless, Go, Forget, After
  <2>13. CallsMatch'
    BY <1>1, <2>1, <2>2, <2>3, <2>4, <2>5, <2>6 DEF TPc, TCalls, CallsMatch, LockHeld, Holding,
      LoopChannel, OnChannel, Subscribed, ClosingLast, Running, TSub, Procs, CancelNeedless, Go,
      Forget, After
  <2>14. Numbered'
    <3>1. UNCHANGED <<home, gen, state, opened, reg, current, sub>>
      BY <1>1 DEF CancelNeedless
    <3>2. pending'[1] <= opened /\ (loop' \in Setting => loop \in Setting /\ pending'[1] < opened)
      BY <2>1, <2>2, <2>3, <2>4, <2>5, <2>6 DEF Numbered, Setting, TChans, Chans
    <3>3. QED BY <3>1, <3>2 DEF Numbered
  <2>15. ClosingLast'
    BY <1>1, <2>1, <2>2, <2>3, <2>4, <2>5, <2>6 DEF TPc, ClosingLast, TCon, Running,
      LoopChannel, OnChannel, Subscribed, CancelNeedless, Go, Forget, After
  <2>16. Crews'
    BY <1>1, <2>1, <2>2, <2>3, <2>4, <2>5, <2>6 DEF TPc, Crews, TRun, Runs, LoopChannel,
      CancelNeedless, Go, Forget, After
  <2>17. Leftovers'
    <3>1. UNCHANGED <<wire, closed, sub>> BY <2>5
    <3>2. loop' \in Subscribed \cup Setting \cup {"slot", "retire"} =>
      loop \in Subscribed \cup Setting \cup {"slot", "retire"}
      BY <2>3 DEF Subscribed, Setting
    <3>3. \A b \in Apps : pc'[b] \in Cancelling => pc[b] \in Cancelling BY <2>3 DEF Cancelling
    <3>4. QED BY <2>1, <2>2, <2>3, <2>4, <2>5, <2>6, <3>1, <3>2, <3>3 DEF Leftovers, Doomed
  <2>18. Registered'
    BY <1>1, <2>1, <2>2, <2>3, <2>4, <2>5, <2>6 DEF TPc, Registered, Subscribed, TSub, TReg,
      LoopChannel, OnChannel, CancelNeedless, Go, Forget, After
  <2>19. NoLeakedChannel'
    BY <1>1, <2>1, <2>2, <2>3, <2>4, <2>5, <2>6 DEF TPc, NoLeakedChannel, LoopChannel,
      OnChannel, Subscribed, ClosingLast, CallsMatch, TSub, TCalls, CancelNeedless, Go, Forget,
      After
  <2> QED BY <2>7, <2>8, <2>9, <2>10, <2>11, <2>12, <2>13, <2>14, <2>15, <2>16, <2>17, <2>18,
      <2>19 DEF IInv
<1>2. CASE Cancel("loop")
  <2>1. \A c : Alive(c)' <=> Alive(c)
    BY <1>2 DEF Alive, Cancel
  <2>2. TWire' /\ TChans' /\ TReg' /\ TCalls' /\ TCon'
    BY <1>2, <2>1 DEF TWire, TChans, TReg, TCalls, TCon, LinkTypeOK, Cancel
  <2>3. TSub' /\ TRun' /\ TClose' /\ Drained'
    BY <1>2, <2>1 DEF TSub, TRun, TClose, Drained, Cancel
  <2>4. TPc'
    BY <1>2, <2>1 DEF TPc, LoopPoints, AppPoints, Cancel, Go
  <2>5. LoopChannel'
    BY <1>2, <2>1 DEF TPc, TSub, LoopChannel, TCon, TChans, TRun, Chans, Numbered, Setting,
      OnChannel, Subscribed, Cancel, Go
  <2>6. LockHeld'
    BY <1>2, <2>1 DEF TPc, LockHeld, Holding, TCalls, Cancel, Go
  <2>7. CallsMatch'
    BY <1>2, <2>1 DEF TPc, TCalls, CallsMatch, LockHeld, Holding, LoopChannel, OnChannel,
      Subscribed, ClosingLast, Running, TSub, Procs, Cancel, Go
  <2>8. Numbered'
    BY <1>2, <2>1 DEF TPc, Numbered, TChans, TReg, TSub, TCon, Setting, Chans, Cancel, Go
  <2>9. ClosingLast'
    BY <1>2, <2>1 DEF TPc, ClosingLast, TCon, Running, LoopChannel, OnChannel, Subscribed,
      Cancel, Go
  <2>10. Crews'
    BY <1>2, <2>1 DEF TPc, Crews, TRun, Runs, LoopChannel, Cancel, Go
  <2>11. Leftovers'
    BY <1>2, <2>1 DEF TPc, Leftovers, Doomed, TSub, NoSub, Chans, Runs, Subscribed, Setting,
      Cancelling, Cancel, Go
  <2>12. Registered'
    BY <1>2, <2>1 DEF TPc, Registered, Subscribed, TSub, TReg, LoopChannel, OnChannel, Cancel,
      Go
  <2>13. NoLeakedChannel'
    BY <1>2, <2>1 DEF TPc, NoLeakedChannel, LoopChannel, OnChannel, Subscribed, ClosingLast,
      CallsMatch, TSub, TCalls, Cancel, Go
  <2> QED BY <2>2, <2>3, <2>4, <2>5, <2>6, <2>7, <2>8, <2>9, <2>10, <2>11, <2>12, <2>13 DEF IInv
<1>3. CASE CancelSend("loop")
  <2>1. \A c : Alive(c)' <=> Alive(c)
    BY <1>3 DEF Alive, CancelSend
  <2>2. TWire' /\ TChans' /\ TReg' /\ TCon' /\ TSub'
    BY <1>3, <2>1 DEF TWire, TChans, TReg, TCon, TSub, LinkTypeOK, CancelSend
  <2>3. TRun' /\ TClose' /\ Drained'
    BY <1>3, <2>1 DEF TRun, TClose, Drained, CancelSend
  <2>4. TCalls'
    BY <1>3, <2>1 DEF TCalls, Procs, CancelSend, Go, Send
  <2>5. TPc'
    BY <1>3, <2>1 DEF TPc, LoopPoints, AppPoints, CancelSend, Go, Send
  <2>6. LoopChannel'
    BY <1>3, <2>1 DEF TPc, TSub, LoopChannel, TCon, TChans, TRun, Chans, Numbered, Setting,
      OnChannel, Subscribed, CancelSend, Go, Send
  <2>7. LockHeld'
    BY <1>3, <2>1 DEF TPc, LockHeld, Holding, TCalls, CancelSend, Go, Send
  <2>8. CallsMatch'
    BY <1>3, <2>1 DEF TPc, TCalls, CallsMatch, LockHeld, Holding, LoopChannel, OnChannel,
      Subscribed, ClosingLast, Running, TSub, Procs, CancelSend, Go, Send
  <2>9. Numbered'
    BY <1>3, <2>1 DEF TPc, Numbered, TChans, TReg, TSub, TCon, Setting, Chans, CancelSend, Go,
      Send
  <2>10. ClosingLast'
    BY <1>3, <2>1 DEF TPc, ClosingLast, TCon, Running, LoopChannel, OnChannel, Subscribed,
      CancelSend, Go, Send
  <2>11. Crews'
    BY <1>3, <2>1 DEF TPc, Crews, TRun, Runs, LoopChannel, CancelSend, Go, Send
  <2>12. Leftovers'
    BY <1>3, <2>1 DEF TPc, Leftovers, Doomed, TSub, NoSub, Chans, Runs, Subscribed, Setting,
      Cancelling, CancelSend, Go, Send
  <2>13. Registered'
    BY <1>3, <2>1 DEF TPc, Registered, Subscribed, TSub, TReg, LoopChannel, OnChannel,
      CancelSend, Go, Send
  <2>14. NoLeakedChannel'
    BY <1>3, <2>1 DEF TPc, NoLeakedChannel, LoopChannel, OnChannel, Subscribed, ClosingLast,
      CallsMatch, TSub, TCalls, CancelSend, Go, Send
  <2> QED BY <2>2, <2>3, <2>4, <2>5, <2>6, <2>7, <2>8, <2>9, <2>10, <2>11, <2>12, <2>13, <2>14 DEF
    IInv
<1>4. CASE CancelTimeout("loop")
  <2>1. PICK c \in Chans : rpcMu \in calls[c] /\ Alive(c) BY <1>4 DEF CancelTimeout, HolderBusy
  <2>2. loop = "cancelSlot" /\ rpcMu \in Procs BY <1>4, <2>1 DEF CancelTimeout, TCalls
  <2>3. CASE rpcMu = "loop" BY <2>2, <2>3 DEF LockHeld, Holding
  <2>4. CASE rpcMu = "close" BY <2>1, <2>2, <2>4 DEF CallsMatch, ClosingLast, Running
  <2>5. ASSUME NEW a \in Apps, rpcMu = a PROVE FALSE
    BY <2>1, <2>2, <2>5 DEF CallsMatch, Leftovers, Doomed, Subscribed, Cancelling
  <2>6. QED BY <2>2, <2>3, <2>4, <2>5 DEF Procs
<1>5. CASE CancelReply("loop")
  <2>1. \A c : Alive(c)' <=> Alive(c)
    BY <1>5 DEF Alive, CancelReply
  <2>2. /\ loop = "cancelCall" /\ sub["loop"][1] = current /\ current \in Chans
        /\ sub["loop"][2] = TagOf(run) /\ TagOf(run) \in Runs
    BY <1>5 DEF CancelReply, LoopChannel, OnChannel, Subscribed, TagOf, Runs
  <2>3. sub["loop"] = <<sub["loop"][1], sub["loop"][2]>> /\ sub["loop"] \in Chans \X Runs
    BY <2>2 DEF TSub
  <2>4. loop' = "exit" /\ \A a \in Apps : pc'[a] = pc[a]
    BY <1>5 DEF CancelReply, Go, After, TPc
  <2>5. UNCHANGED <<env, chans, con, sub, old, run, users, stranded>>
    BY <1>5 DEF CancelReply
  <2>6. ~Alive(0) /\ ~Alive(0)' /\ NoSub[1] = 0 /\ NoSub[2] = 0
    BY DEF Alive, NoSub
  <2>7. ~Alive(pending[1]) /\ \A a \in Apps : pc[a] \in Cancelling => ~Alive(sub[a][1])
    BY <2>2 DEF Leftovers, Doomed, Subscribed
  <2>8. \/ pending' = pending \/ pending' = NoSub
        \/ pending' = sub["loop"] /\ (Alive(sub["loop"][1]) => wire = "broken")
    BY <1>5 DEF CancelReply, Forget, Mark, Failed
  <2>9. TReg' /\ \A c \in Chans : reg'[c] \subseteq reg[c]
    BY <1>5, <2>2 DEF CancelReply, TReg
  <2>10. ~closed /\ Alive(sub["loop"][1]) =>
        pending' = sub["loop"] \/ sub["loop"][2] \notin reg'[sub["loop"][1]]
    BY <1>5, <2>2 DEF CancelReply, Mark, TReg
  <2>11. TWire' /\ TChans' /\ TCon' /\ TRun' /\ TClose'
    BY <1>5, <2>1, <2>2, <2>3, <2>4, <2>5, <2>6, <2>7, <2>8, <2>9, <2>10 DEF TWire, TChans,
      TCon, TRun, TClose, LinkTypeOK, CancelReply
  <2>12. Drained'
    BY <1>5, <2>1, <2>2, <2>3, <2>4, <2>5, <2>6, <2>7, <2>8, <2>9, <2>10 DEF Drained,
      CancelReply
  <2>13. TReg'
    BY <2>9
  <2>14. TCalls'
    BY <1>5, <2>1, <2>2, <2>3, <2>4, <2>5, <2>6, <2>7, <2>8, <2>9, <2>10 DEF TCalls, Procs,
      CancelReply, Go, Mark, Forget, After, Answered, Failed, Return
  <2>15. TPc'
    BY <1>5, <2>1, <2>2, <2>3, <2>4, <2>5, <2>6, <2>7, <2>8, <2>9, <2>10 DEF TPc, LoopPoints,
      AppPoints, CancelReply, Go, Mark, Forget, After, Answered, Failed, Return
  <2>16. TSub'
    BY <2>3, <2>5, <2>8 DEF TSub
  <2>17. LoopChannel'
    BY <1>5, <2>1, <2>2, <2>3, <2>4, <2>5, <2>6, <2>7, <2>8, <2>9, <2>10 DEF TPc, TSub,
      LoopChannel, TCon, TChans, TRun, Chans, Numbered, Setting, OnChannel, Subscribed,
      CancelReply, Go, Mark, Forget, After, Answered, Failed, Return
  <2>18. LockHeld'
    BY <1>5, <2>1, <2>2, <2>3, <2>4, <2>5, <2>6, <2>7, <2>8, <2>9, <2>10 DEF TPc, LockHeld,
      Holding, TCalls, CancelReply, Go, Mark, Forget, After, Answered, Failed, Return
  <2>19. CallsMatch'
    BY <1>5, <2>1, <2>2, <2>3, <2>4, <2>5, <2>6, <2>7, <2>8, <2>9, <2>10 DEF TPc, TCalls,
      CallsMatch, LockHeld, Holding, LoopChannel, OnChannel, Subscribed, ClosingLast, Running,
      TSub, Procs, CancelReply, Go, Mark, Forget, After, Answered, Failed, Return
  <2>20. Numbered'
    <3>1. UNCHANGED <<home, gen, state, opened, current, sub>> BY <2>5
    <3>2. loop' \notin Setting BY <2>4 DEF Setting
    <3>3. pending'[1] <= opened BY <2>2, <2>6, <2>8 DEF Numbered, TChans, Chans
    <3>4. \A c \in Chans : c > opened => reg'[c] = {} BY <2>9 DEF Numbered
    <3>5. QED BY <3>1, <3>2, <3>3, <3>4 DEF Numbered
  <2>21. ClosingLast'
    BY <1>5, <2>1, <2>2, <2>3, <2>4, <2>5, <2>6, <2>7, <2>8, <2>9, <2>10 DEF TPc, ClosingLast,
      TCon, Running, LoopChannel, OnChannel, Subscribed, CancelReply, Go, Mark, Forget, After,
      Answered, Failed, Return
  <2>22. Crews'
    BY SMTT(30), <1>5, <2>1, <2>2, <2>3, <2>4, <2>5, <2>6, <2>7, <2>8, <2>9, <2>10 DEF TPc,
      Crews, TRun, Runs, LoopChannel, CancelReply, Go, Mark, Forget, After, Answered, Failed,
      Return
  <2>23. Leftovers'
    <3>1. UNCHANGED <<wire, closed, sub>> BY <2>5
    <3>2. loop' \notin Subscribed \cup Setting \cup {"slot", "retire"} BY <2>4 DEF Subscribed,
      Setting
    <3>3. QED BY <2>1, <2>2, <2>3, <2>4, <2>5, <2>6, <2>7, <2>8, <2>9, <2>10, <3>1, <3>2 DEF
      Leftovers, Doomed
  <2>24. Registered'
    <3>1. ASSUME ~closed, NEW c \in Chans, NEW t \in Runs, Alive(c), t \in reg'[c]
          PROVE  pending' = <<c, t>>
      <4>1. t \in reg[c] BY <2>9, <3>1
      <4>2. pending = <<c, t>> \/ sub["loop"] = <<c, t>> BY <3>1, <4>1 DEF Registered
      <4>3. sub["loop"] = <<c, t>> BY <2>7, <3>1, <4>2
      <4>4. QED BY <2>10, <3>1, <4>3
    <3>2. closed' = closed BY <2>5
    <3>3. QED BY <2>1, <2>4, <3>1, <3>2 DEF Registered
  <2>25. NoLeakedChannel'
    BY <1>5, <2>1, <2>2, <2>3, <2>4, <2>5, <2>6, <2>7, <2>8, <2>9, <2>10 DEF TPc,
      NoLeakedChannel, LoopChannel, OnChannel, Subscribed, ClosingLast, CallsMatch, TSub,
      TCalls, CancelReply, Go, Mark, Forget, After, Answered, Failed, Return
  <2> QED BY <2>11, <2>12, <2>13, <2>14, <2>15, <2>16, <2>17, <2>18, <2>19, <2>20, <2>21,
      <2>22, <2>23, <2>24, <2>25 DEF IInv
<1> QED BY <1>1, <1>2, <1>3, <1>4, <1>5 DEF CancelStep

(* cancelSubscription as Start retries it for the subscription on record.    *)
LEMMA AppCancelIInv ==
    ASSUME IInv, NEW a \in Apps, CancelStep(a)
    PROVE  IInv'
<1> USE ConsumerAssumption, LinkAssumption DEF IInv, env, linkVars, chans, con, rpcs, local,
  loopCtx, users, work, closing, loop, fresh
<1>1. CASE CancelNeedless(a)
  <2>1. \A c : Alive(c)' <=> Alive(c)
    BY <1>1 DEF Alive, CancelNeedless
  <2>2. \/ pending' = pending
        \/ pending' = NoSub /\ pending = sub[a] /\ (closed \/ ~Alive(sub[a][1]))
    BY <1>1 DEF CancelNeedless, Forget
  <2>3. pc'[a] = "start" /\ loop' = loop /\ \A b \in Apps : b # a => pc'[b] = pc[b]
    BY <1>1 DEF CancelNeedless, Go, After, TPc
  <2>4. ~Alive(0) /\ ~Alive(0)' /\ NoSub[1] = 0 /\ NoSub[2] = 0
    BY DEF Alive, NoSub
  <2>5. UNCHANGED <<env, chans, con, sub, old, run, users, stranded>>
    BY <1>1 DEF CancelNeedless
  <2>6. pc[a] = "cancel"
    BY <1>1 DEF CancelNeedless
  <2>7. pc[a] \in Cancelling
    BY <1>1 DEF CancelNeedless, Cancelling
  <2>8. TWire' /\ TChans' /\ TReg' /\ TCalls' /\ TCon'
    BY <1>1, <2>1, <2>2, <2>3, <2>4, <2>5, <2>6, <2>7 DEF TWire, TChans, TReg, TCalls, TCon,
      LinkTypeOK, CancelNeedless
  <2>9. TRun' /\ TClose' /\ Drained'
    BY <1>1, <2>1, <2>2, <2>3, <2>4, <2>5, <2>6, <2>7 DEF TRun, TClose, Drained, CancelNeedless
  <2>10. TPc'
    BY <1>1, <2>1, <2>2, <2>3, <2>4, <2>5, <2>6, <2>7 DEF TPc, LoopPoints, AppPoints,
      CancelNeedless, Go, Forget, After
  <2>11. TSub'
    BY <1>1, <2>1, <2>2, <2>3, <2>4, <2>5, <2>6, <2>7 DEF TSub, TCon, TChans, TPc, LoopChannel,
      OnChannel, Leftovers, Cancelling, NoSub, Chans, Runs, CancelNeedless, Go, Forget, After
  <2>12. LoopChannel'
    BY <1>1, <2>1, <2>2, <2>3, <2>4, <2>5, <2>6, <2>7 DEF TPc, TSub, LoopChannel, TCon, TChans,
      TRun, Chans, Numbered, Setting, OnChannel, Subscribed, CancelNeedless, Go, Forget, After
  <2>13. LockHeld'
    BY <1>1, <2>1, <2>2, <2>3, <2>4, <2>5, <2>6, <2>7 DEF TPc, LockHeld, Holding, TCalls,
      CancelNeedless, Go, Forget, After
  <2>14. CallsMatch'
    BY <1>1, <2>1, <2>2, <2>3, <2>4, <2>5, <2>6, <2>7 DEF TPc, TCalls, CallsMatch, LockHeld,
      Holding, LoopChannel, OnChannel, Subscribed, ClosingLast, Running, TSub, Procs,
      CancelNeedless, Go, Forget, After
  <2>15. Numbered'
    <3>1. UNCHANGED <<home, gen, state, opened, reg, current, sub>>
      BY <1>1 DEF CancelNeedless
    <3>2. pending'[1] <= opened /\ (loop' \in Setting => loop \in Setting /\ pending'[1] < opened)
      BY <2>1, <2>2, <2>3, <2>4, <2>5, <2>6, <2>7 DEF Numbered, Setting, TChans, Chans
    <3>3. QED BY <3>1, <3>2 DEF Numbered
  <2>16. ClosingLast'
    BY <1>1, <2>1, <2>2, <2>3, <2>4, <2>5, <2>6, <2>7 DEF TPc, ClosingLast, TCon, Running,
      LoopChannel, OnChannel, Subscribed, CancelNeedless, Go, Forget, After
  <2>17. Crews'
    BY <2>1, <2>2, <2>3, <2>4, <2>5, <2>6, <2>7 DEF Crews, Cancelling
  <2>18. Leftovers'
    <3>1. UNCHANGED <<wire, closed, sub>> BY <2>5
    <3>2. loop' \in Subscribed \cup Setting \cup {"slot", "retire"} =>
      loop \in Subscribed \cup Setting \cup {"slot", "retire"}
      BY <2>3 DEF Subscribed, Setting
    <3>3. \A b \in Apps : pc'[b] \in Cancelling => pc[b] \in Cancelling BY <2>3 DEF Cancelling
    <3>4. QED BY <2>1, <2>2, <2>3, <2>4, <2>5, <2>6, <2>7, <3>1, <3>2, <3>3 DEF Leftovers,
      Doomed
  <2>19. Registered'
    BY <1>1, <2>1, <2>2, <2>3, <2>4, <2>5, <2>6, <2>7 DEF TPc, Registered, Subscribed, TSub,
      TReg, LoopChannel, OnChannel, CancelNeedless, Go, Forget, After
  <2>20. NoLeakedChannel'
    BY <1>1, <2>1, <2>2, <2>3, <2>4, <2>5, <2>6, <2>7 DEF TPc, NoLeakedChannel, LoopChannel,
      OnChannel, Subscribed, ClosingLast, CallsMatch, TSub, TCalls, CancelNeedless, Go, Forget,
      After
  <2> QED BY <2>8, <2>9, <2>10, <2>11, <2>12, <2>13, <2>14, <2>15, <2>16, <2>17, <2>18, <2>19,
      <2>20 DEF IInv
<1>2. CASE Cancel(a)
  <2>1. \A c : Alive(c)' <=> Alive(c)
    BY <1>2 DEF Alive, Cancel
  <2>2. TWire' /\ TChans' /\ TReg' /\ TCalls' /\ TCon'
    BY <1>2, <2>1 DEF TWire, TChans, TReg, TCalls, TCon, LinkTypeOK, Cancel
  <2>3. TSub' /\ TRun' /\ TClose' /\ Drained'
    BY <1>2, <2>1 DEF TSub, TRun, TClose, Drained, Cancel
  <2>4. TPc'
    BY <1>2, <2>1 DEF TPc, LoopPoints, AppPoints, Cancel, Go
  <2>5. LoopChannel'
    BY <1>2, <2>1 DEF TPc, TSub, LoopChannel, TCon, TChans, TRun, Chans, Numbered, Setting,
      OnChannel, Subscribed, Cancel, Go
  <2>6. LockHeld'
    BY <1>2, <2>1 DEF TPc, LockHeld, Holding, TCalls, Cancel, Go
  <2>7. CallsMatch'
    BY <1>2, <2>1 DEF TPc, TCalls, CallsMatch, LockHeld, Holding, LoopChannel, OnChannel,
      Subscribed, ClosingLast, Running, TSub, Procs, Cancel, Go
  <2>8. Numbered'
    BY <1>2, <2>1 DEF TPc, Numbered, TChans, TReg, TSub, TCon, Setting, Chans, Cancel, Go
  <2>9. ClosingLast'
    BY <1>2, <2>1 DEF TPc, ClosingLast, TCon, Running, LoopChannel, OnChannel, Subscribed,
      Cancel, Go
  <2>10. Crews'
    BY <1>2, <2>1 DEF TPc, Crews, TRun, Runs, LoopChannel, Cancel, Go
  <2>11. Leftovers'
    BY <1>2, <2>1 DEF TPc, Leftovers, Doomed, TSub, NoSub, Chans, Runs, Subscribed, Setting,
      Cancelling, Cancel, Go
  <2>12. Registered'
    BY <1>2, <2>1 DEF TPc, Registered, Subscribed, TSub, TReg, LoopChannel, OnChannel, Cancel,
      Go
  <2>13. NoLeakedChannel'
    BY <1>2, <2>1 DEF TPc, NoLeakedChannel, LoopChannel, OnChannel, Subscribed, ClosingLast,
      CallsMatch, TSub, TCalls, Cancel, Go
  <2> QED BY <2>2, <2>3, <2>4, <2>5, <2>6, <2>7, <2>8, <2>9, <2>10, <2>11, <2>12, <2>13 DEF IInv
<1>3. CASE CancelSend(a)
  <2>1. \A c : Alive(c)' <=> Alive(c)
    BY <1>3 DEF Alive, CancelSend
  <2>2. TWire' /\ TChans' /\ TReg' /\ TCon' /\ TSub'
    BY <1>3, <2>1 DEF TWire, TChans, TReg, TCon, TSub, LinkTypeOK, CancelSend
  <2>3. TRun' /\ TClose' /\ Drained'
    BY <1>3, <2>1 DEF TRun, TClose, Drained, CancelSend
  <2>4. TCalls'
    BY <1>3, <2>1 DEF TCalls, Procs, CancelSend, Go, Send
  <2>5. TPc'
    BY <1>3, <2>1 DEF TPc, LoopPoints, AppPoints, CancelSend, Go, Send
  <2>6. LoopChannel'
    BY <1>3, <2>1 DEF TPc, TSub, LoopChannel, TCon, TChans, TRun, Chans, Numbered, Setting,
      OnChannel, Subscribed, CancelSend, Go, Send
  <2>7. LockHeld'
    BY <1>3, <2>1 DEF TPc, LockHeld, Holding, TCalls, CancelSend, Go, Send
  <2>8. CallsMatch'
    BY <1>3, <2>1 DEF TPc, TCalls, CallsMatch, LockHeld, Holding, LoopChannel, OnChannel,
      Subscribed, ClosingLast, Running, TSub, Procs, CancelSend, Go, Send
  <2>9. Numbered'
    BY <1>3, <2>1 DEF TPc, Numbered, TChans, TReg, TSub, TCon, Setting, Chans, CancelSend, Go,
      Send
  <2>10. ClosingLast'
    BY <1>3, <2>1 DEF TPc, ClosingLast, TCon, Running, LoopChannel, OnChannel, Subscribed,
      CancelSend, Go, Send
  <2>11. Crews'
    BY <1>3, <2>1 DEF TPc, Crews, TRun, Runs, LoopChannel, CancelSend, Go, Send
  <2>12. Leftovers'
    BY <1>3, <2>1 DEF TPc, Leftovers, Doomed, TSub, NoSub, Chans, Runs, Subscribed, Setting,
      Cancelling, CancelSend, Go, Send
  <2>13. Registered'
    BY <1>3, <2>1 DEF TPc, Registered, Subscribed, TSub, TReg, LoopChannel, OnChannel,
      CancelSend, Go, Send
  <2>14. NoLeakedChannel'
    BY <1>3, <2>1 DEF TPc, NoLeakedChannel, LoopChannel, OnChannel, Subscribed, ClosingLast,
      CallsMatch, TSub, TCalls, CancelSend, Go, Send
  <2> QED BY <2>2, <2>3, <2>4, <2>5, <2>6, <2>7, <2>8, <2>9, <2>10, <2>11, <2>12, <2>13, <2>14 DEF
    IInv
<1>4. CASE CancelTimeout(a)
  <2>1. \A c : Alive(c)' <=> Alive(c)
    BY <1>4 DEF Alive, CancelTimeout
  <2>2. pending' = pending
    BY <1>4, <2>1 DEF CancelTimeout, Mark, Leftovers, Cancelling
  <2>3. pc'[a] = "start" /\ loop' = loop /\ \A b \in Apps : b # a => pc'[b] = pc[b]
    BY <1>4 DEF CancelTimeout, Go, After, TPc
  <2>4. UNCHANGED <<env, chans, con, sub, old, run, users, stranded>>
    BY <1>4 DEF CancelTimeout
  <2>5. pc[a] \in Cancelling
    BY <1>4 DEF CancelTimeout, Cancelling
  <2>6. TWire' /\ TChans' /\ TReg' /\ TCalls' /\ TCon'
    BY <1>4, <2>1, <2>2, <2>3, <2>4, <2>5 DEF TWire, TChans, TReg, TCalls, TCon, LinkTypeOK,
      CancelTimeout
  <2>7. TRun' /\ TClose' /\ Drained'
    BY <1>4, <2>1, <2>2, <2>3, <2>4, <2>5 DEF TRun, TClose, Drained, CancelTimeout
  <2>8. TPc'
    BY <1>4, <2>1, <2>2, <2>3, <2>4, <2>5 DEF TPc, LoopPoints, AppPoints, CancelTimeout, Go,
      Mark, After, HolderBusy
  <2>9. TSub'
    BY <2>2, <2>4 DEF TSub
  <2>10. LoopChannel'
    BY <1>4, <2>1, <2>2, <2>3, <2>4, <2>5 DEF TPc, TSub, LoopChannel, TCon, TChans, TRun, Chans,
      Numbered, Setting, OnChannel, Subscribed, CancelTimeout, Go, Mark, After, HolderBusy
  <2>11. LockHeld'
    BY <1>4, <2>1, <2>2, <2>3, <2>4, <2>5 DEF TPc, LockHeld, Holding, TCalls, CancelTimeout, Go,
      Mark, After, HolderBusy
  <2>12. CallsMatch'
    BY <1>4, <2>1, <2>2, <2>3, <2>4, <2>5 DEF TPc, TCalls, CallsMatch, LockHeld, Holding,
      LoopChannel, OnChannel, Subscribed, ClosingLast, Running, TSub, Procs, CancelTimeout, Go,
      Mark, After, HolderBusy
  <2>13. Numbered'
    BY SMTT(30), <1>4, <2>1, <2>2, <2>3, <2>4, <2>5 DEF TPc, Numbered, TChans, TReg, TSub, TCon,
      Setting, Chans, CancelTimeout, Go, Mark, After, HolderBusy
  <2>14. ClosingLast'
    BY <1>4, <2>1, <2>2, <2>3, <2>4, <2>5 DEF TPc, ClosingLast, TCon, Running, LoopChannel,
      OnChannel, Subscribed, CancelTimeout, Go, Mark, After, HolderBusy
  <2>15. Crews'
    BY <2>1, <2>2, <2>3, <2>4, <2>5 DEF Crews, Cancelling
  <2>16. Leftovers'
    BY <1>4, <2>1, <2>2, <2>3, <2>4, <2>5 DEF TPc, Leftovers, Doomed, TSub, NoSub, Chans, Runs,
      Subscribed, Setting, Cancelling, CancelTimeout, Go, Mark, After, HolderBusy
  <2>17. Registered'
    BY <1>4, <2>1, <2>2, <2>3, <2>4 DEF CancelTimeout, Registered
  <2>18. NoLeakedChannel'
    BY <1>4, <2>1, <2>2, <2>3, <2>4, <2>5 DEF TPc, NoLeakedChannel, LoopChannel, OnChannel,
      Subscribed, ClosingLast, CallsMatch, TSub, TCalls, CancelTimeout, Go, Mark, After,
      HolderBusy
  <2> QED BY <2>6, <2>7, <2>8, <2>9, <2>10, <2>11, <2>12, <2>13, <2>14, <2>15, <2>16, <2>17,
      <2>18 DEF IInv
<1>5. CASE CancelReply(a)
  <2>1. \A c : Alive(c)' <=> Alive(c)
    BY <1>5 DEF Alive, CancelReply
  <2>2. Failed(a, sub[a][1]) /\ UNCHANGED reg /\ Mark(a) /\ pc[a] = "cancelCall"
    BY <1>5 DEF CancelReply, Answered, Leftovers, Doomed, Cancelling
  <2>3. pending' = pending
    BY <2>2 DEF Mark, Leftovers, Cancelling
  <2>4. pc'[a] = "start" /\ loop' = loop /\ \A b \in Apps : b # a => pc'[b] = pc[b]
    BY <1>5 DEF CancelReply, Go, After, TPc
  <2>5. UNCHANGED <<env, chans, con, sub, old, run, users, stranded>>
    BY <1>5 DEF CancelReply
  <2>6. pc[a] \in Cancelling
    BY <1>5 DEF CancelReply, Cancelling
  <2>7. TWire' /\ TChans' /\ TCon' /\ TRun' /\ TClose'
    BY <1>5, <2>1, <2>2, <2>3, <2>4, <2>5, <2>6 DEF TWire, TChans, TCon, TRun, TClose,
      LinkTypeOK, CancelReply
  <2>8. Drained'
    BY <1>5, <2>1, <2>2, <2>3, <2>4, <2>5, <2>6 DEF Drained, CancelReply
  <2>9. TReg'
    BY <2>2 DEF TReg
  <2>10. TCalls'
    BY <1>5, <2>1, <2>2, <2>3, <2>4, <2>5, <2>6 DEF TCalls, Procs, CancelReply, Go, Mark,
      Forget, After, Answered, Failed, Return
  <2>11. TPc'
    BY <1>5, <2>1, <2>2, <2>3, <2>4, <2>5, <2>6 DEF TPc, LoopPoints, AppPoints, CancelReply, Go,
      Mark, Forget, After, Answered, Failed, Return
  <2>12. TSub'
    BY <2>3, <2>5 DEF TSub
  <2>13. LoopChannel'
    BY <1>5, <2>1, <2>2, <2>3, <2>4, <2>5, <2>6 DEF TPc, TSub, LoopChannel, TCon, TChans, TRun,
      Chans, Numbered, Setting, OnChannel, Subscribed, CancelReply, Go, Mark, Forget, After,
      Answered, Failed, Return
  <2>14. LockHeld'
    BY <1>5, <2>1, <2>2, <2>3, <2>4, <2>5, <2>6 DEF TPc, LockHeld, Holding, TCalls, CancelReply,
      Go, Mark, Forget, After, Answered, Failed, Return
  <2>15. CallsMatch'
    BY <1>5, <2>1, <2>2, <2>3, <2>4, <2>5, <2>6 DEF TPc, TCalls, CallsMatch, LockHeld, Holding,
      LoopChannel, OnChannel, Subscribed, ClosingLast, Running, TSub, Procs, CancelReply, Go,
      Mark, Forget, After, Answered, Failed, Return
  <2>16. Numbered'
    BY <2>1, <2>2, <2>3, <2>4, <2>5, <2>6 DEF Numbered
  <2>17. ClosingLast'
    BY <1>5, <2>1, <2>2, <2>3, <2>4, <2>5, <2>6 DEF TPc, ClosingLast, TCon, Running,
      LoopChannel, OnChannel, Subscribed, CancelReply, Go, Mark, Forget, After, Answered,
      Failed, Return
  <2>18. Crews'
    BY <2>1, <2>2, <2>3, <2>4, <2>5, <2>6 DEF Crews, Cancelling
  <2>19. Leftovers'
    BY <2>1, <2>2, <2>3, <2>4, <2>5, <2>6 DEF Leftovers, Doomed, Cancelling
  <2>20. Registered'
    BY <2>1, <2>2, <2>3, <2>4, <2>5, <2>6 DEF Registered
  <2>21. NoLeakedChannel'
    BY <1>5, <2>1, <2>2, <2>3, <2>4, <2>5, <2>6 DEF TPc, NoLeakedChannel, LoopChannel,
      OnChannel, Subscribed, ClosingLast, CallsMatch, TSub, TCalls, CancelReply, Go, Mark,
      Forget, After, Answered, Failed, Return
  <2> QED BY <2>7, <2>8, <2>9, <2>10, <2>11, <2>12, <2>13, <2>14, <2>15, <2>16, <2>17, <2>18,
      <2>19, <2>20, <2>21 DEF IInv
<1> QED BY <1>1, <1>2, <1>3, <1>4, <1>5 DEF CancelStep

(* Consume and Start, up to the loop and the handlers they start.            *)
LEMMA AppIInv ==
    ASSUME IInv, NEW a \in Apps, AppNext(a)
    PROVE  IInv'
<1> USE ConsumerAssumption, LinkAssumption DEF IInv, env, linkVars, chans, con, rpcs, local,
  loopCtx, users, work, closing, loop, fresh
<1>1. CASE Consume(a)
  <2>1. \A c : Alive(c)' <=> Alive(c)
    BY <1>1 DEF Alive, Consume
  <2>2. pending \in (0..MaxChan) \X (0..MaxRun) /\ sub'[a] = pending
    /\ \A b \in Apps \cup {"loop"} : b # a => sub'[b] = sub[b]
    BY <1>1 DEF Consume, TSub, NoSub, Chans, Runs
  <2>3. sub'["loop"] = sub["loop"] /\ \A b \in Apps : b # a => sub'[b] = sub[b]
    BY <2>2
  <2>4. TWire' /\ TChans' /\ TReg' /\ TCalls' /\ TCon'
    BY <1>1, <2>1, <2>2, <2>3 DEF TWire, TChans, TReg, TCalls, TCon, LinkTypeOK, Consume
  <2>5. TRun' /\ TClose' /\ Drained'
    BY <1>1, <2>1, <2>2, <2>3 DEF TRun, TClose, Drained, Consume
  <2>6. TPc'
    BY <1>1, <2>1, <2>2, <2>3 DEF TPc, LoopPoints, AppPoints, Consume, Go
  <2>7. TSub'
    BY <1>1, <2>2 DEF Consume, TSub
  <2>8. LoopChannel'
    BY <1>1, <2>1, <2>2, <2>3 DEF TPc, TSub, LoopChannel, TCon, TChans, TRun, Chans, Numbered,
      Setting, OnChannel, Subscribed, Consume, Go
  <2>9. LockHeld'
    BY <1>1, <2>1, <2>2, <2>3 DEF TPc, LockHeld, Holding, TCalls, Consume, Go
  <2>10. CallsMatch'
    BY <1>1, <2>1, <2>2, <2>3 DEF TPc, TCalls, CallsMatch, LockHeld, Holding, LoopChannel,
      OnChannel, Subscribed, ClosingLast, Running, TSub, Procs, Consume, Go
  <2>11. Numbered'
    BY <1>1, <2>1, <2>2, <2>3 DEF TPc, Numbered, TChans, TReg, TSub, TCon, Setting, Chans,
      Consume, Go
  <2>12. ClosingLast'
    BY <1>1, <2>1, <2>2, <2>3 DEF TPc, ClosingLast, TCon, Running, LoopChannel, OnChannel,
      Subscribed, Consume, Go
  <2>13. Crews'
    BY <1>1, <2>1, <2>2, <2>3 DEF TPc, Crews, TRun, Runs, LoopChannel, Consume, Go
  <2>14. Leftovers'
    BY <1>1, <2>1, <2>2, <2>3 DEF TPc, Leftovers, Doomed, TSub, NoSub, Chans, Runs, Subscribed,
      Setting, Cancelling, Consume, Go
  <2>15. Registered'
    BY <1>1, <2>1, <2>2, <2>3 DEF TPc, Registered, Subscribed, TSub, TReg, LoopChannel,
      OnChannel, Consume, Go
  <2>16. NoLeakedChannel'
    BY <1>1, <2>1, <2>2, <2>3 DEF TPc, NoLeakedChannel, LoopChannel, OnChannel, Subscribed,
      ClosingLast, CallsMatch, TSub, TCalls, Consume, Go
  <2> QED BY <2>4, <2>5, <2>6, <2>7, <2>8, <2>9, <2>10, <2>11, <2>12, <2>13, <2>14, <2>15,
      <2>16 DEF IInv
<1>2. CASE Refused(a)
  <2>1. \A c : Alive(c)' <=> Alive(c)
    BY <1>2 DEF Alive, Refused
  <2>2. sub'[a] = NoSub /\ \A b \in Apps \cup {"loop"} : b # a => sub'[b] = sub[b]
    BY <1>2 DEF Refused, TSub
  <2>3. loop' = loop /\ opened' = opened /\ current' = current /\ pending' = pending
    BY <1>2 DEF Refused, Go, TPc
  <2>4. TWire' /\ TChans' /\ TReg' /\ TCalls' /\ TCon'
    BY <1>2, <2>1, <2>2, <2>3 DEF TWire, TChans, TReg, TCalls, TCon, LinkTypeOK, Refused
  <2>5. TRun' /\ TClose' /\ Drained'
    BY <1>2, <2>1, <2>2, <2>3 DEF TRun, TClose, Drained, Refused
  <2>6. TPc'
    BY <1>2, <2>1, <2>2, <2>3 DEF TPc, LoopPoints, AppPoints, Refused, Go
  <2>7. TSub'
    BY <1>2, <2>1, <2>2, <2>3 DEF TSub, TCon, TChans, TPc, LoopChannel, OnChannel, Leftovers,
      Cancelling, NoSub, Chans, Runs, Refused, Go
  <2>8. LoopChannel'
    BY <1>2, <2>1, <2>2, <2>3 DEF TPc, TSub, LoopChannel, TCon, TChans, TRun, Chans, Numbered,
      Setting, OnChannel, Subscribed, Refused, Go
  <2>9. LockHeld'
    BY <1>2, <2>1, <2>2, <2>3 DEF TPc, LockHeld, Holding, TCalls, Refused, Go
  <2>10. CallsMatch'
    BY <1>2, <2>1, <2>2, <2>3 DEF TPc, TCalls, CallsMatch, LockHeld, Holding, LoopChannel,
      OnChannel, Subscribed, ClosingLast, Running, TSub, Procs, Refused, Go
  <2>11. Numbered'
    <3>1. UNCHANGED <<home, gen, state, reg>> BY <1>2 DEF Refused
    <3>2. NoSub[1] = 0 /\ opened \in Nat /\ opened > 0 BY DEF NoSub, TChans, Chans
    <3>3. QED BY <2>2, <2>3, <3>1, <3>2 DEF Numbered
  <2>12. ClosingLast'
    BY <1>2, <2>1, <2>2, <2>3 DEF TPc, ClosingLast, TCon, Running, LoopChannel, OnChannel,
      Subscribed, Refused, Go
  <2>13. Crews'
    BY <1>2, <2>1, <2>2, <2>3 DEF TPc, Crews, TRun, Runs, LoopChannel, Refused, Go
  <2>14. Leftovers'
    BY <1>2, <2>1, <2>2, <2>3 DEF TPc, Leftovers, Doomed, TSub, NoSub, Chans, Runs, Subscribed,
      Setting, Cancelling, Refused, Go
  <2>15. Registered'
    BY <1>2, <2>1, <2>2, <2>3 DEF TPc, Registered, Subscribed, TSub, TReg, LoopChannel,
      OnChannel, Refused, Go
  <2>16. NoLeakedChannel'
    BY <1>2, <2>1, <2>2, <2>3 DEF TPc, NoLeakedChannel, LoopChannel, OnChannel, Subscribed,
      ClosingLast, CallsMatch, TSub, TCalls, Refused, Go
  <2> QED BY <2>4, <2>5, <2>6, <2>7, <2>8, <2>9, <2>10, <2>11, <2>12, <2>13, <2>14, <2>15,
      <2>16 DEF IInv
<1>3. CASE Start(a)
  <2>1. \A c : Alive(c)' <=> Alive(c)
    BY <1>3 DEF Alive, Start
  <2>2. /\ run \in Nat /\ run' = run + 1 /\ run + 1 \in Runs /\ ~closed
    /\ loop \in {"none", "done"}
        /\ TagOf(run + 1) # pending[2] /\ pc[a] = "start"
    BY <1>3 DEF Start, Running, TRun, Runs, TPc
  <2>3. /\ pc' \in [Apps \cup {"loop"} -> LoopPoints \cup AppPoints] /\ pc'[a] = "add"
        /\ loop' = "top" /\ \A b \in Apps : b # a => pc'[b] = pc[b]
    BY <1>3 DEF Start, TPc, LoopPoints, AppPoints
  <2>4. TagOf(run + 1) \in Runs /\ TagOf(run)' = TagOf(run + 1)
    BY <2>2 DEF TagOf, Runs
  <2>5. sub'["loop"] = <<0, TagOf(run + 1)>> /\ sub'[a] = NoSub /\ \A b \in Apps : b # a =>
    sub'[b] = sub[b]
    BY <1>3 DEF Start, TSub
  <2>6. sub' \in [Apps \cup {"loop"} -> (0..MaxChan) \X (0..MaxRun)]
    BY <1>3, <2>4 DEF Start, TSub, NoSub, Runs
  <2>7. mine' \in [Apps -> 0..MaxRun] /\ mine'[a] = run + 1 /\ \A b \in Apps : b # a =>
    mine'[b] = mine[b]
    BY <1>3, <2>2 DEF Start, TRun, Runs
  <2>8. UNCHANGED <<env, chans, reg, rpcs, con, pending, old, ctxDone, idle, busy, closing,
    stranded>>
        /\ cancelled' \in BOOLEAN
    BY <1>3 DEF Start
  <2>9. NoSub[1] = 0 /\ sub'["loop"][1] = 0 /\ sub'["loop"][2] = TagOf(run + 1)
    BY <2>5 DEF NoSub
  <2>10. TWire' /\ TChans' /\ TReg' /\ TCalls' /\ TCon'
    BY <1>3, <2>1, <2>2, <2>3, <2>4, <2>5, <2>6, <2>7, <2>8, <2>9 DEF TWire, TChans, TReg,
      TCalls, TCon, LinkTypeOK, Start
  <2>11. TClose' /\ Drained'
    BY <1>3, <2>1, <2>2, <2>3, <2>4, <2>5, <2>6, <2>7, <2>8, <2>9 DEF TClose, Drained, Start
  <2>12. TPc'
    BY <2>1, <2>2, <2>3, <2>4, <2>5, <2>6, <2>7, <2>8, <2>9 DEF TPc, LoopPoints, AppPoints
  <2>13. TSub'
    BY <2>1, <2>2, <2>3, <2>4, <2>5, <2>6, <2>7, <2>8, <2>9 DEF TSub
  <2>14. TRun'
    <3>1. run' \in 0..MaxRun BY <2>2 DEF Runs
    <3>2. QED BY <2>7, <2>8, <3>1 DEF TRun
  <2>15. LoopChannel'
    BY <2>1, <2>2, <2>3, <2>4, <2>5, <2>6, <2>7, <2>8, <2>9 DEF LoopChannel, OnChannel,
      Subscribed
  <2>16. LockHeld'
    BY <2>1, <2>2, <2>3, <2>4, <2>5, <2>6, <2>7, <2>8, <2>9 DEF LockHeld, Holding
  <2>17. CallsMatch'
    BY <2>1, <2>2, <2>3, <2>4, <2>5, <2>6, <2>7, <2>8, <2>9 DEF CallsMatch, ClosingLast
  <2>18. Numbered'
    <3>1. UNCHANGED <<home, gen, state, opened, reg, current, pending>>
      BY <2>8
    <3>2. opened \in Nat BY DEF TChans, Chans
    <3>3. \A b \in Apps : sub'[b][1] <= opened BY <2>5, <2>9, <3>2 DEF Numbered
    <3>4. loop' \notin Setting BY <2>3 DEF Setting
    <3>5. QED BY <3>1, <3>3, <3>4 DEF Numbered
  <2>19. ClosingLast'
    BY <2>1, <2>2, <2>3, <2>4, <2>5, <2>6, <2>7, <2>8, <2>9 DEF ClosingLast
  <2>20. Crews'
    <3>1. mine[a] = 0 /\ \A b \in Apps : mine[b] \in 0..MaxRun /\ mine[b] <= run
      BY <2>2 DEF Crews, TRun
    <3>2. \A b \in Apps : mine'[b] <= run' /\ (pc'[b] \in {"add", "serving"} <=> mine'[b] # 0)
      BY <2>2, <2>3, <2>7, <3>1 DEF Crews
    <3>3. \A b, c \in Apps : mine'[b] = mine'[c] /\ mine'[b] # 0 => b = c
      BY <2>2, <2>7, <3>1 DEF Crews
    <3>4. \A r \in Runs : r > run' => idle'[r] = 0 /\ busy'[r] = 0
      BY <2>2, <2>8 DEF Crews, Runs
    <3>5. \A b \in Apps : pc'[b] = "add" => idle'[mine'[b]] = 0 /\ busy'[mine'[b]] = 0
      BY <2>2, <2>3, <2>7, <2>8 DEF Crews
    <3>6. QED BY <2>8, <3>2, <3>3, <3>4, <3>5 DEF Crews
  <2>21. Leftovers'
    BY <2>1, <2>2, <2>3, <2>4, <2>5, <2>6, <2>7, <2>8, <2>9 DEF Leftovers, Doomed, Subscribed,
      Setting, Cancelling
  <2>22. Registered'
    <3>1. \A c \in Chans, t \in Runs : Alive(c) /\ t \in reg[c] => pending = <<c, t>>
      BY <2>2 DEF Registered, Subscribed
    <3>2. \A c \in Chans : Alive(c) => TagOf(run + 1) \notin reg[c] BY <2>2, <2>4, <3>1
    <3>3. QED BY <2>1, <2>2, <2>3, <2>4, <2>5, <2>6, <2>7, <2>8, <2>9, <3>1, <3>2 DEF Registered
  <2>23. NoLeakedChannel'
    BY <2>1, <2>2, <2>3, <2>4, <2>5, <2>6, <2>7, <2>8, <2>9 DEF NoLeakedChannel
  <2> QED BY <2>10, <2>11, <2>12, <2>13, <2>14, <2>15, <2>16, <2>17, <2>18, <2>19, <2>20,
      <2>21, <2>22, <2>23 DEF IInv
<1>4. CASE Add(a)
  <2>1. \A c : Alive(c)' <=> Alive(c)
    BY <1>4 DEF Alive, Add
  <2>2. pc[a] = "add" /\ mine[a] # 0 /\ mine[a] \in 0..MaxRun /\ idle[mine[a]] = 0
    /\ busy[mine[a]] = 0
    BY <1>4 DEF Add, Crews, TRun
  <2>3. mine[a] \in Runs /\ mine[a] <= run
    BY <2>2 DEF Runs, Crews
  <2>4. UNCHANGED <<run, busy, cancelled, ctxDone>> /\ \A b \in Apps : b # a => pc'[b] = pc[b]
    BY <1>4 DEF Add, Go, TPc
  <2>5. \/ pc'[a] = "idle" /\ mine' = [mine EXCEPT ![a] = 0] /\ idle' = idle
        \/ pc'[a] = "serving" /\ mine' = mine /\ idle' = [idle EXCEPT ![mine[a]] = Concurrency]
    BY <1>4 DEF Add, Go, TPc
  <2>6. TWire' /\ TChans' /\ TReg' /\ TCalls' /\ TCon'
    BY <1>4, <2>1, <2>2, <2>3, <2>4, <2>5 DEF TWire, TChans, TReg, TCalls, TCon, LinkTypeOK, Add
  <2>7. TSub' /\ TClose'
    BY <1>4, <2>1, <2>2, <2>3, <2>4, <2>5 DEF TSub, TClose, Add
  <2>8. TPc'
    BY <1>4, <2>1, <2>2, <2>3, <2>4, <2>5 DEF TPc, LoopPoints, AppPoints, Add, Go
  <2>9. TRun'
    BY <2>1, <2>2, <2>3, <2>4, <2>5 DEF TRun
  <2>10. LoopChannel'
    BY SMTT(30), <1>4, <2>1, <2>2, <2>3, <2>4, <2>5 DEF TPc, TSub, LoopChannel, TCon, TChans,
      TRun, Chans, Numbered, Setting, OnChannel, Subscribed, Add, Go
  <2>11. LockHeld'
    BY <1>4, <2>1, <2>2, <2>3, <2>4, <2>5 DEF TPc, LockHeld, Holding, TCalls, Add, Go
  <2>12. CallsMatch'
    BY <1>4, <2>1, <2>2, <2>3, <2>4, <2>5 DEF TPc, TCalls, CallsMatch, LockHeld, Holding,
      LoopChannel, OnChannel, Subscribed, ClosingLast, Running, TSub, Procs, Add, Go
  <2>13. Numbered'
    BY <1>4, <2>1, <2>2, <2>3, <2>4, <2>5 DEF TPc, Numbered, TChans, TReg, TSub, TCon, Setting,
      Chans, Add, Go
  <2>14. ClosingLast'
    BY <1>4, <2>1, <2>2, <2>3, <2>4, <2>5 DEF TPc, ClosingLast, TCon, Running, LoopChannel,
      OnChannel, Subscribed, Add, Go
  <2>15. Crews'
    <3>1. CASE pc'[a] = "idle" /\ mine' = [mine EXCEPT ![a] = 0] /\ idle' = idle
      <4>1. mine'[a] = 0 /\ \A b \in Apps : b # a => mine'[b] = mine[b] BY <3>1 DEF TRun
      <4>2. QED BY <2>1, <2>2, <2>3, <2>4, <2>5, <3>1, <4>1 DEF Crews, TRun
    <3>2. CASE pc'[a] = "serving" /\ mine' = mine
      /\ idle' = [idle EXCEPT ![mine[a]] = Concurrency]
      <4>1. idle'[mine[a]] = Concurrency /\ \A r \in Runs : r # mine[a] => idle'[r] = idle[r]
        BY <2>3, <3>2 DEF TRun
      <4>2. \A r \in Runs : r > run => r # mine[a] BY <2>3 DEF Runs, TRun
      <4>3. \A r \in Runs : idle'[r] + busy'[r] <= Concurrency BY <2>2, <2>4, <4>1 DEF Crews
      <4>4. ASSUME NEW b \in Apps, pc'[b] = "add" PROVE idle'[mine[b]] = 0 /\ busy[mine[b]] = 0
        <5>1. b # a /\ pc[b] = "add" BY <2>4, <3>2, <4>4
        <5>2. mine[b] # mine[a] /\ mine[b] # 0 /\ mine[b] \in 0..MaxRun BY <2>2, <5>1 DEF Crews,
          TRun
        <5>3. mine[b] \in Runs BY <5>2 DEF Runs
        <5>4. QED BY <4>1, <5>1, <5>2, <5>3 DEF Crews
      <4>5. \A b \in Apps : pc'[b] \in {"add", "serving"} <=> mine[b] # 0
        BY <2>2, <2>4, <3>2 DEF Crews
      <4>6. QED BY <2>4, <3>2, <4>1, <4>2, <4>3, <4>4, <4>5 DEF Crews
    <3>3. QED BY <2>5, <3>1, <3>2
  <2>16. Drained'
    BY <1>4, <2>1, <2>2, <2>3, <2>4, <2>5 DEF Drained, ClosingLast, NoHandlers, TRun, Add, Go
  <2>17. Leftovers'
    BY <1>4, <2>1, <2>2, <2>3, <2>4, <2>5 DEF TPc, Leftovers, Doomed, TSub, NoSub, Chans, Runs,
      Subscribed, Setting, Cancelling, Add, Go
  <2>18. Registered'
    BY <1>4, <2>1, <2>2, <2>3, <2>4, <2>5 DEF TPc, Registered, Subscribed, TSub, TReg,
      LoopChannel, OnChannel, Add, Go
  <2>19. NoLeakedChannel'
    BY <1>4, <2>1, <2>2, <2>3, <2>4, <2>5 DEF TPc, NoLeakedChannel, LoopChannel, OnChannel,
      Subscribed, ClosingLast, CallsMatch, TSub, TCalls, Add, Go
  <2> QED BY <2>6, <2>7, <2>8, <2>9, <2>10, <2>11, <2>12, <2>13, <2>14, <2>15, <2>16, <2>17,
      <2>18, <2>19 DEF IInv
<1>5. CASE ConsumeReturns(a)
  <2>1. \A c : Alive(c)' <=> Alive(c)
    BY <1>5 DEF Alive, ConsumeReturns
  <2>2. pc[a] = "serving" /\ pc'[a] = "idle" /\ mine' = [mine EXCEPT ![a] = 0]
        /\ UNCHANGED <<run, idle, busy, cancelled, ctxDone>> /\ \A b \in Apps : b # a =>
             pc'[b] = pc[b]
    BY <1>5 DEF ConsumeReturns, Go, TPc
  <2>3. mine'[a] = 0 /\ \A b \in Apps : b # a => mine'[b] = mine[b]
    BY <2>2 DEF TRun
  <2>4. TWire' /\ TChans' /\ TReg' /\ TCalls' /\ TCon'
    BY <1>5, <2>1, <2>2, <2>3 DEF TWire, TChans, TReg, TCalls, TCon, LinkTypeOK, ConsumeReturns
  <2>5. TSub' /\ TClose' /\ Drained'
    BY <1>5, <2>1, <2>2, <2>3 DEF TSub, TClose, Drained, ConsumeReturns
  <2>6. TPc'
    BY <1>5, <2>1, <2>2, <2>3 DEF TPc, LoopPoints, AppPoints, ConsumeReturns, Go
  <2>7. TRun'
    BY <2>1, <2>2, <2>3 DEF TRun
  <2>8. LoopChannel'
    BY <1>5, <2>1, <2>2, <2>3 DEF TPc, TSub, LoopChannel, TCon, TChans, TRun, Chans, Numbered,
      Setting, OnChannel, Subscribed, ConsumeReturns, Go
  <2>9. LockHeld'
    BY <1>5, <2>1, <2>2, <2>3 DEF TPc, LockHeld, Holding, TCalls, ConsumeReturns, Go
  <2>10. CallsMatch'
    BY <1>5, <2>1, <2>2, <2>3 DEF TPc, TCalls, CallsMatch, LockHeld, Holding, LoopChannel,
      OnChannel, Subscribed, ClosingLast, Running, TSub, Procs, ConsumeReturns, Go
  <2>11. Numbered'
    BY <1>5, <2>1, <2>2, <2>3 DEF TPc, Numbered, TChans, TReg, TSub, TCon, Setting, Chans,
      ConsumeReturns, Go
  <2>12. ClosingLast'
    BY <1>5, <2>1, <2>2, <2>3 DEF TPc, ClosingLast, TCon, Running, LoopChannel, OnChannel,
      Subscribed, ConsumeReturns, Go
  <2>13. Crews'
    BY <2>1, <2>2, <2>3 DEF Crews, TRun
  <2>14. Leftovers'
    BY <1>5, <2>1, <2>2, <2>3 DEF TPc, Leftovers, Doomed, TSub, NoSub, Chans, Runs, Subscribed,
      Setting, Cancelling, ConsumeReturns, Go
  <2>15. Registered'
    BY <1>5, <2>1, <2>2, <2>3 DEF TPc, Registered, Subscribed, TSub, TReg, LoopChannel,
      OnChannel, ConsumeReturns, Go
  <2>16. NoLeakedChannel'
    BY <1>5, <2>1, <2>2, <2>3 DEF TPc, NoLeakedChannel, LoopChannel, OnChannel, Subscribed,
      ClosingLast, CallsMatch, TSub, TCalls, ConsumeReturns, Go
  <2> QED BY <2>4, <2>5, <2>6, <2>7, <2>8, <2>9, <2>10, <2>11, <2>12, <2>13, <2>14, <2>15,
      <2>16 DEF IInv
<1> QED BY <1>1, <1>2, <1>3, <1>4, <1>5 DEF AppNext, AppStep

(* The handlers of one Consume, and the end of its context.                  *)
LEMMA HandlerIInv ==
    ASSUME IInv, NEW r \in Runs, HandlerNext(r) \/ UserCancels(r)
    PROVE  IInv'
<1> USE ConsumerAssumption, LinkAssumption DEF IInv, env, linkVars, chans, con, rpcs, local,
  loopCtx, users, work, closing, loop, fresh
<1>1. CASE Handled(r)
  <2>1. \A c : Alive(c)' <=> Alive(c)
    BY <1>1 DEF Alive, Handled
  <2>2. idle[r] \in 0..Concurrency /\ busy[r] \in 0..Concurrency
    /\ idle[r] + busy[r] <= Concurrency
    BY DEF Crews, TRun
  <2>3. UNCHANGED <<mine, run, pc, ctxDone, cancelled>>
        /\ idle' = [idle EXCEPT ![r] = idle[r] + 1] /\ busy[r] > 0
        /\ busy' = [busy EXCEPT ![r] = busy[r] - 1]
    BY <1>1 DEF Handled
  <2>4. idle[r] + 1 \in 0..Concurrency /\ busy[r] - 1 \in 0..Concurrency
    BY <2>2, <2>3
  <2>5. idle' \in [Runs -> 0..Concurrency] /\ busy' \in [Runs -> 0..Concurrency]
    BY <2>3, <2>4 DEF TRun
  <2>6. \A k \in Runs : k # r => idle'[k] = idle[k] /\ busy'[k] = busy[k]
    BY <2>3 DEF TRun
  <2>7. idle'[r] + busy'[r] <= Concurrency
    BY <2>2, <2>3 DEF TRun
  <2>8. r <= run
    BY <2>2, <2>3 DEF Crews, TRun, Runs
  <2>9. \A b \in Apps : pc[b] = "add" => mine[b] \in 0..MaxRun /\ mine[b] # 0 /\ mine[b] # r
    BY <2>2, <2>3 DEF Crews, TRun
  <2>10. \A b \in Apps : pc[b] = "add" => mine[b] \in Runs
    BY <2>9 DEF Runs
  <2>11. TWire' /\ TChans' /\ TReg' /\ TCalls' /\ TCon'
    BY <1>1, <2>1, <2>2, <2>3, <2>4, <2>5, <2>6, <2>7, <2>8, <2>9, <2>10 DEF TWire, TChans,
      TReg, TCalls, TCon, LinkTypeOK, Handled
  <2>12. TPc' /\ TSub' /\ TClose' /\ LoopChannel' /\ LockHeld'
    BY <1>1, <2>1, <2>2, <2>3, <2>4, <2>5, <2>6, <2>7, <2>8, <2>9, <2>10 DEF TPc, TSub, TClose,
      LoopChannel, LockHeld, Handled
  <2>13. CallsMatch' /\ Numbered' /\ ClosingLast' /\ Leftovers' /\ Registered'
    BY <1>1, <2>1, <2>2, <2>3, <2>4, <2>5, <2>6, <2>7, <2>8, <2>9, <2>10 DEF CallsMatch,
      Numbered, ClosingLast, Leftovers, Registered, Running, Doomed, Handled
  <2>14. NoLeakedChannel'
    BY <1>1, <2>1, <2>2, <2>3, <2>4, <2>5, <2>6, <2>7, <2>8, <2>9, <2>10 DEF NoLeakedChannel,
      Handled
  <2>15. TRun'
    BY <2>3, <2>5 DEF TRun
  <2>16. Crews'
    BY <2>3, <2>6, <2>7, <2>8, <2>9, <2>10 DEF Crews
  <2>17. Drained'
    BY <1>1, <2>1, <2>2, <2>3, <2>4, <2>5, <2>6, <2>7, <2>8, <2>9, <2>10 DEF Drained,
      ClosingLast, NoHandlers, TRun, Handled
  <2> QED BY <2>11, <2>12, <2>13, <2>14, <2>15, <2>16, <2>17 DEF IInv
<1>2. CASE HandlerLeaves(r)
  <2>1. \A c : Alive(c)' <=> Alive(c)
    BY <1>2 DEF Alive, HandlerLeaves
  <2>2. idle[r] \in 0..Concurrency /\ busy[r] \in 0..Concurrency
    /\ idle[r] + busy[r] <= Concurrency
    BY DEF Crews, TRun
  <2>3. UNCHANGED <<mine, run, pc, ctxDone, cancelled>>
        /\ idle' = [idle EXCEPT ![r] = idle[r] - 1] /\ idle[r] > 0 /\ busy' = busy
    BY <1>2 DEF HandlerLeaves
  <2>4. idle[r] - 1 \in 0..Concurrency
    BY <2>2, <2>3
  <2>5. idle' \in [Runs -> 0..Concurrency] /\ busy' \in [Runs -> 0..Concurrency]
    BY <2>3, <2>4 DEF TRun
  <2>6. \A k \in Runs : k # r => idle'[k] = idle[k] /\ busy'[k] = busy[k]
    BY <2>3 DEF TRun
  <2>7. idle'[r] + busy'[r] <= Concurrency
    BY <2>2, <2>3 DEF TRun
  <2>8. r <= run
    BY <2>2, <2>3 DEF Crews, TRun, Runs
  <2>9. \A b \in Apps : pc[b] = "add" => mine[b] \in 0..MaxRun /\ mine[b] # 0 /\ mine[b] # r
    BY <2>2, <2>3 DEF Crews, TRun
  <2>10. \A b \in Apps : pc[b] = "add" => mine[b] \in Runs
    BY <2>9 DEF Runs
  <2>11. TWire' /\ TChans' /\ TReg' /\ TCalls' /\ TCon'
    BY <1>2, <2>1, <2>2, <2>3, <2>4, <2>5, <2>6, <2>7, <2>8, <2>9, <2>10 DEF TWire, TChans,
      TReg, TCalls, TCon, LinkTypeOK, HandlerLeaves
  <2>12. TPc' /\ TSub' /\ TClose' /\ LoopChannel' /\ LockHeld'
    BY <1>2, <2>1, <2>2, <2>3, <2>4, <2>5, <2>6, <2>7, <2>8, <2>9, <2>10 DEF TPc, TSub, TClose,
      LoopChannel, LockHeld, HandlerLeaves
  <2>13. CallsMatch' /\ Numbered' /\ ClosingLast' /\ Leftovers' /\ Registered'
    BY <1>2, <2>1, <2>2, <2>3, <2>4, <2>5, <2>6, <2>7, <2>8, <2>9, <2>10 DEF CallsMatch,
      Numbered, ClosingLast, Leftovers, Registered, Running, Doomed, HandlerLeaves
  <2>14. NoLeakedChannel'
    BY <1>2, <2>1, <2>2, <2>3, <2>4, <2>5, <2>6, <2>7, <2>8, <2>9, <2>10 DEF NoLeakedChannel,
      HandlerLeaves
  <2>15. TRun'
    BY <2>3, <2>5 DEF TRun
  <2>16. Crews'
    BY <2>3, <2>6, <2>7, <2>8, <2>9, <2>10 DEF Crews
  <2>17. Drained'
    BY <1>2, <2>1, <2>2, <2>3, <2>4, <2>5, <2>6, <2>7, <2>8, <2>9, <2>10 DEF Drained,
      ClosingLast, NoHandlers, TRun, HandlerLeaves
  <2> QED BY <2>11, <2>12, <2>13, <2>14, <2>15, <2>16, <2>17 DEF IInv
<1>3. CASE UserCancels(r)
  <2>1. \A c : Alive(c)' <=> Alive(c)
    BY <1>3 DEF Alive, UserCancels
  <2>2. TWire' /\ TChans' /\ TReg' /\ TCalls' /\ TCon'
    BY <1>3, <2>1 DEF TWire, TChans, TReg, TCalls, TCon, LinkTypeOK, UserCancels
  <2>3. TPc' /\ TSub' /\ TClose' /\ LoopChannel' /\ LockHeld'
    BY <1>3, <2>1 DEF TPc, TSub, TClose, LoopChannel, LockHeld, UserCancels
  <2>4. CallsMatch' /\ Numbered' /\ ClosingLast' /\ Crews' /\ Drained'
    BY <1>3, <2>1 DEF CallsMatch, Numbered, ClosingLast, Crews, Drained, Running, UserCancels
  <2>5. Leftovers' /\ Registered' /\ NoLeakedChannel'
    BY <1>3, <2>1 DEF Leftovers, Registered, NoLeakedChannel, Doomed, UserCancels
  <2>6. TRun'
    BY <1>3, <2>1 DEF TRun, TPc, Crews, LoopChannel, Runs, NoHandlers, UserCancels
  <2> QED BY <2>2, <2>3, <2>4, <2>5, <2>6 DEF IInv
<1> QED BY <1>1, <1>2, <1>3 DEF HandlerNext

(* Stop and CloseWithContext.                                                *)
LEMMA CloseIInv ==
    ASSUME IInv, Stop \/ Close \/ CloseNext
    PROVE  IInv'
<1> USE ConsumerAssumption, LinkAssumption DEF IInv, env, linkVars, chans, con, rpcs, local,
  loopCtx, users, work, closing, loop, fresh
<1>1. CASE Stop
  <2>1. \A c : Alive(c)' <=> Alive(c)
    BY <1>1 DEF Alive, Stop
  <2>2. TWire' /\ TChans' /\ TReg' /\ TCalls' /\ TCon'
    BY <1>1, <2>1 DEF TWire, TChans, TReg, TCalls, TCon, LinkTypeOK, Stop
  <2>3. TPc' /\ TSub' /\ TClose' /\ LoopChannel' /\ LockHeld'
    BY <1>1, <2>1 DEF TPc, TSub, TClose, LoopChannel, LockHeld, Stop
  <2>4. CallsMatch' /\ Numbered' /\ ClosingLast' /\ Crews' /\ Drained'
    BY <1>1, <2>1 DEF CallsMatch, Numbered, ClosingLast, Crews, Drained, Running, Stop
  <2>5. Leftovers' /\ Registered' /\ NoLeakedChannel'
    BY <1>1, <2>1 DEF Leftovers, Registered, NoLeakedChannel, Doomed, Stop
  <2>6. TRun'
    BY <1>1, <2>1 DEF TRun, TPc, Crews, LoopChannel, Runs, NoHandlers, Stop
  <2> QED BY <2>2, <2>3, <2>4, <2>5, <2>6 DEF IInv
<1>2. CASE Close
  <2>1. \A c : Alive(c)' <=> Alive(c)
    BY <1>2 DEF Alive, Close, Unsubscribe
  <2>2. TChans' /\ TReg' /\ TCalls' /\ TPc' /\ TSub'
    BY <1>2, <2>1 DEF TChans, TReg, TCalls, TPc, TSub, Close, Unsubscribe
  <2>3. Numbered' /\ Crews'
    BY <1>2, <2>1 DEF Numbered, Crews, Close, Unsubscribe
  <2>4. TWire'
    BY <1>2, <2>1 DEF TWire, LinkTypeOK, Close, Unsubscribe
  <2>5. TCon'
    BY <1>2, <2>1 DEF TCon, TChans, Chans, Close, Unsubscribe
  <2>6. TRun'
    BY <1>2, <2>1 DEF TRun, TPc, Crews, LoopChannel, Runs, NoHandlers, Close, Unsubscribe
  <2>7. TClose'
    BY <1>2, <2>1 DEF TClose, TCon, Chans, TSub, LoopChannel, OnChannel, Subscribed, Close,
      Unsubscribe
  <2>8. LoopChannel'
    BY <1>2, <2>1 DEF TPc, TSub, LoopChannel, TCon, TChans, TRun, Chans, Numbered, Setting,
      OnChannel, Subscribed, Close, Unsubscribe
  <2>9. LockHeld'
    BY <1>2, <2>1 DEF TPc, LockHeld, Holding, TCalls, Close, Unsubscribe, ClosingLast
  <2>10. CallsMatch'
    BY <1>2, <2>1 DEF TPc, TCalls, CallsMatch, LockHeld, Holding, LoopChannel, OnChannel,
      Subscribed, ClosingLast, Running, TSub, Procs, Close, Unsubscribe
  <2>11. ClosingLast'
    BY <1>2, <2>1 DEF TPc, ClosingLast, TCon, Running, LoopChannel, OnChannel, Subscribed,
      Close, Unsubscribe
  <2>12. Drained'
    BY <1>2, <2>1 DEF Drained, ClosingLast, NoHandlers, TRun, Close, Unsubscribe
  <2>13. Leftovers'
    BY <1>2, <2>1 DEF TPc, Leftovers, Doomed, TSub, NoSub, Chans, Runs, Subscribed, Setting,
      Cancelling, Close, Unsubscribe
  <2>14. Registered'
    BY <1>2, <2>1 DEF TPc, Registered, Subscribed, TSub, TReg, LoopChannel, OnChannel, Close,
      Unsubscribe
  <2>15. NoLeakedChannel'
    BY <1>2, <2>1 DEF TPc, NoLeakedChannel, LoopChannel, OnChannel, Subscribed, ClosingLast,
      CallsMatch, TSub, TCalls, Close, Unsubscribe
  <2> QED BY <2>2, <2>3, <2>4, <2>5, <2>6, <2>7, <2>8, <2>9, <2>10, <2>11, <2>12, <2>13,
      <2>14, <2>15 DEF IInv
<1>3. CASE CloseLoops
  <2>1. \A c : Alive(c)' <=> Alive(c)
    BY <1>3 DEF Alive, CloseLoops
  <2>2. TWire' /\ TChans' /\ TReg' /\ TCalls' /\ TCon'
    BY <1>3, <2>1 DEF TWire, TChans, TReg, TCalls, TCon, LinkTypeOK, CloseLoops
  <2>3. TPc' /\ TSub' /\ TRun' /\ LoopChannel' /\ Numbered'
    BY <1>3, <2>1 DEF TPc, TSub, TRun, LoopChannel, Numbered, CloseLoops
  <2>4. Crews' /\ Leftovers' /\ Registered'
    BY <1>3, <2>1 DEF Crews, Leftovers, Registered, Doomed, CloseLoops
  <2>5. TClose'
    BY <1>3, <2>1 DEF TClose, TCon, Chans, TSub, LoopChannel, OnChannel, Subscribed, CloseLoops,
      Blocked
  <2>6. LockHeld'
    BY <1>3, <2>1 DEF TPc, LockHeld, Holding, TCalls, CloseLoops, Blocked
  <2>7. CallsMatch'
    BY <1>3, <2>1 DEF TPc, TCalls, CallsMatch, LockHeld, Holding, LoopChannel, OnChannel,
      Subscribed, ClosingLast, Running, TSub, Procs, CloseLoops, Blocked
  <2>8. ClosingLast'
    BY <1>3, <2>1 DEF TPc, ClosingLast, TCon, Running, LoopChannel, OnChannel, Subscribed,
      CloseLoops, Blocked
  <2>9. Drained'
    BY <1>3, <2>1 DEF Drained, ClosingLast, NoHandlers, TRun, CloseLoops, Blocked
  <2>10. NoLeakedChannel'
    BY <1>3, <2>1 DEF TPc, NoLeakedChannel, LoopChannel, OnChannel, Subscribed, ClosingLast,
      CallsMatch, TSub, TCalls, CloseLoops, Blocked
  <2> QED BY <2>2, <2>3, <2>4, <2>5, <2>6, <2>7, <2>8, <2>9, <2>10 DEF IInv
<1>4. CASE CloseDrained
  <2>1. \A c : Alive(c)' <=> Alive(c)
    BY <1>4 DEF Alive, CloseDrained
  <2>2. TWire' /\ TChans' /\ TReg' /\ TCalls' /\ TCon'
    BY <1>4, <2>1 DEF TWire, TChans, TReg, TCalls, TCon, LinkTypeOK, CloseDrained
  <2>3. TPc' /\ TSub' /\ TRun' /\ LoopChannel' /\ Numbered'
    BY <1>4, <2>1 DEF TPc, TSub, TRun, LoopChannel, Numbered, CloseDrained
  <2>4. Crews' /\ Leftovers' /\ Registered'
    BY <1>4, <2>1 DEF Crews, Leftovers, Registered, Doomed, CloseDrained
  <2>5. TClose'
    BY <1>4, <2>1 DEF TClose, TCon, Chans, TSub, LoopChannel, OnChannel, Subscribed,
      CloseDrained
  <2>6. LockHeld'
    BY <1>4, <2>1 DEF TPc, LockHeld, Holding, TCalls, CloseDrained
  <2>7. CallsMatch'
    BY <1>4, <2>1 DEF TPc, TCalls, CallsMatch, LockHeld, Holding, LoopChannel, OnChannel,
      Subscribed, ClosingLast, Running, TSub, Procs, CloseDrained
  <2>8. ClosingLast'
    BY <1>4, <2>1 DEF TPc, ClosingLast, TCon, Running, LoopChannel, OnChannel, Subscribed,
      CloseDrained
  <2>9. Drained'
    BY <1>4, <2>1 DEF Drained, ClosingLast, NoHandlers, TRun, CloseDrained
  <2>10. NoLeakedChannel'
    BY <1>4, <2>1 DEF TPc, NoLeakedChannel, LoopChannel, OnChannel, Subscribed, ClosingLast,
      CallsMatch, TSub, TCalls, CloseDrained
  <2> QED BY <2>2, <2>3, <2>4, <2>5, <2>6, <2>7, <2>8, <2>9, <2>10 DEF IInv
<1>5. CASE CloseLook
  <2>1. \A c : Alive(c)' <=> Alive(c)
    BY <1>5 DEF Alive, CloseLook
  <2>2. \/ ~stopped /\ close' = "returned" /\ stranded' = stranded \cup ({current} \ {0})
        \/ stopped /\ current = 0 /\ close' = "returned" /\ stranded' = stranded
        \/ stopped /\ current # 0 /\ close' = "slot" /\ stranded' = stranded
    BY <1>5 DEF CloseLook
  <2>3. UNCHANGED <<env, chans, rpcs, con, pc, sub, old, stopped, expired>> /\ close = "look"
    BY <1>5 DEF CloseLook
  <2>4. TWire' /\ TChans' /\ TReg' /\ TCalls' /\ TCon'
    BY <1>5, <2>1, <2>2, <2>3 DEF TWire, TChans, TReg, TCalls, TCon, LinkTypeOK, CloseLook
  <2>5. TPc' /\ TSub' /\ TRun' /\ LoopChannel' /\ Numbered'
    BY <1>5, <2>1, <2>2, <2>3 DEF TPc, TSub, TRun, LoopChannel, Numbered, CloseLook
  <2>6. Crews' /\ Leftovers' /\ Registered'
    BY <1>5, <2>1, <2>2, <2>3 DEF Crews, Leftovers, Registered, Doomed, CloseLook
  <2>7. TClose'
    <3>1. {current} \ {0} \subseteq Chans BY DEF TCon, Chans
    <3>2. stranded' \subseteq Chans BY <2>2, <3>1 DEF TClose
    <3>3. QED BY <2>2, <2>3, <3>2 DEF TClose
  <2>8. LockHeld'
    BY <1>5, <2>1, <2>2, <2>3 DEF TPc, LockHeld, Holding, TCalls, CloseLook
  <2>9. CallsMatch'
    BY <1>5, <2>1, <2>2, <2>3 DEF TPc, TCalls, CallsMatch, LockHeld, Holding, LoopChannel,
      OnChannel, Subscribed, ClosingLast, Running, TSub, Procs, CloseLook
  <2>10. ClosingLast'
    BY <2>1, <2>2, <2>3 DEF ClosingLast, TCon, Chans, Running
  <2>11. Drained'
    BY <1>5, <2>1, <2>2, <2>3 DEF Drained, ClosingLast, NoHandlers, TRun, CloseLook
  <2>12. NoLeakedChannel'
    BY <2>1, <2>2, <2>3 DEF NoLeakedChannel, Chans
  <2> QED BY <2>4, <2>5, <2>6, <2>7, <2>8, <2>9, <2>10, <2>11, <2>12 DEF IInv
<1>6. CASE CloseSlot
  <2>1. \A c : Alive(c)' <=> Alive(c)
    BY <1>6 DEF Alive, CloseSlot
  <2>2. TWire' /\ TChans' /\ TReg' /\ TCon' /\ TPc'
    BY <1>6, <2>1 DEF TWire, TChans, TReg, TCon, TPc, LinkTypeOK, CloseSlot
  <2>3. TSub' /\ TRun' /\ LoopChannel' /\ Numbered' /\ Crews'
    BY <1>6, <2>1 DEF TSub, TRun, LoopChannel, Numbered, Crews, CloseSlot
  <2>4. Leftovers' /\ Registered'
    BY <1>6, <2>1 DEF Leftovers, Registered, Doomed, CloseSlot
  <2>5. TCalls'
    BY <1>6, <2>1 DEF TCalls, Procs, CloseSlot, Send
  <2>6. TClose'
    BY <1>6, <2>1 DEF TClose, TCon, Chans, TSub, LoopChannel, OnChannel, Subscribed, CloseSlot,
      Send
  <2>7. LockHeld'
    BY <1>6, <2>1 DEF TPc, LockHeld, Holding, TCalls, CloseSlot, Send
  <2>8. CallsMatch'
    BY <1>6, <2>1 DEF TPc, TCalls, CallsMatch, LockHeld, Holding, LoopChannel, OnChannel,
      Subscribed, ClosingLast, Running, TSub, Procs, CloseSlot, Send
  <2>9. ClosingLast'
    BY <1>6, <2>1 DEF TPc, ClosingLast, TCon, Running, LoopChannel, OnChannel, Subscribed,
      CloseSlot, Send
  <2>10. Drained'
    BY <1>6, <2>1 DEF Drained, ClosingLast, NoHandlers, TRun, CloseSlot, Send
  <2>11. NoLeakedChannel'
    BY <1>6, <2>1 DEF TPc, NoLeakedChannel, LoopChannel, OnChannel, Subscribed, ClosingLast,
      CallsMatch, TSub, TCalls, CloseSlot, Send
  <2> QED BY <2>2, <2>3, <2>4, <2>5, <2>6, <2>7, <2>8, <2>9, <2>10, <2>11 DEF IInv
<1>7. CASE CloseBusy
  <2>1. \A c : Alive(c)' <=> Alive(c)
    BY <1>7 DEF Alive, CloseBusy
  <2>2. TWire' /\ TChans' /\ TReg' /\ TCalls' /\ TCon'
    BY <1>7, <2>1 DEF TWire, TChans, TReg, TCalls, TCon, LinkTypeOK, CloseBusy
  <2>3. TPc' /\ TSub' /\ TRun' /\ LoopChannel' /\ Numbered'
    BY <1>7, <2>1 DEF TPc, TSub, TRun, LoopChannel, Numbered, CloseBusy
  <2>4. Crews' /\ Leftovers' /\ Registered'
    BY <1>7, <2>1 DEF Crews, Leftovers, Registered, Doomed, CloseBusy
  <2>5. TClose'
    BY <1>7, <2>1 DEF TClose, TCon, Chans, TSub, LoopChannel, OnChannel, Subscribed, CloseBusy,
      HolderBusy, ClosingLast
  <2>6. LockHeld'
    BY <1>7, <2>1 DEF TPc, LockHeld, Holding, TCalls, CloseBusy, HolderBusy
  <2>7. CallsMatch'
    BY <1>7, <2>1 DEF TPc, TCalls, CallsMatch, LockHeld, Holding, LoopChannel, OnChannel,
      Subscribed, ClosingLast, Running, TSub, Procs, CloseBusy, HolderBusy
  <2>8. ClosingLast'
    BY <1>7, <2>1 DEF TPc, ClosingLast, TCon, Running, LoopChannel, OnChannel, Subscribed,
      CloseBusy, HolderBusy
  <2>9. Drained'
    BY <1>7, <2>1 DEF Drained, ClosingLast, NoHandlers, TRun, CloseBusy, HolderBusy
  <2>10. NoLeakedChannel'
    BY <1>7, <2>1 DEF TPc, NoLeakedChannel, LoopChannel, OnChannel, Subscribed, ClosingLast,
      CallsMatch, TSub, TCalls, CloseBusy, HolderBusy
  <2> QED BY <2>2, <2>3, <2>4, <2>5, <2>6, <2>7, <2>8, <2>9, <2>10 DEF IInv
<1>8. CASE CloseClosed
  <2>1. current \in Chans /\ "close" \in Procs
    BY <1>8 DEF CloseClosed, LoopChannel, OnChannel, Subscribed, TChans, TCon, TSub, Chans,
      Procs
  <2>2. UNCHANGED <<linkVars, opened, home, watch>> /\ CloseReply("close", current)
    BY <1>8 DEF CloseClosed
  <2>3. TChans' /\ TReg' /\ calls' \in [Chans -> SUBSET Procs]
    BY <2>1, <2>2, Replied
  <2>4. \A c \in Chans : calls'[c] = IF c = current THEN calls[c] \ {"close"} ELSE calls[c]
    <3>1. calls' = [calls EXCEPT ![current] = calls[current] \ {"close"}]
      BY <2>2 DEF CloseReply, Answered, Failed, Return
    <3>2. QED BY <2>1, <3>1 DEF TCalls
  <2>5. \A c \in Chans : reg'[c] \subseteq reg[c] /\ (state'[c] = "none" <=> state[c] = "none")
    BY <2>1, <2>2, Replied
  <2>6. \A c \in 0..MaxChan : Alive(c)' => Alive(c) /\ (c = current => wire = "broken")
    BY <2>1, <2>2, Replied
  <2>7. \A c \in Chans : Alive(c)' => Alive(c) /\ (c = current => wire = "broken")
    BY <2>6 DEF Chans
  <2>8. TWire' /\ TCon' /\ TPc' /\ TSub' /\ TRun'
    BY <1>8, <2>1, <2>2, <2>3, <2>4, <2>5, <2>6, <2>7 DEF TWire, TCon, TPc, TSub, TRun,
      LinkTypeOK, CloseClosed
  <2>9. LoopChannel' /\ Crews'
    BY <1>8, <2>1, <2>2, <2>3, <2>4, <2>5, <2>6, <2>7 DEF LoopChannel, Crews, CloseClosed
  <2>10. TChans'
    BY <2>3
  <2>11. TReg'
    BY <2>3
  <2>12. TCalls'
    BY <1>8, <2>1, <2>2, <2>3, <2>4, <2>5, <2>6, <2>7 DEF TCalls, Procs, CloseClosed
  <2>13. TClose'
    BY <1>8, <2>1, <2>2, <2>3, <2>4, <2>5, <2>6, <2>7 DEF TClose, TCon, Chans, TSub,
      LoopChannel, OnChannel, Subscribed, CloseClosed
  <2>14. LockHeld'
    BY <1>8, <2>1, <2>2, <2>3, <2>4, <2>5, <2>6, <2>7 DEF TPc, LockHeld, Holding, TCalls,
      CloseClosed
  <2>15. CallsMatch'
    BY <1>8, <2>1, <2>2, <2>3, <2>4, <2>5, <2>6, <2>7 DEF TPc, TCalls, CallsMatch, LockHeld,
      Holding, LoopChannel, OnChannel, Subscribed, ClosingLast, Running, TSub, Procs,
      CloseClosed
  <2>16. Numbered'
    BY <1>8, <2>1, <2>2, <2>3, <2>4, <2>5, <2>6, <2>7 DEF TPc, Numbered, TChans, TReg, TSub,
      TCon, Setting, Chans, CloseClosed
  <2>17. ClosingLast'
    BY <1>8, <2>1, <2>2, <2>3, <2>4, <2>5, <2>6, <2>7 DEF TPc, ClosingLast, TCon, Running,
      LoopChannel, OnChannel, Subscribed, CloseClosed
  <2>18. Drained'
    BY <1>8, <2>1, <2>2, <2>3, <2>4, <2>5, <2>6, <2>7 DEF Drained, ClosingLast, NoHandlers,
      TRun, CloseClosed
  <2>19. Leftovers'
    BY <1>8, <2>1, <2>2, <2>3, <2>4, <2>5, <2>6, <2>7 DEF TPc, Leftovers, Doomed, TSub, NoSub,
      Chans, Runs, Subscribed, Setting, Cancelling, CloseClosed
  <2>20. Registered'
    BY <1>8, <2>1, <2>2, <2>3, <2>4, <2>5, <2>6, <2>7 DEF TPc, Registered, Subscribed, TSub,
      TReg, LoopChannel, OnChannel, CloseClosed
  <2>21. NoLeakedChannel'
    BY <1>8, <2>1, <2>2, <2>3, <2>4, <2>5, <2>6, <2>7 DEF TPc, NoLeakedChannel, LoopChannel,
      OnChannel, Subscribed, ClosingLast, CallsMatch, TSub, TCalls, CloseClosed
  <2> QED BY <2>8, <2>9, <2>10, <2>11, <2>12, <2>13, <2>14, <2>15, <2>16, <2>17, <2>18, <2>19,
      <2>20, <2>21 DEF IInv
<1>9. CASE CloseAbandoned
  <2>1. \A c : Alive(c)' <=> Alive(c)
    BY <1>9 DEF Alive, CloseAbandoned
  <2>2. TWire' /\ TChans' /\ TReg' /\ TCon' /\ TPc'
    BY <1>9, <2>1 DEF TWire, TChans, TReg, TCon, TPc, LinkTypeOK, CloseAbandoned
  <2>3. TSub' /\ TRun' /\ LoopChannel' /\ Numbered' /\ Crews'
    BY <1>9, <2>1 DEF TSub, TRun, LoopChannel, Numbered, Crews, CloseAbandoned
  <2>4. Leftovers' /\ Registered'
    BY <1>9, <2>1 DEF Leftovers, Registered, Doomed, CloseAbandoned
  <2>5. TCalls'
    BY <1>9, <2>1 DEF TCalls, Procs, CloseAbandoned
  <2>6. TClose'
    BY <1>9, <2>1 DEF TClose, TCon, Chans, TSub, LoopChannel, OnChannel, Subscribed,
      CloseAbandoned
  <2>7. LockHeld'
    BY <1>9, <2>1 DEF TPc, LockHeld, Holding, TCalls, CloseAbandoned
  <2>8. CallsMatch'
    BY <1>9, <2>1 DEF TPc, TCalls, CallsMatch, LockHeld, Holding, LoopChannel, OnChannel,
      Subscribed, ClosingLast, Running, TSub, Procs, CloseAbandoned
  <2>9. ClosingLast'
    BY <1>9, <2>1 DEF TPc, ClosingLast, TCon, Running, LoopChannel, OnChannel, Subscribed,
      CloseAbandoned
  <2>10. Drained'
    BY <1>9, <2>1 DEF Drained, ClosingLast, NoHandlers, TRun, CloseAbandoned
  <2>11. NoLeakedChannel'
    BY <1>9, <2>1 DEF TPc, NoLeakedChannel, LoopChannel, OnChannel, Subscribed, ClosingLast,
      CallsMatch, TSub, TCalls, CloseAbandoned
  <2> QED BY <2>2, <2>3, <2>4, <2>5, <2>6, <2>7, <2>8, <2>9, <2>10, <2>11 DEF IInv
<1> QED BY <1>1, <1>2, <1>3, <1>4, <1>5, <1>6, <1>7, <1>8, <1>9 DEF CloseNext

-----------------------------------------------------------------------------
LEMMA Types == IInv => TypeOK
  BY DEF IInv, TypeOK, TWire, TChans, TReg, TCalls, TCon, TPc, TSub, TRun, TClose, loop

LEMMA InitIInv == Init => IInv
<1> SUFFICES ASSUME Init PROVE IInv
  OBVIOUS
<1> USE ConsumerAssumption, LinkAssumption DEF Init, Chans, Runs, loop, fresh
<1>1. TWire
  <2>1. gen \in 1..MaxGen OBVIOUS
  <2>2. QED BY <2>1 DEF TWire, LinkTypeOK
<1>2. TChans /\ TReg
  <2>1. 1 \in 0..MaxGen /\ 0 \in 0..MaxGen /\ 1 \in 1..MaxChan OBVIOUS
  <2>2. QED BY <2>1 DEF TChans, TReg
<1>3. TCalls BY DEF TCalls, Procs
<1>4. TCon
  <2>1. 1 \in 0..MaxChan OBVIOUS
  <2>2. QED BY <2>1 DEF TCon
<1>5. TPc /\ loop = "none" /\ \A a \in Apps : pc[a] = "idle" BY DEF TPc, LoopPoints, AppPoints
<1>6. TSub /\ sub["loop"] = NoSub /\ \A a \in Apps : sub[a] = NoSub
  <2>1. NoSub \in (0..MaxChan) \X (0..MaxRun) BY DEF NoSub
  <2>2. 0 \in 0..MaxChan OBVIOUS
  <2>3. QED BY <2>1, <2>2 DEF TSub
<1>7. TRun
  <2>1. 0 \in 0..MaxRun /\ 0 \in 0..Concurrency OBVIOUS
  <2>2. QED BY <2>1 DEF TRun, NoHandlers
<1>8. TClose BY DEF TClose
<1>9. NoSub[1] = 0 /\ NoSub[2] = 0 BY DEF NoSub
<1>10. LoopChannel BY <1>5, <1>6, <1>9 DEF LoopChannel, OnChannel, Subscribed
<1>11. LockHeld BY <1>5 DEF LockHeld, Holding
<1>12. CallsMatch BY DEF CallsMatch
<1>13. Numbered
  <2>1. \A c \in Chans : home[c] <= gen /\ (state[c] = "none" <=> c > opened) OBVIOUS
  <2>2. \A c \in Chans : c > opened => reg[c] = {} OBVIOUS
  <2>3. current <= opened /\ pending[1] <= opened /\ \A a \in Apps : sub[a][1] <= opened
    BY <1>6, <1>9
  <2>4. QED BY <1>5, <2>1, <2>2, <2>3 DEF Numbered, Setting
<1>14. ClosingLast BY DEF ClosingLast
<1>15. Crews BY <1>5 DEF Crews, NoHandlers
<1>16. Drained BY DEF Drained
<1>17. ~Alive(0) BY DEF Alive
<1>18. Leftovers BY <1>5, <1>9, <1>17 DEF Leftovers, Doomed, Cancelling
<1>19. Registered BY <1>5 DEF Registered
<1>20. NoLeakedChannel BY DEF NoLeakedChannel, Alive
<1>21. QED
  BY <1>1, <1>2, <1>3, <1>4, <1>5, <1>6, <1>7, <1>8, <1>10, <1>11, <1>12, <1>13, <1>14, <1>15,
      <1>16, <1>18, <1>19, <1>20 DEF IInv

LEMMA StutterIInv == IInv /\ UNCHANGED vars => IInv'
<1> SUFFICES ASSUME IInv, UNCHANGED vars PROVE IInv'
  OBVIOUS
<1> USE DEF vars, env, linkVars, chans, rpcs, con, local, loopCtx, users, work, closing, loop,
  fresh
<1>1. \A c : Alive(c)' <=> Alive(c) BY DEF Alive
<1>2. TWire' /\ TChans' /\ TReg' /\ TCalls' /\ TCon' /\ TPc'
  BY DEF IInv, TWire, LinkTypeOK, TChans, TReg, TCalls, TCon, TPc
<1>3. TSub' /\ TRun' /\ TClose' /\ LoopChannel' /\ LockHeld' /\ ClosingLast'
  BY DEF IInv, TSub, TRun, TClose, LoopChannel, LockHeld, ClosingLast, Running
<1>4. Numbered' /\ Crews' /\ Drained' BY DEF IInv, Numbered, Crews, Drained
<1>5. CallsMatch' /\ NoLeakedChannel' BY <1>1 DEF IInv, CallsMatch, NoLeakedChannel
<1>6. Leftovers' /\ Registered' BY <1>1 DEF IInv, Leftovers, Doomed, Registered
<1>7. QED BY <1>2, <1>3, <1>4, <1>5, <1>6 DEF IInv

LEMMA NextIInv == IInv /\ [Next]_vars => IInv'
<1> SUFFICES ASSUME IInv, [Next]_vars PROVE IInv'
  OBVIOUS
<1>1. CASE UNCHANGED vars BY <1>1, StutterIInv
<1>2. CASE Connection \/ WireFails BY <1>2, EnvIInv
<1>3. ASSUME NEW c \in Chans, ChanNext(c) PROVE IInv' BY <1>3, ChanIInv
<1>4. CASE LoopNext
  <2>1. LoopConsumes \/ LoopForwards \/ LoopSetsUp
    BY <1>4 DEF LoopNext, LoopStep, LoopConsumes, LoopForwards, LoopSetsUp
  <2>2. QED BY <2>1, ConsumeIInv, ForwardIInv, SetupIInv
<1>5. CASE CancelNext
  <2>1. PICK p \in Apps \cup {"loop"} : CancelStep(p) BY <1>5 DEF CancelNext
  <2>2. CASE p = "loop" BY <2>1, <2>2, LoopCancelIInv
  <2>3. CASE p \in Apps BY <2>1, <2>3, AppCancelIInv
  <2>4. QED BY <2>2, <2>3
<1>6. ASSUME NEW a \in Apps, AppNext(a) PROVE IInv' BY <1>6, AppIInv
<1>7. ASSUME NEW r \in Runs, HandlerNext(r) \/ UserCancels(r) PROVE IInv' BY <1>7, HandlerIInv
<1>8. CASE Stop \/ Close \/ CloseNext BY <1>8, CloseIInv
<1>9. QED BY <1>1, <1>2, <1>3, <1>4, <1>5, <1>6, <1>7, <1>8 DEF Next

(* Every reachable state satisfies the inductive invariant: where the loop,  *)
(* the callers of Consume and Close are decides who holds rpcMu, whose calls *)
(* are outstanding, which channels are in whose hands and which tags the     *)
(* broker knows.                                                             *)
THEOREM Inductive == Spec => []IInv
<1>1. QED BY InitIInv, NextIInv, PTL DEF Spec

(* Every variable keeps its type, for any number of callers of Consume,      *)
(* handlers, loops, channels and connections.                                *)
THEOREM Typed == Spec => []TypeOK
<1>1. QED BY Types, Inductive, PTL

(* rpcMu: two calls are never outstanding on one channel that could answer   *)
(* them.  A cancel retried by Start follows a Close that gave up only on a   *)
(* channel where every call fails.                                           *)
LEMMA OneCaller ==
    ASSUME IInv, NEW c \in Chans, Alive(c), NEW p \in calls[c], NEW q \in calls[c]
    PROVE  p = q
<1> USE ConsumerAssumption DEF IInv
<1>1. p \in Procs /\ q \in Procs BY DEF TCalls
<1>2. ASSUME NEW a \in Apps, a \in calls[c], "loop" \in calls[c] PROVE FALSE
  <2>1. pc[a] = "cancelCall" /\ c = sub[a][1] /\ rpcMu = a BY <1>2 DEF CallsMatch, LockHeld
  <2>2. loop \notin Holding BY <1>2, <2>1 DEF LockHeld
  <2>3. loop \in {"setup", "drop"} /\ c = opened BY <1>2, <2>2 DEF CallsMatch, Holding, fresh
  <2>4. CASE loop = "setup"
    <3>1. c < opened BY <2>1, <2>4 DEF Numbered, Setting
    <3>2. QED BY <2>3, <3>1 DEF Chans
  <2>5. CASE loop = "drop"
    <3>1. c < opened BY <2>1, <2>5 DEF Numbered, Setting
    <3>2. QED BY <2>3, <3>1 DEF Chans
  <2>6. QED BY <2>3, <2>4, <2>5
<1>3. ASSUME "close" \in calls[c], "loop" \in calls[c] PROVE FALSE
  <2>1. loop \in {"none", "done"} BY <1>3 DEF CallsMatch, ClosingLast, Running
  <2>2. QED BY <1>3, <2>1 DEF CallsMatch
<1>4. ASSUME NEW a \in Apps, a \in calls[c], "close" \in calls[c] PROVE FALSE
  <2>1. pc[a] = "cancelCall" /\ c = sub[a][1] /\ rpcMu = a BY <1>4 DEF CallsMatch, LockHeld
  <2>2. wire = "broken" BY <2>1 DEF Leftovers, Doomed, Cancelling
  <2>3. close = "returned" BY <1>4, <2>1 DEF CallsMatch, LockHeld
  <2>4. wire = "quiet" BY <1>4, <2>3 DEF CallsMatch
  <2>5. QED BY <2>2, <2>4
<1>5. ASSUME NEW a \in Apps, NEW b \in Apps, a \in calls[c], b \in calls[c] PROVE a = b
  BY <1>5 DEF CallsMatch, LockHeld
<1>6. QED BY <1>1, <1>2, <1>3, <1>4, <1>5 DEF Procs

(* At most one synchronous call is outstanding on a live channel, with any   *)
(* number of loops, replacements, retried cancels and an abandoned Close.    *)
THEOREM NoReplyMixing == Spec => []OneCallPerChannel
<1>1. IInv => OneCallPerChannel
  <2> SUFFICES ASSUME IInv, NEW c \in Chans, Alive(c) PROVE Cardinality(calls[c]) <= 1
    BY DEF OneCallPerChannel
  <2>1. CASE calls[c] = {} BY <2>1, FS_EmptySet
  <2>2. CASE calls[c] # {}
    <3> PICK p \in calls[c] : TRUE BY <2>2
    <3>1. calls[c] = {p} BY OneCaller
    <3>2. Cardinality({p}) = 1 BY FS_Singleton
    <3>3. QED BY <3>1, <3>2
  <2>3. QED BY <2>1, <2>2
<1>2. QED BY <1>1, Inductive, PTL

(* setupChannel, consumeLoop, CloseWithContext: an open channel belongs to   *)
(* somebody who will use it or close it, or was left on purpose because a    *)
(* call on it would not finish.                                              *)
THEOREM NoLeak == Spec => []NoLeakedChannel
<1>1. IInv => NoLeakedChannel BY DEF IInv
<1>2. QED BY <1>1, Inductive, PTL

(* CloseWithContext, Consume: when a graceful Close has waited for the       *)
(* handlers none is left, and none starts afterwards.                        *)
THEOREM Drains == Spec => []Drained
<1>1. IInv => Drained BY DEF IInv
<1>2. QED BY <1>1, Inductive, PTL

(* cancelSubscription: the loop never consumes with a tag that is still      *)
(* registered on its channel, which the broker answers by closing the        *)
(* connection under everybody else.                                          *)
THEOREM TagsApart == Spec => []NoTagReuse
<1>1. IInv => NoTagReuse
  BY DEF IInv, NoTagReuse, LoopChannel, OnChannel, Registered, Subscribed
<1>2. QED BY <1>1, Inductive, PTL

(* Stop: once the loop is gone, what is still registered on a live channel   *)
(* is the one subscription on record for the next Start to cancel.           *)
THEOREM NothingLeft == Spec => []NothingLeftRegistered
<1>1. IInv => NothingLeftRegistered
  BY DEF IInv, NothingLeftRegistered, Registered, Subscribed
<1>2. QED BY <1>1, Inductive, PTL

(* CloseWithContext: after a Close that saw the loop stop, no handler is     *)
(* given another delivery.                                                   *)
THEOREM Silent == Spec => SilentOnceStopped
<1>1. IInv => [close = "returned" /\ stopped => ~Offer]_vars
  BY DEF IInv, ClosingLast, Running, Offer
<1>2. QED BY <1>1, Inductive, PTL DEF SilentOnceStopped

-----------------------------------------------------------------------------
(* While the loop waits for rpcMu to close a channel, the mutex is held by   *)
(* nobody but a retried basic.cancel, on a channel that is dead or whose     *)
(* connection no longer takes a write.                                       *)
HolderFails == loop \in {"spent", "slot"} /\ rpcMu # "free" =>
    /\ rpcMu \in Apps
    /\ \A c \in Chans : rpcMu \in calls[c] => ~Alive(c) \/ (loop = "spent" /\ wire = "broken")

(* consumeLoop, setupChannel: such a call fails at once, so the two slots    *)
(* come free, and the arms that give up on them are never taken.             *)
THEOREM SlotsComeFree == Spec => []HolderFails
<1>1. IInv => HolderFails
  <2> SUFFICES ASSUME IInv, loop \in {"spent", "slot"}, rpcMu # "free" PROVE HolderFails
    BY DEF HolderFails
  <2> USE DEF IInv
  <2>1. rpcMu # "loop" BY DEF LockHeld, Holding
  <2>2. rpcMu # "close" BY DEF LockHeld, ClosingLast, Running
  <2>3. rpcMu \in Apps BY <2>1, <2>2 DEF TCalls, Procs
  <2>4. pc[rpcMu] = "cancelCall" BY <2>3 DEF LockHeld
  <2>5. Doomed(sub[rpcMu]) BY <2>3, <2>4 DEF Leftovers, Cancelling
  <2>6. \A c \in Chans : rpcMu \in calls[c] => c = sub[rpcMu][1] BY <2>3 DEF CallsMatch
  <2>7. QED BY <2>3, <2>5, <2>6 DEF HolderFails, Doomed
<1>2. QED BY <1>1, Inductive, PTL

-----------------------------------------------------------------------------
(* Connection.NotifyReconnect, UnsubscribeReconnect: what a consumer does    *)
(* with its connection is what Link lets a subscriber do, and what it relies *)
(* on is what Link does; Connection implements Link (ConnectionProofs), so   *)
(* the two fit together.                                                     *)
THEOREM KeepsToLink == Spec => [][LinkNext]_linkVars
<1>1. [Next]_vars => [LinkNext]_linkVars
  <2> SUFFICES ASSUME [Next]_vars PROVE [LinkNext]_linkVars OBVIOUS
  <2> USE ConsumerAssumption DEF env, linkVars
  <2>1. CASE UNCHANGED vars BY <2>1 DEF vars
  <2>2. CASE Connection \/ WireFails BY <2>2 DEF Connection, WireFails, LinkNext
  <2>3. ASSUME NEW c \in Chans, ChanNext(c) PROVE UNCHANGED linkVars
    BY <2>3 DEF ChanNext, Exception, BrokerCancels, WatchEnds, WatchSees, WatchReports
  <2>4. CASE LoopNext
    <3>1. CASE WaitSignal BY <3>1 DEF WaitSignal, LinkNext
    <3>2. CASE LoopTop \/ ConsumeSend \/ Consumed \/ ConsumeFails \/ Clear \/ SpentSlot \/ SpentClosed
      BY <3>2 DEF LoopTop, ConsumeSend, Consumed, ConsumeFails, Clear, SpentSlot, SpentClosed
    <3>3. CASE Receive \/ Offer \/ ForwardCancelled \/ DeliveriesEnd \/ Exit
      BY <3>3 DEF Receive, Offer, ForwardCancelled, DeliveriesEnd, Exit
    <3>4. CASE WaitEnds \/ WaitDead \/ WaitTimer \/ Check
      BY <3>4 DEF WaitEnds, WaitDead, WaitTimer, Check
    <3>5. CASE OpenFails \/ Open \/ SetupReply \/ Install \/ Dropped
      BY <3>5 DEF OpenFails, Open, SetupReply, Install, Dropped
    <3>6. CASE Slot \/ Retired \/ Probe \/ Report BY <3>6 DEF Slot, Retired, Probe, Report
    <3>7. QED BY <2>4, <3>1, <3>2, <3>3, <3>4, <3>5, <3>6 DEF LoopNext, LoopStep
  <2>5. ASSUME NEW p \in Apps \cup {"loop"}, CancelStep(p) PROVE UNCHANGED linkVars
    BY <2>5 DEF CancelStep, CancelNeedless, Cancel, CancelSend, CancelTimeout, CancelReply
  <2>6. ASSUME NEW a \in Apps, AppNext(a) PROVE UNCHANGED linkVars
    BY <2>6 DEF AppNext, AppStep, Consume, Refused, Start, Add, ConsumeReturns
  <2>7. ASSUME NEW r \in Runs, HandlerNext(r) \/ UserCancels(r) PROVE UNCHANGED linkVars
    BY <2>7 DEF HandlerNext, Handled, HandlerLeaves, UserCancels
  <2>8. CASE Close BY <2>8 DEF Close, LinkNext
  <2>9. CASE Stop \/ CloseNext
    BY <2>9 DEF Stop, CloseNext, CloseLoops, CloseDrained, CloseLook, CloseSlot, CloseBusy,
        CloseClosed, CloseAbandoned
  <2>10. QED BY <2>1, <2>2, <2>3, <2>4, <2>5, <2>6, <2>7, <2>8, <2>9 DEF Next, CancelNext
<1>2. QED BY <1>1, PTL DEF Spec
=============================================================================

---------------------------- MODULE RetryProofs ----------------------------
(***************************************************************************)
(* Delays and Retry for every delay, every retry count and header, and any *)
(* number of handlers, copies and faults: what a delay is rounded to, what *)
(* the backoff of each retry is; that no copy is retried early, that with  *)
(* ConfirmMode a failing message is never lost, that only faults double    *)
(* it, and that it is not handled for ever but by the handler's own word.  *)
(***************************************************************************)
EXTENDS Retry, FiniteSetTheorems, WellFoundedInduction, TLAPS

(* TypeOK in parts, and what a job's stage says of its other fields.         *)
Typing ==
    /\ place \in [Copies -> Places]
    /\ header \in [Copies -> Headers \cup 0..MaxRetries]
    /\ wait \in [Copies -> [Bases -> Rungs \cup {0}]]
    /\ epoch \in 0..faults /\ faults \in 0..MaxFaults
    /\ job \in [Handlers -> Jobs]
    /\ handled \in Nat /\ joined \in 0..MaxJoined

Early == {"handling", "declare", "publish"}

Staged ==
    /\ \A h \in Handlers : job[h].at # "idle" => job[h].copy \in Copies /\ job[h].epoch <= epoch
    /\ \A h \in Handlers : job[h].at \in Early \cup {"settle"} => job[h].retry = 0
    /\ \A h \in Handlers : job[h].at \in {"declare", "publish"} => ~Exhausted(h)
    /\ \A h \in Handlers : job[h].at = "confirm" =>
          ConfirmMode /\ job[h].retry \in Copies

(* Copies are taken up in order, and all but the first are retries.          *)
InOrder ==
    /\ place[1] # "unused"
    /\ \A c, d \in Copies : c < d /\ place[d] # "unused" => place[c] # "unused"
    /\ \A h \in Handlers : job[h].at # "idle" => place[job[h].copy] # "unused"
    /\ \A h \in Handlers : job[h].retry # 0 =>
          job[h].copy < job[h].retry /\ place[job[h].retry] # "unused"
    /\ \A c \in Copies \ {1} : place[c] # "unused" => header[c] \in 1..MaxRetries

(* A delivery of the current channel is one handler's, and only that.        *)
Mine(h) == job[h].at # "idle" /\ job[h].epoch = epoch

Delivered ==
    /\ \A h \in Handlers : Mine(h) => place[job[h].copy] = "flight"
    /\ \A h, k \in Handlers : Mine(h) /\ Mine(k) /\ job[h].copy = job[k].copy => h = k
    /\ \A c \in Copies : place[c] = "flight" => \E h \in Handlers : Mine(h) /\ job[h].copy = c

(* What the broker has had once it is not lost any more.  An original is     *)
(* passed on only for a copy that was confirmed: with ConfirmMode there is   *)
(* always a later one.                                                       *)
Safe(c) == place[c] \notin {"unused", "wire", "lost"}

Kept ==
    /\ Safe(1)
    /\ ConfirmMode =>
          /\ \A h \in Handlers : job[h].at = "ack" /\ job[h].retry # 0 => Safe(job[h].retry)
          /\ \A c \in Copies : place[c] = "moved" => \E d \in Copies : c < d /\ Safe(d)

(* A message lives in the copies that are not being dealt with, and in the   *)
(* jobs that will make one of theirs, or publish another.                    *)
Resting == {c \in Copies : place[c] \in {"ready", "wire", "held", "done", "dead"}}
Bearing == {h \in Handlers :
    \/ job[h].at \in Early
    \/ Mine(h) /\ (job[h].at = "settle" \/ (job[h].at = "ack" /\ job[h].retry = 0))}

Lived == Cardinality(Resting) + Cardinality(Bearing) <= Allowed

(* How often a handler may still run for a copy, and on account of a job;    *)
(* and the sum of it, as the area under the function.                        *)
Runs(c) == IF RetryCount(c) > MaxRetries THEN 1 ELSE MaxRetries + 1 - RetryCount(c)

RunsAhead == [c \in Copies |-> IF place[c] \in {"ready", "wire", "held"} THEN Runs(c) ELSE 0]
RunsAtWork == [h \in Handlers |->
    IF job[h].at = "handling" \/ (Mine(h) /\ job[h].at = "settle" /\ job[h].requeue)
    THEN Runs(job[h].copy)
    ELSE IF job[h].at \in {"declare", "publish"} THEN Runs(job[h].copy) - 1 ELSE 0]

Under(f) == {x \in (DOMAIN f) \X (1..(MaxRetries + 1)) : x[2] <= f[x[1]]}
Area(f) == Cardinality(Under(f))

Budgeted ==
    handled + Area(RunsAhead) + Area(RunsAtWork) <= (MaxRetries + 1) * Allowed + joined

IInv == Typing /\ Staged /\ InOrder /\ Delivered /\ Kept /\ Lived /\ Budgeted /\ HeldLongEnough

-----------------------------------------------------------------------------
(* Numbers.                                                                  *)
LEMMA Least ==
    ASSUME NEW T \in SUBSET Nat, T # {}
    PROVE  \E x \in T : \A y \in T : x <= y
<1>1. PICK x \in T : \A y \in T : ~ (<<y, x>> \in OpToRel(<, Nat))
  BY WFMin, NatLessThanWellFounded
<1>2. ASSUME NEW y \in T PROVE x <= y
  <2>1. x \in Nat /\ y \in Nat BY <1>2
  <2> DEFINE p == <<y, x>>
  <2>2. p \in Nat \X Nat /\ p[1] = y /\ p[2] = x BY <2>1
  <2>3. ~(p[1] < p[2]) BY <1>1, <2>2, Zenon DEF OpToRel
  <2>4. QED BY <2>1, <2>2, <2>3
<1>3. QED BY <1>2

LEMMA Largest ==
    ASSUME NEW n \in Nat, NEW T \in SUBSET (1..n), T # {}
    PROVE  \E x \in T : \A y \in T : y <= x
<1> DEFINE S == {n - x : x \in T}
<1>1. S \in SUBSET Nat /\ S # {}
  <2>1. \A x \in T : x \in 1..n /\ n - x \in Nat OBVIOUS
  <2>2. QED BY <2>1
<1> HIDE DEF S
<1>2. PICK s \in S : \A y \in S : s <= y BY <1>1, Least
<1>3. PICK x \in T : s = n - x BY DEF S
<1>4. ASSUME NEW y \in T PROVE y <= x
  <2>1. n - y \in S BY DEF S
  <2>2. n - x <= n - y BY <1>2, <1>3, <2>1
  <2>3. x \in 1..n /\ y \in 1..n OBVIOUS
  <2>4. QED BY <2>2, <2>3
<1>5. QED BY <1>4

(* The ladder is increasing, and its last rung the largest. *)
LEMMA Ladder ==
    /\ Len(DelayLadder) = 9
    /\ \A i \in 1..9 : DelayLadder[i] \in Int /\ DelayLadder[i] <= MaxDelay
    /\ MaxDelay \in Int
    /\ \A i, j \in 1..9 : i < j => DelayLadder[i] < DelayLadder[j]
    /\ DelayLadder[9] = MaxDelay
  <1>1. Len(DelayLadder) = 9 BY SMT DEF DelayLadder
  <1>2. \A i \in 1..9 : \/ i = 1 /\ DelayLadder[i] = 1000
                        \/ i = 2 /\ DelayLadder[i] = 5000
                        \/ i = 3 /\ DelayLadder[i] = 10000
                        \/ i = 4 /\ DelayLadder[i] = 30000
                        \/ i = 5 /\ DelayLadder[i] = 60000
                        \/ i = 6 /\ DelayLadder[i] = 300000
                        \/ i = 7 /\ DelayLadder[i] = 900000
                        \/ i = 8 /\ DelayLadder[i] = 1800000
                        \/ i = 9 /\ DelayLadder[i] = 3600000
    BY SMT DEF DelayLadder
  <1>3. MaxDelay = DelayLadder[9] BY <1>1 DEF MaxDelay
  <1> QED BY <1>1, <1>2, <1>3, SMT

(* A delay the ladder can hold is held for the shortest rung that is not
   under it, so never delivered early; a longer one is refused: snapDelay. *)
THEOREM SnapsUp ==
    ASSUME NEW delay \in Int
    PROVE  /\ delay <= MaxDelay =>
                /\ SnapDelay(delay) \in Rungs
                /\ SnapDelay(delay) >= delay
                /\ \A r \in Rungs : r >= delay => SnapDelay(delay) <= r
           /\ delay > MaxDelay => SnapDelay(delay) = ErrDelayTooLong
  <1> DEFINE first == CHOOSE i \in Fits(delay) : \A j \in Fits(delay) : i <= j
  <1>1. Fits(delay) \in SUBSET (1..9) BY Ladder DEF Fits
  <1>2. CASE delay <= MaxDelay
    <2>1. 9 \in Fits(delay) BY <1>2, Ladder DEF Fits
    <2>2. first \in Fits(delay) /\ \A j \in Fits(delay) : first <= j
      BY <1>1, <2>1, Least
    <2>3. SnapDelay(delay) = DelayLadder[first] BY <2>1 DEF SnapDelay
    <2>4. first \in 1..9 /\ DelayLadder[first] >= delay BY <2>2, Ladder DEF Fits
    <2> HIDE DEF first
    <2>5. SnapDelay(delay) \in Rungs /\ SnapDelay(delay) >= delay
      BY <2>3, <2>4, Ladder DEF Rungs
    <2>6. ASSUME NEW r \in Rungs, r >= delay PROVE SnapDelay(delay) <= r
      <3>1. PICK i \in 1..9 : r = DelayLadder[i] BY Ladder DEF Rungs
      <3>2. i \in Fits(delay) BY <2>6, <3>1, Ladder DEF Fits
      <3>3. first <= i BY <2>2, <3>2
      <3> QED BY <2>3, <2>4, <3>1, <3>3, Ladder
    <2> QED BY <1>2, <2>5, <2>6, Ladder
  <1>3. CASE delay > MaxDelay
    <2>1. Fits(delay) = {} BY <1>3, Ladder DEF Fits
    <2> QED BY <1>3, <2>1, Ladder DEF SnapDelay
  <1> QED BY <1>2, <1>3, Ladder

(* The holding queue outlives what is in it: from the moment it is declared a
   message has half a minute at least to arrive, and as long as its own delay
   when that is longer: declareDelayQueue. *)
THEOREM QueueOutlivesMessage ==
    ASSUME NEW delay \in Nat
    PROVE  /\ Expires(delay) - delay >= 30000
           /\ Expires(delay) - delay >= delay
  BY SMT DEF Expires

(* The powers of two.                                                        *)
LEMMA PowersFound ==
    ASSUME NEW n \in Nat
    PROVE  \E f : f = [i \in 0..n |-> IF i = 0 THEN 1 ELSE 2 * f[i - 1]]
<1> DEFINE P(m, f) == f = [i \in 0..m |-> IF i = 0 THEN 1 ELSE 2 * f[i - 1]]
           T == {m \in Nat : ~\E f : P(m, f)}
<1>1. SUFFICES ASSUME T # {} PROVE FALSE OBVIOUS
<1>2. T \in SUBSET Nat OBVIOUS
<1> HIDE DEF T
<1>3. PICK m \in T : \A k \in T : m <= k BY <1>1, <1>2, Least
<1>4. m \in Nat /\ ~\E f : P(m, f) BY DEF T
<1>5. m # 0
  <2>1. P(0, [i \in 0..0 |-> 1]) OBVIOUS
  <2>2. QED BY <1>4, <2>1
<1>6. PICK f : P(m - 1, f)
  <2>1. m - 1 \in Nat /\ m - 1 \notin T BY <1>2, <1>3, <1>5
  <2>2. QED BY <2>1 DEF T
<1> DEFINE g == [i \in 0..m |-> IF i = m THEN 2 * f[m - 1] ELSE f[i]]
<1>7. P(m, g)
  <2>1. m - 1 \in Nat /\ m \in Nat BY <1>4, <1>5
  <2>2. ASSUME NEW i \in 0..m PROVE g[i] = IF i = 0 THEN 1 ELSE 2 * g[i - 1]
    <3>1. CASE i = m BY <1>5, <2>1, <3>1
    <3>2. CASE i # m
      <4>1. i \in 0..(m - 1) BY <2>1, <3>2
      <4>2. g[i] = IF i = 0 THEN 1 ELSE 2 * f[i - 1] BY <1>6, <3>2, <4>1
      <4>3. i # 0 => i - 1 \in 0..m /\ i - 1 # m BY <2>1, <4>1
      <4>4. i # 0 => g[i - 1] = f[i - 1] BY <4>3
      <4>5. QED BY <4>2, <4>4
    <3>3. QED BY <3>1, <3>2
  <2>3. QED BY <2>2
<1>8. QED BY <1>4, <1>7

(* What base * 2^n is made of.                                               *)
LEMMA Powers ==
    /\ Power[0] = 1
    /\ \A n \in 0..MaxRetries : Power[n] \in Nat \ {0}
    /\ \A n \in 1..MaxRetries : Power[n] = 2 * Power[n - 1]
<1> USE RetryAssumption
<1> DEFINE P(f) == f = [i \in 0..MaxRetries |-> IF i = 0 THEN 1 ELSE 2 * f[i - 1]]
<1>1. \E f : P(f) BY PowersFound
<1>2. Power = CHOOSE f : P(f) BY DEF Power
<1> HIDE DEF P
<1>3. P(Power) BY <1>1, <1>2
<1>4. \A i \in 0..MaxRetries : Power[i] = IF i = 0 THEN 1 ELSE 2 * Power[i - 1] BY <1>3 DEF P
<1>5. Power[0] = 1 BY <1>4
<1>6. \A n \in 1..MaxRetries : Power[n] = 2 * Power[n - 1] BY <1>4
<1> DEFINE T == {n \in 0..MaxRetries : Power[n] \notin Nat \ {0}}
<1>7. T = {}
  <2> SUFFICES ASSUME T # {} PROVE FALSE OBVIOUS
  <2>1. T \in SUBSET Nat OBVIOUS
  <2>2. PICK n \in T : \A k \in T : n <= k BY <2>1, Least
  <2>3. n # 0 BY <1>5
  <2>4. n - 1 \in 0..MaxRetries /\ n - 1 \notin T BY <2>2, <2>3
  <2>5. Power[n - 1] \in Nat \ {0} BY <2>4
  <2>6. n \in 1..MaxRetries BY <2>2, <2>3
  <2>7. QED BY <1>6, <2>2, <2>5, <2>6
<1>8. QED BY <1>5, <1>6, <1>7

(* The doubling of BackoffDelay.                                             *)
Doubling(first, n, f) ==
    f = [i \in 0..n |-> IF i = 0 THEN first
                        ELSE IF f[i - 1] < MaxDelay THEN 2 * f[i - 1] ELSE f[i - 1]]

(* It follows base * 2^n until it has passed the longest rung, and then it   *)
(* stays beyond it.                                                          *)
Follows(first, n, f) ==
    /\ f[n] \in Nat /\ f[n] <= first * Power[n]
    /\ f[n] < MaxDelay \/ first * Power[n] < MaxDelay => f[n] = first * Power[n]

LEMMA DoublingStep ==
    ASSUME NEW first \in Nat, NEW n \in 1..MaxRetries, NEW f,
           Doubling(first, n - 1, f), Follows(first, n - 1, f)
    PROVE  \E g : Doubling(first, n, g) /\ Follows(first, n, g)
<1> USE RetryAssumption, Ladder
<1> DEFINE last == IF f[n - 1] < MaxDelay THEN 2 * f[n - 1] ELSE f[n - 1]
           g == [i \in 0..n |-> IF i = n THEN last ELSE f[i]]
<1>1. Doubling(first, n, g)
  <2>1. n - 1 \in Nat /\ n \in Nat /\ n # 0 OBVIOUS
  <2>2. ASSUME NEW i \in 0..n
        PROVE  g[i] = IF i = 0 THEN first
                      ELSE IF g[i - 1] < MaxDelay THEN 2 * g[i - 1] ELSE g[i - 1]
    <3>1. CASE i = n
      <4>1. n - 1 \in 0..n /\ n - 1 # n BY <2>1
      <4>2. g[n - 1] = f[n - 1] BY <4>1
      <4>3. QED BY <2>1, <3>1, <4>2
    <3>2. CASE i # n
      <4>1. i \in 0..(n - 1) BY <2>1, <3>2
      <4>2. f[i] = IF i = 0 THEN first
                   ELSE IF f[i - 1] < MaxDelay THEN 2 * f[i - 1] ELSE f[i - 1]
        BY <4>1 DEF Doubling
      <4>3. i # 0 => i - 1 \in 0..n /\ i - 1 # n BY <2>1, <4>1
      <4>4. i # 0 => g[i - 1] = f[i - 1] BY <4>3
      <4>5. g[i] = f[i] BY <3>2
      <4> HIDE DEF g
      <4>6. QED BY <4>2, <4>4, <4>5
    <3>3. QED BY <3>1, <3>2
  <2>3. QED BY SMTT(30), <2>2 DEF Doubling
<1>2. Follows(first, n, g)
  <2>1. g[n] = last OBVIOUS
  <2> HIDE DEF g
  <2> DEFINE p == first * Power[n - 1]
  <2>2. p \in Nat /\ first * Power[n] = 2 * p
    <3>1. Power[n - 1] \in Nat /\ Power[n] = 2 * Power[n - 1] BY Powers
    <3>2. QED BY <3>1
  <2>3. f[n - 1] \in Nat /\ f[n - 1] <= p /\ (f[n - 1] < MaxDelay \/ p < MaxDelay => f[n - 1] = p)
    BY DEF Follows
  <2> HIDE DEF p
  <2>4. QED BY <2>1, <2>2, <2>3 DEF Follows
<1>3. QED BY <1>1, <1>2

LEMMA DoublingFound ==
    ASSUME NEW first \in Nat, NEW n \in 0..MaxRetries
    PROVE  \E f : Doubling(first, n, f) /\ Follows(first, n, f)
<1> USE RetryAssumption
<1> DEFINE T == {m \in 0..MaxRetries : ~\E f : Doubling(first, m, f) /\ Follows(first, m, f)}
<1>1. SUFFICES ASSUME T # {} PROVE FALSE OBVIOUS
<1>2. PICK m \in T : \A k \in T : m <= k
  <2>1. T \in SUBSET Nat OBVIOUS
  <2>2. QED BY <1>1, <2>1, Least
<1>3. m # 0
  <2> DEFINE f == [i \in 0..0 |-> first]
  <2>1. Doubling(first, 0, f) BY DEF Doubling
  <2>2. f[0] = first OBVIOUS
  <2>3. Follows(first, 0, f) BY <2>2, Powers DEF Follows
  <2>4. QED BY <2>1, <2>3
<1>4. m - 1 \in 0..MaxRetries /\ m - 1 \notin T BY <1>2, <1>3
<1>5. PICK f : Doubling(first, m - 1, f) /\ Follows(first, m - 1, f) BY <1>4
<1>6. m \in 1..MaxRetries BY <1>3
<1>7. QED BY <1>5, <1>6, DoublingStep

(* backoffDelay is base * 2^n, or the longest rung when that is more: it     *)
(* stops doubling in time and loses nothing by it.                           *)
THEOREM BackoffDoubles ==
    ASSUME NEW base \in Int, NEW n \in 0..MaxRetries
    PROVE  /\ Asked(base, n) \in Nat
           /\ BackoffDelay(base, n) = Capped(Asked(base, n))
<1> USE RetryAssumption
<1> DEFINE first == IF base <= 0 THEN 1000 ELSE base
<1>1. first \in Nat OBVIOUS
<1>2. Asked(base, n) = first * Power[n] BY DEF Asked
<1>3. BackoffDelay(base, n) = Capped((CHOOSE f : Doubling(first, n, f))[n])
  BY DEF BackoffDelay, Doubling
<1>4. Power[n] \in Nat BY Powers
<1> HIDE DEF first
<1>5. PICK f : Doubling(first, n, f) /\ Follows(first, n, f) BY <1>1, DoublingFound
<1> DEFINE d == CHOOSE g : Doubling(first, n, g)
<1>6. Doubling(first, n, d) BY <1>5
<1> HIDE DEF d
<1>7. \A i \in 0..n : d[i] = f[i]
  <2> DEFINE T == {i \in 0..n : d[i] # f[i]}
  <2>1. SUFFICES ASSUME T # {} PROVE FALSE OBVIOUS
  <2>2. PICK m \in T : \A k \in T : m <= k
    <3>1. T \in SUBSET Nat OBVIOUS
    <3>2. QED BY <2>1, <3>1, Least
  <2>3. d[0] = first /\ f[0] = first
    <3>1. 0 \in 0..n OBVIOUS
    <3>2. QED BY <1>5, <1>6, <3>1 DEF Doubling
  <2>4. m # 0 BY <2>2, <2>3
  <2>5. m - 1 \in 0..n /\ m - 1 \notin T BY <2>2, <2>4
  <2>6. d[m - 1] = f[m - 1] BY <2>5
  <2>7. d[m] = IF d[m - 1] < MaxDelay THEN 2 * d[m - 1] ELSE d[m - 1]
    BY <1>6, <2>2, <2>4 DEF Doubling
  <2>8. f[m] = IF f[m - 1] < MaxDelay THEN 2 * f[m - 1] ELSE f[m - 1]
    BY <1>5, <2>2, <2>4 DEF Doubling
  <2>9. QED BY <2>2, <2>6, <2>7, <2>8
<1>8. d[n] = f[n] BY <1>7
<1>9. first * Power[n] \in Nat BY <1>1, <1>4
<1>10. Capped(f[n]) = Capped(first * Power[n])
  <2> DEFINE p == first * Power[n]
  <2>1. f[n] \in Nat /\ f[n] <= p /\ (f[n] < MaxDelay \/ p < MaxDelay => f[n] = p)
    BY <1>5 DEF Follows
  <2>2. p \in Nat BY <1>9
  <2> HIDE DEF p
  <2>3. Capped(f[n]) = Capped(p) BY <2>1, <2>2, Ladder DEF Capped
  <2>4. QED BY <2>3 DEF p
<1>11. QED BY <1>2, <1>3, <1>8, <1>9, <1>10 DEF d

(* Schedule is the promise: the n-th retry is held for the shortest rung     *)
(* that is not under base * 2^n.                                             *)
LEMMA ScheduleIsPromise ==
    ASSUME NEW n \in 0..(MaxRetries - 1)
    PROVE  Schedule[n] = Promised[n + 1] /\ Schedule[n] \in [Bases -> Rungs]
<1> USE RetryAssumption
<1>1. n \in 0..MaxRetries /\ n + 1 \in 1..MaxRetries /\ (n + 1) - 1 = n OBVIOUS
<1>2. ASSUME NEW b \in Bases
      PROVE  /\ SnapDelay(BackoffDelay(b, n)) \in Rungs
             /\ SnapDelay(BackoffDelay(b, n)) =
                 LET enough == {r \in Rungs : r >= Asked(b, n)}
                 IN  IF enough = {} THEN MaxDelay ELSE Min(enough)
  <2>1. b \in Int OBVIOUS
  <2> DEFINE a == Asked(b, n)
             enough == {r \in Rungs : r >= a}
  <2>2. a \in Nat /\ BackoffDelay(b, n) = Capped(a) BY <1>1, <2>1, BackoffDoubles
  <2> HIDE DEF a
  <2>3. Capped(a) \in Int /\ Capped(a) <= MaxDelay BY <2>2, Ladder DEF Capped
  <2> DEFINE s == SnapDelay(Capped(a))
  <2>4. s \in Rungs /\ s >= Capped(a) /\ \A r \in Rungs : r >= Capped(a) => s <= r
    BY <2>3, SnapsUp
  <2> HIDE DEF s
  <2>5. \A r \in Rungs : r \in Int /\ r <= MaxDelay BY Ladder DEF Rungs
  <2>6. CASE a > MaxDelay
    <3>1. enough = {} BY <2>2, <2>5, <2>6, Ladder
    <3>2. s = MaxDelay BY <2>4, <2>5, <2>6, Ladder DEF Capped
    <3>3. QED BY <2>2, <2>4, <3>1, <3>2 DEF s, a
  <2>7. CASE a <= MaxDelay
    <3>1. Capped(a) = a BY <2>2, <2>7, Ladder DEF Capped
    <3>2. s \in enough /\ \A r \in enough : s <= r BY <2>4, <3>1
    <3>3. \A x \in enough : (\A y \in enough : x <= y) => x = s BY <2>5, <3>2
    <3>4. Min(enough) = s BY <3>2, <3>3 DEF Min
    <3>5. QED BY <2>2, <2>4, <3>2, <3>4 DEF s, a
  <2>8. QED BY <2>2, <2>6, <2>7, Ladder
<1>3. Schedule[n] = [b \in Bases |-> SnapDelay(BackoffDelay(b, n))] BY <1>1 DEF Schedule
<1>4. Promised[n + 1] = [b \in Bases |->
        LET enough == {r \in Rungs : r >= Asked(b, n)}
        IN  IF enough = {} THEN MaxDelay ELSE Min(enough)]
  BY <1>1 DEF Promised
<1>5. QED BY <1>2, <1>3, <1>4

-----------------------------------------------------------------------------
(* Areas.                                                                    *)
Bounded(S) == [S -> 0..(MaxRetries + 1)]

LEMMA UnderFinite ==
    ASSUME NEW S, IsFiniteSet(S), NEW f \in Bounded(S)
    PROVE  IsFiniteSet(Under(f)) /\ Area(f) \in Nat
<1> USE RetryAssumption
<1>1. IsFiniteSet(1..(MaxRetries + 1)) BY FS_Interval
<1>2. IsFiniteSet(S \X (1..(MaxRetries + 1))) BY <1>1, FS_Product
<1>3. Under(f) \in SUBSET (S \X (1..(MaxRetries + 1))) BY DEF Under, Bounded
<1>4. QED BY <1>2, <1>3, FS_Subset, FS_CardinalityType DEF Area

(* One value of the function is so many elements under it.                   *)
LEMMA AreaSplit ==
    ASSUME NEW S, IsFiniteSet(S), NEW f \in Bounded(S), NEW a \in S
    PROVE  /\ Cardinality({x \in Under(f) : x[1] # a}) \in Nat
           /\ Area(f) = Cardinality({x \in Under(f) : x[1] # a}) + f[a]
<1> USE RetryAssumption
<1> DEFINE others == {x \in Under(f) : x[1] # a}
           column == {a} \X (1..f[a])
<1>1. f[a] \in 0..(MaxRetries + 1) BY DEF Bounded
<1>2. IsFiniteSet(others)
  <2>1. others \in SUBSET Under(f) OBVIOUS
  <2>2. QED BY <2>1, UnderFinite, FS_Subset
<1>3. IsFiniteSet(column) /\ Cardinality(column) = f[a]
  <2>1. IsFiniteSet({a}) /\ Cardinality({a}) = 1 BY FS_Singleton
  <2>2. IsFiniteSet(1..f[a]) /\ Cardinality(1..f[a]) = f[a] BY <1>1, FS_Interval
  <2>3. IsFiniteSet(column) /\ Cardinality(column) = Cardinality({a}) * Cardinality(1..f[a])
    BY <2>1, <2>2, FS_Product
  <2>4. QED BY <1>1, <2>1, <2>2, <2>3
<1>4. Under(f) = others \cup column
  <2>1. \A x : x \in column <=> x \in Under(f) /\ x[1] = a BY <1>1 DEF Under, Bounded
  <2>2. QED BY <2>1
<1>5. others \cap column = {} OBVIOUS
<1>6. Cardinality(others \cup column) = Cardinality(others) + Cardinality(column) - 0
  BY <1>2, <1>3, <1>5, FS_Union, FS_EmptySet
<1>7. Cardinality(others) \in Nat BY <1>2, FS_CardinalityType
<1>8. Area(f) = Cardinality(others \cup column) BY <1>4 DEF Area
<1>9. f[a] \in Nat BY <1>1
<1> HIDE DEF others, column
<1>10. Area(f) = Cardinality(others) + f[a] BY <1>3, <1>6, <1>7, <1>8, <1>9
<1>11. QED BY <1>7, <1>10 DEF others

LEMMA AreaPoint ==
    ASSUME NEW S, IsFiniteSet(S), NEW f \in Bounded(S), NEW g \in Bounded(S), NEW a \in S,
           \A i \in S \ {a} : g[i] = f[i]
    PROVE  /\ Area(f) \in Nat /\ Area(g) \in Nat
           /\ Area(g) = Area(f) - f[a] + g[a]
           /\ f[a] <= Area(f)
<1> USE RetryAssumption
<1> DEFINE rest(w) == {x \in Under(w) : x[1] # a}
<1>1. rest(g) = rest(f) BY DEF Under, Bounded
<1>2. Cardinality(rest(f)) \in Nat /\ Area(f) = Cardinality(rest(f)) + f[a] BY AreaSplit
<1>3. Area(g) = Cardinality(rest(g)) + g[a] BY AreaSplit
<1>4. f[a] \in Nat /\ g[a] \in Nat BY DEF Bounded
<1> HIDE DEF rest
<1>5. QED BY <1>1, <1>2, <1>3, <1>4

(* A function that is larger at a few places only is larger by what they can *)
(* hold.                                                                     *)
LEMMA AreaGrows ==
    ASSUME NEW S, IsFiniteSet(S), NEW f \in Bounded(S), NEW g \in Bounded(S),
           NEW Q \in SUBSET S, \A i \in S \ Q : g[i] <= f[i]
    PROVE  /\ Area(f) \in Nat /\ Area(g) \in Nat
           /\ Area(g) <= Area(f) + (MaxRetries + 1) * Cardinality(Q)
<1> USE RetryAssumption
<1> DEFINE R == 1..(MaxRetries + 1)
<1>1. IsFiniteSet(Q) /\ IsFiniteSet(R) /\ Cardinality(R) = MaxRetries + 1
  BY FS_Subset, FS_Interval
<1>2. IsFiniteSet(Q \X R) /\ Cardinality(Q \X R) = Cardinality(Q) * (MaxRetries + 1)
  <2>1. Cardinality(Q \X R) = Cardinality(Q) * Cardinality(R) BY <1>1, FS_Product
  <2>2. QED BY <1>1, <2>1, FS_Product
<1>3. Under(g) \subseteq Under(f) \cup (Q \X R) BY DEF Under, Bounded
<1>4. IsFiniteSet(Under(f) \cup (Q \X R))
      /\ Cardinality(Under(f) \cup (Q \X R)) <= Area(f) + Cardinality(Q \X R)
  <2>1. IsFiniteSet(Under(f)) /\ Area(f) \in Nat BY UnderFinite
  <2>2. Cardinality(Under(f) \cup (Q \X R)) =
          Cardinality(Under(f)) + Cardinality(Q \X R) - Cardinality(Under(f) \cap (Q \X R))
    BY <1>2, <2>1, FS_Union
  <2>3. Cardinality(Under(f) \cap (Q \X R)) \in Nat
    BY <2>1, FS_Intersection, FS_CardinalityType
  <2>4. Cardinality(Q \X R) \in Nat BY <1>2, FS_CardinalityType
  <2>5. QED BY <1>2, <2>1, <2>2, <2>3, <2>4, FS_Union DEF Area
<1>5. Cardinality(Under(g)) <= Cardinality(Under(f) \cup (Q \X R)) BY <1>3, <1>4, FS_Subset
<1>6. Area(f) \in Nat /\ Area(g) \in Nat /\ Cardinality(Q) \in Nat
  BY <1>1, UnderFinite, FS_CardinalityType
<1>7. Cardinality(Q) * (MaxRetries + 1) = (MaxRetries + 1) * Cardinality(Q) BY <1>6
<1>8. Cardinality(Under(f) \cup (Q \X R)) \in Nat BY <1>4, FS_CardinalityType
<1> HIDE DEF R
<1>9. QED BY <1>2, <1>4, <1>5, <1>6, <1>7, <1>8 DEF Area

LEMMA AreaLess ==
    ASSUME NEW S, IsFiniteSet(S), NEW f \in Bounded(S), NEW g \in Bounded(S),
           \A i \in S : g[i] <= f[i]
    PROVE  Area(f) \in Nat /\ Area(g) \in Nat /\ Area(g) <= Area(f)
<1> USE RetryAssumption
<1>1. Area(g) <= Area(f) + (MaxRetries + 1) * Cardinality({}) BY AreaGrows
<1>2. Area(f) \in Nat /\ Area(g) \in Nat BY UnderFinite
<1>3. QED BY <1>1, <1>2, FS_EmptySet

-----------------------------------------------------------------------------
(* What the counting is about.                                               *)
LEMMA RunsBound ==
    Typing => \A c \in Copies : Runs(c) \in 1..(MaxRetries + 1) /\ RetryCount(c) \in Nat
<1> SUFFICES ASSUME Typing, NEW c \in Copies
    PROVE  Runs(c) \in 1..(MaxRetries + 1) /\ RetryCount(c) \in Nat
  OBVIOUS
<1> USE RetryAssumption
<1>1. header[c] \in Headers \cup 0..MaxRetries BY DEF Typing
<1>2. header[c] \in Int
  <2>1. CASE header[c] \in Headers BY <2>1
  <2>2. CASE header[c] \in 0..MaxRetries BY <2>2
  <2>3. QED BY <1>1, <2>1, <2>2
<1>3. RetryCount(c) \in Nat BY <1>2 DEF RetryCount
<1>4. QED BY <1>3 DEF Runs

LEMMA CopiesFinite == IsFiniteSet(Copies)
  BY RetryAssumption, FS_Interval DEF Copies

Countable ==
    /\ RunsAhead \in Bounded(Copies) /\ RunsAtWork \in Bounded(Handlers)
    /\ IsFiniteSet(Resting) /\ IsFiniteSet(Bearing)
    /\ Cardinality(Resting) \in Nat /\ Cardinality(Bearing) \in Nat
    /\ Area(RunsAhead) \in Nat /\ Area(RunsAtWork) \in Nat
    /\ Allowed \in Nat /\ (MaxRetries + 1) * Allowed \in Nat

LEMMA Counted == Typing /\ Staged => Countable
<1> SUFFICES ASSUME Typing, Staged PROVE Countable OBVIOUS
<1> USE RetryAssumption
<1>1. IsFiniteSet(Copies) /\ IsFiniteSet(Handlers) BY FS_Interval DEF Copies
<1>2. RunsAhead \in Bounded(Copies)
  <2>1. \A c \in Copies : Runs(c) \in 0..(MaxRetries + 1) BY RunsBound
  <2>2. QED BY <2>1 DEF RunsAhead, Bounded
<1>3. RunsAtWork \in Bounded(Handlers)
  <2>1. \A c \in Copies : Runs(c) \in 0..(MaxRetries + 1) /\ Runs(c) - 1 \in 0..(MaxRetries + 1)
    BY RunsBound
  <2>2. \A h \in Handlers : job[h].at # "idle" => job[h].copy \in Copies BY DEF Staged
  <2>3. \A h \in Handlers : RunsAtWork[h] \in 0..(MaxRetries + 1) BY <2>1, <2>2 DEF RunsAtWork
  <2>4. QED BY <2>3 DEF RunsAtWork, Bounded
<1>4. IsFiniteSet(Resting) /\ Cardinality(Resting) \in Nat
  <2>1. Resting \in SUBSET Copies BY DEF Resting
  <2>2. QED BY <1>1, <2>1, FS_Subset, FS_CardinalityType
<1>5. IsFiniteSet(Bearing) /\ Cardinality(Bearing) \in Nat
  <2>1. Bearing \in SUBSET Handlers BY DEF Bearing
  <2>2. QED BY <1>1, <2>1, FS_Subset, FS_CardinalityType
<1>6. Allowed \in Nat /\ (MaxRetries + 1) * Allowed \in Nat
  <2>1. Cardinality(Handlers) \in Nat /\ faults \in Nat BY <1>1, FS_CardinalityType DEF Typing
  <2>2. Allowed \in Nat BY <2>1 DEF Allowed
  <2>3. QED BY <2>2
<1>7. Area(RunsAhead) \in Nat /\ Area(RunsAtWork) \in Nat BY <1>1, <1>2, <1>3, UnderFinite
<1>8. QED BY <1>2, <1>3, <1>4, <1>5, <1>6, <1>7 DEF Countable

LEMMA CountedNext == Typing' /\ Staged' => Countable'
  BY Counted, PTL

(* Without a fault nothing more is allowed; a fault allows every handler the *)
(* copy it is dealing with, and a whole round of runs for each.              *)
LEMMA Granted ==
    ASSUME Typing
    PROVE  /\ faults' = faults => /\ Allowed' = Allowed
                                /\ (MaxRetries + 1) * Allowed' = (MaxRetries + 1) * Allowed
           /\ Fault => /\ Allowed' = Allowed + Cardinality(Handlers)
                       /\ (MaxRetries + 1) * Allowed' =
                            (MaxRetries + 1) * Allowed + (MaxRetries + 1) * Cardinality(Handlers)
<1> USE RetryAssumption
<1>1. Cardinality(Handlers) \in Nat /\ faults \in Nat BY FS_CardinalityType DEF Typing
<1>2. faults' = faults => /\ Allowed' = Allowed
                          /\ (MaxRetries + 1) * Allowed' = (MaxRetries + 1) * Allowed
  BY DEF Allowed
<1>3. ASSUME Fault
      PROVE  /\ Allowed' = Allowed + Cardinality(Handlers)
             /\ (MaxRetries + 1) * Allowed' =
                  (MaxRetries + 1) * Allowed + (MaxRetries + 1) * Cardinality(Handlers)
  <2> DEFINE H == Cardinality(Handlers)
  <2>1. faults' = faults + 1 BY <1>3 DEF Fault
  <2>2. Allowed = 1 + H * faults /\ Allowed' = 1 + H * (faults + 1) BY <2>1 DEF Allowed
  <2>3. H \in Nat BY <1>1
  <2> HIDE DEF H
  <2>4. H * (faults + 1) = H * faults + H BY <1>1, <2>3
  <2>5. H * faults \in Nat BY <1>1, <2>3
  <2>6. Allowed \in Nat /\ Allowed' = Allowed + H BY <2>2, <2>3, <2>4, <2>5
  <2>7. (MaxRetries + 1) * (Allowed + H) = (MaxRetries + 1) * Allowed + (MaxRetries + 1) * H
    BY <2>3, <2>6
  <2>8. QED BY <2>6, <2>7 DEF H
<1>4. QED BY <1>2, <1>3

(* The sums, without and with a fault.                                       *)
LEMMA LivedStays ==
    ASSUME Typing, Lived, Countable, Countable', faults' = faults,
           Cardinality(Resting') + Cardinality(Bearing')
             <= Cardinality(Resting) + Cardinality(Bearing)
    PROVE  Lived'
<1>1. Allowed' = Allowed BY Granted
<1>2. QED BY <1>1 DEF Lived, Countable

LEMMA LivedGrows ==
    ASSUME Typing, Lived, Countable, Countable', Fault,
           Cardinality(Resting') + Cardinality(Bearing')
             <= Cardinality(Resting) + Cardinality(Bearing) + Cardinality(Handlers)
    PROVE  Lived'
<1>1. Allowed' = Allowed + Cardinality(Handlers) /\ Cardinality(Handlers) \in Nat
  BY Granted, RetryAssumption, FS_CardinalityType
<1>2. QED BY <1>1 DEF Lived, Countable

LEMMA BudgetStays ==
    ASSUME Typing, Budgeted, Countable, Countable', faults' = faults, joined' = joined,
           NEW ran \in Nat, handled' = handled + ran,
           Area(RunsAhead') + Area(RunsAtWork') + ran <= Area(RunsAhead) + Area(RunsAtWork)
    PROVE  Budgeted'
<1> DEFINE x == Area(RunsAhead)
           y == Area(RunsAtWork)
           u == Area(RunsAhead')
           v == Area(RunsAtWork')
           m == (MaxRetries + 1) * Allowed
           n == (MaxRetries + 1) * Allowed'
<1>1. handled \in Nat /\ handled' = handled + ran /\ joined \in Nat
  BY RetryAssumption DEF Typing
<1>2. x \in Nat /\ y \in Nat /\ m \in Nat BY DEF Countable
<1>3. u \in Nat /\ v \in Nat BY DEF Countable
<1>4. n = m BY Granted
<1>5. handled + x + y <= m + joined BY DEF Budgeted
<1>6. u + v + ran <= x + y OBVIOUS
<1> HIDE DEF x, y, u, v, m, n
<1>7. handled' + u + v <= n + joined' BY <1>1, <1>2, <1>3, <1>4, <1>5, <1>6
<1>8. QED BY <1>7 DEF Budgeted, u, v, n

(* A return of both sentinels pays for the run it makes the copy come to.    *)
LEMMA BudgetJoins ==
    ASSUME Typing, Budgeted, Countable, Countable', faults' = faults, joined' = joined + 1,
           handled' = handled + 1,
           Area(RunsAhead') + Area(RunsAtWork') <= Area(RunsAhead) + Area(RunsAtWork)
    PROVE  Budgeted'
<1> DEFINE x == Area(RunsAhead)
           y == Area(RunsAtWork)
           u == Area(RunsAhead')
           v == Area(RunsAtWork')
           m == (MaxRetries + 1) * Allowed
           n == (MaxRetries + 1) * Allowed'
<1>1. handled \in Nat /\ joined \in Nat BY RetryAssumption DEF Typing
<1>2. x \in Nat /\ y \in Nat /\ m \in Nat BY DEF Countable
<1>3. u \in Nat /\ v \in Nat BY DEF Countable
<1>4. n = m BY Granted
<1>5. handled + x + y <= m + joined BY DEF Budgeted
<1>6. u + v <= x + y OBVIOUS
<1> HIDE DEF x, y, u, v, m, n
<1>7. handled' + u + v <= n + joined' BY <1>1, <1>2, <1>3, <1>4, <1>5, <1>6
<1>8. QED BY <1>7 DEF Budgeted, u, v, n

LEMMA BudgetGrows ==
    ASSUME Typing, Budgeted, Countable, Countable', Fault, joined' = joined,
           NEW ran \in Nat, handled' = handled + ran,
           Area(RunsAhead') + Area(RunsAtWork') + ran
             <= Area(RunsAhead) + Area(RunsAtWork) + (MaxRetries + 1) * Cardinality(Handlers)
    PROVE  Budgeted'
<1> DEFINE x == Area(RunsAhead)
           y == Area(RunsAtWork)
           u == Area(RunsAhead')
           v == Area(RunsAtWork')
           m == (MaxRetries + 1) * Allowed
           n == (MaxRetries + 1) * Allowed'
           p == (MaxRetries + 1) * Cardinality(Handlers)
<1>1. handled \in Nat /\ handled' = handled + ran /\ joined \in Nat
  BY RetryAssumption DEF Typing
<1>2. x \in Nat /\ y \in Nat /\ m \in Nat BY DEF Countable
<1>3. u \in Nat /\ v \in Nat BY DEF Countable
<1>4. n = m + p BY Granted
<1>5. p \in Nat
  <2>1. Cardinality(Handlers) \in Nat BY RetryAssumption, FS_CardinalityType
  <2>2. QED BY <2>1, RetryAssumption
<1>6. handled + x + y <= m + joined BY DEF Budgeted
<1>7. u + v + ran <= x + y + p OBVIOUS
<1> HIDE DEF x, y, u, v, m, n, p
<1>8. handled' + u + v <= n + joined' BY <1>1, <1>2, <1>3, <1>4, <1>5, <1>6, <1>7
<1>9. QED BY <1>8 DEF Budgeted, u, v, n

(* What most steps of a handler have in common: they change its job and      *)
(* nothing about which copies are in use.                                    *)
LEMMA OrderStays ==
    ASSUME Typing, Staged, InOrder, NEW h \in Handlers, header' = header,
           \A d \in Copies : place'[d] = "unused" <=> place[d] = "unused",
           \A k \in Handlers \ {h} : job'[k] = job[k],
           job'[h].at # "idle" => place[job'[h].copy] # "unused" /\ job'[h].copy \in Copies,
           job'[h].retry # 0 => job'[h].copy = job[h].copy /\ job'[h].retry = job[h].retry
    PROVE  InOrder'
<1> USE RetryAssumption
<1>1. 1 \in Copies BY DEF Copies
<1>2. place'[1] # "unused" BY <1>1 DEF InOrder
<1>3. \A c, d \in Copies : c < d /\ place'[d] # "unused" => place'[c] # "unused" BY DEF InOrder
<1>4. \A k \in Handlers : job'[k].at # "idle" => place'[job'[k].copy] # "unused"
  BY DEF InOrder, Staged
<1>5. \A k \in Handlers : job[k].retry # 0 => job[k].retry \in Copies
  BY DEF Typing, Jobs, Copies
<1>6. \A k \in Handlers : job'[k].retry # 0 =>
          job'[k].copy < job'[k].retry /\ place'[job'[k].retry] # "unused"
  BY <1>5 DEF InOrder
<1>7. \A c \in Copies \ {1} : place'[c] # "unused" => header'[c] \in 1..MaxRetries
  BY DEF InOrder
<1>8. QED BY <1>2, <1>3, <1>4, <1>6, <1>7 DEF InOrder

LEMMA DeliveredStays ==
    ASSUME Delivered, epoch' = epoch,
           \A k \in Handlers : /\ job'[k].copy = job[k].copy /\ job'[k].epoch = job[k].epoch
                               /\ job'[k].at = "idle" <=> job[k].at = "idle",
           \A c \in Copies : place'[c] = "flight" <=> place[c] = "flight",
           \A k \in Handlers : job[k].at # "idle" => job[k].copy \in Copies
    PROVE  Delivered'
<1>1. \A k \in Handlers : Mine(k)' <=> Mine(k) BY DEF Mine
<1>2. \A k \in Handlers : Mine(k) => job[k].copy \in Copies BY DEF Mine
<1>3. QED BY <1>1, <1>2 DEF Delivered

(* A fault in the jobs only: each handler may have a copy to bear again.     *)
LEMMA JobsFault ==
    ASSUME IInv, Countable, Countable', Fault, handled' = handled, joined' = joined,
           Resting' \subseteq Resting,
           \A c \in Copies : RunsAhead'[c] <= RunsAhead[c]
    PROVE  Lived' /\ Budgeted'
<1> USE RetryAssumption DEF IInv
<1> DEFINE p == (MaxRetries + 1) * Cardinality(Handlers)
<1>1. Cardinality(Handlers) \in Nat BY FS_CardinalityType
<1>2. Cardinality(Resting') <= Cardinality(Resting) BY FS_Subset DEF Countable
<1>3. Cardinality(Bearing') <= Cardinality(Handlers)
  <2>1. Bearing' \in SUBSET Handlers BY DEF Bearing
  <2>2. QED BY <2>1, FS_Subset
<1>4. Cardinality(Resting) \in Nat /\ Cardinality(Bearing) \in Nat
      /\ Cardinality(Resting') \in Nat /\ Cardinality(Bearing') \in Nat
  BY DEF Countable
<1>5. Lived' BY <1>1, <1>2, <1>3, <1>4, LivedGrows
<1>6. Area(RunsAhead') <= Area(RunsAhead) BY CopiesFinite, AreaLess DEF Countable
<1>7. Area(RunsAtWork') <= Area(RunsAtWork) + p
  <2>1. \A k \in Handlers \ Handlers : RunsAtWork'[k] <= RunsAtWork[k] OBVIOUS
  <2>2. QED BY <2>1, AreaGrows DEF Countable
<1>8. Area(RunsAhead) \in Nat /\ Area(RunsAtWork) \in Nat
      /\ Area(RunsAhead') \in Nat /\ Area(RunsAtWork') \in Nat
  BY DEF Countable
<1>9. p \in Nat BY <1>1
<1> HIDE DEF p
<1>10. 0 \in Nat
       /\ Area(RunsAhead') + Area(RunsAtWork') + 0 <= Area(RunsAhead) + Area(RunsAtWork) + p
  BY <1>6, <1>7, <1>8, <1>9
<1>11. handled' = handled + 0 BY DEF Typing
<1>12. Budgeted' BY <1>10, <1>11, BudgetGrows DEF p
<1>13. QED BY <1>5, <1>12

(* What is in flight is with a handler, so there is no more of it.           *)
Flying == {c \in Copies : place[c] = "flight"}

LEMMA FewFly ==
    Typing /\ Delivered =>
        IsFiniteSet(Flying) /\ Cardinality(Flying) <= Cardinality(Handlers)
<1> SUFFICES ASSUME Typing, Delivered
    PROVE  IsFiniteSet(Flying) /\ Cardinality(Flying) <= Cardinality(Handlers)
  OBVIOUS
<1> DEFINE f == [h \in Handlers |-> job[h].copy]
           T == {f[h] : h \in Handlers}
<1>1. f \in Surjection(Handlers, T) BY DEF Surjection
<1>2. IsFiniteSet(T) /\ Cardinality(T) <= Cardinality(Handlers)
  BY <1>1, RetryAssumption, FS_Surjection
<1>3. Flying \in SUBSET T BY DEF Flying, Delivered
<1>4. IsFiniteSet(Flying) /\ Cardinality(Flying) <= Cardinality(T) BY <1>2, <1>3, FS_Subset
<1>5. Cardinality(Flying) \in Nat /\ Cardinality(T) \in Nat /\ Cardinality(Handlers) \in Nat
  BY <1>2, <1>4, RetryAssumption, FS_CardinalityType
<1>6. QED BY <1>2, <1>4, <1>5

(* A fault that gives back what the handlers had.                            *)
LEMMA DeliveryFault ==
    ASSUME IInv, Countable, Countable', Fault, handled' = handled, joined' = joined,
           Resting' \subseteq Resting \cup Flying, Bearing' \subseteq Bearing,
           \A c \in Copies \ Flying : RunsAhead'[c] <= RunsAhead[c],
           \A k \in Handlers : RunsAtWork'[k] <= RunsAtWork[k]
    PROVE  Lived' /\ Budgeted'
<1> USE RetryAssumption DEF IInv
<1> DEFINE p == (MaxRetries + 1) * Cardinality(Handlers)
           q == (MaxRetries + 1) * Cardinality(Flying)
<1>1. IsFiniteSet(Flying) /\ Cardinality(Flying) <= Cardinality(Handlers) BY FewFly
<1>2. Cardinality(Flying) \in Nat /\ Cardinality(Handlers) \in Nat BY <1>1, FS_CardinalityType
<1>3. Cardinality(Resting') <= Cardinality(Resting) + Cardinality(Flying)
  <2>1. IsFiniteSet(Resting \cup Flying) BY <1>1, FS_Union DEF Countable
  <2>2. Cardinality(Resting \cup Flying) =
          Cardinality(Resting) + Cardinality(Flying) - Cardinality(Resting \cap Flying)
    BY <1>1, FS_Union DEF Countable
  <2>3. Cardinality(Resting \cap Flying) \in Nat
    BY FS_Intersection, FS_CardinalityType DEF Countable
  <2>4. Cardinality(Resting') <= Cardinality(Resting \cup Flying) BY <2>1, FS_Subset
  <2>5. Cardinality(Resting) \in Nat /\ Cardinality(Resting') \in Nat BY DEF Countable
  <2>6. QED BY <1>2, <2>2, <2>3, <2>4, <2>5
<1>4. Cardinality(Bearing') <= Cardinality(Bearing) BY FS_Subset DEF Countable
<1>5. Cardinality(Resting) \in Nat /\ Cardinality(Bearing) \in Nat
      /\ Cardinality(Resting') \in Nat /\ Cardinality(Bearing') \in Nat
  BY DEF Countable
<1>6. Lived' BY <1>1, <1>2, <1>3, <1>4, <1>5, LivedGrows
<1>7. Area(RunsAhead') <= Area(RunsAhead) + q
  <2>1. Flying \in SUBSET Copies BY DEF Flying
  <2>2. QED BY <2>1, CopiesFinite, AreaGrows DEF Countable
<1>8. Area(RunsAtWork') <= Area(RunsAtWork) BY AreaLess DEF Countable
<1>9. Area(RunsAhead) \in Nat /\ Area(RunsAtWork) \in Nat
      /\ Area(RunsAhead') \in Nat /\ Area(RunsAtWork') \in Nat
  BY DEF Countable
<1>10. p \in Nat /\ q \in Nat /\ q <= p
  <2>1. \A m, n, r \in Nat : n <= r => (m + 1) * n \in Nat /\ (m + 1) * r \in Nat /\ (m + 1) * n <= (m + 1) * r
    OBVIOUS
  <2>2. QED BY <1>1, <1>2, <2>1
<1> HIDE DEF p, q
<1>11. 0 \in Nat
       /\ Area(RunsAhead') + Area(RunsAtWork') + 0 <= Area(RunsAhead) + Area(RunsAtWork) + p
  BY <1>7, <1>8, <1>9, <1>10
<1>12. handled' = handled + 0 BY DEF Typing
<1>13. Budgeted' BY <1>11, <1>12, BudgetGrows DEF p
<1>14. QED BY <1>6, <1>13
LEMMA Settling ==
    ASSUME NEW j \in Jobs
    PROVE  /\ [j EXCEPT !.at = "settle", !.retry = 0] \in Jobs
           /\ [j EXCEPT !.at = "settle", !.retry = 0].at = "settle"
           /\ [j EXCEPT !.at = "settle", !.retry = 0].copy = j.copy
           /\ [j EXCEPT !.at = "settle", !.retry = 0].epoch = j.epoch
           /\ [j EXCEPT !.at = "settle", !.retry = 0].requeue = j.requeue
           /\ [j EXCEPT !.at = "settle", !.retry = 0].retry = 0
<1>1. 0 \in 0..MaxCopies /\ "settle" \in Points BY RetryAssumption DEF Points
<1> DEFINE i == [j EXCEPT !.at = "settle"]
           k == [i EXCEPT !.retry = 0]
<1>2. [j EXCEPT !.at = "settle", !.retry = 0] = k OBVIOUS
<1>3. i \in Jobs /\ i.at = "settle" /\ i.copy = j.copy /\ i.epoch = j.epoch /\ i.requeue = j.requeue
  BY <1>1 DEF Jobs
<1> HIDE DEF i
<1>4. k \in Jobs /\ k.at = i.at /\ k.copy = i.copy /\ k.epoch = i.epoch /\ k.requeue = i.requeue
      /\ k.retry = 0
  BY <1>1, <1>3 DEF Jobs
<1> HIDE DEF k
<1>5. QED BY <1>2, <1>3, <1>4

LEMMA SettlingOne ==
    ASSUME Typing, NEW h \in Handlers, Unscheduled(h)
    PROVE  /\ job' \in [Handlers -> Jobs]
           /\ \A k \in Handlers \ {h} : job'[k] = job[k]
           /\ job'[h].at = "settle" /\ job'[h].copy = job[h].copy /\ job'[h].epoch = job[h].epoch
           /\ job'[h].requeue = job[h].requeue /\ job'[h].retry = 0
<1>1. job' = [job EXCEPT ![h] = [job[h] EXCEPT !.at = "settle", !.retry = 0]]
  BY DEF Unscheduled, Typing
<1>2. job[h] \in Jobs /\ job \in [Handlers -> Jobs] BY DEF Typing
<1> DEFINE j == [job[h] EXCEPT !.at = "settle", !.retry = 0]
<1>3. j \in Jobs BY <1>2, Settling
<1>4. job' \in [Handlers -> Jobs] /\ job'[h] = j /\ \A k \in Handlers \ {h} : job'[k] = job[k]
  BY <1>1, <1>2, <1>3
<1>5. QED BY <1>2, <1>4, Settling

LEMMA FailingOne ==
    ASSUME Typing, NEW h \in Handlers, NEW b \in BOOLEAN, NEW p \in Points,
           job' = [job EXCEPT ![h].requeue = b, ![h].at = p]
    PROVE  job' \in [Handlers -> Jobs]
<1> DEFINE i == [job[h] EXCEPT !.requeue = b]
           j == [i EXCEPT !.at = p]
<1>1. job[h] \in Jobs /\ job \in [Handlers -> Jobs] BY DEF Typing
<1>2. job' = [job EXCEPT ![h] = j] BY <1>1
<1>3. i \in Jobs BY <1>1 DEF Jobs
<1> HIDE DEF i
<1>4. j \in Jobs BY <1>3 DEF Jobs
<1> HIDE DEF j
<1>5. QED BY <1>1, <1>2, <1>4

Published(h, c, p) == job' = [job EXCEPT ![h].at = p, ![h].retry = c]

LEMMA PublishingOne ==
    ASSUME Typing, NEW h \in Handlers, NEW c \in Copies, NEW p \in Points,
           Published(h, c, p)
    PROVE  /\ job' \in [Handlers -> Jobs]
           /\ \A k \in Handlers \ {h} : job'[k] = job[k]
           /\ job'[h].copy = job[h].copy /\ job'[h].epoch = job[h].epoch
           /\ job'[h].retry = c /\ job'[h].at = p
<1> DEFINE i == [job[h] EXCEPT !.at = p]
           j == [i EXCEPT !.retry = c]
<1>1. job[h] \in Jobs /\ job \in [Handlers -> Jobs] /\ c \in 0..MaxCopies
  BY RetryAssumption DEF Typing, Copies
<1>2. job' = [job EXCEPT ![h] = j] BY <1>1 DEF Published
<1>3. i \in Jobs /\ i.copy = job[h].copy /\ i.epoch = job[h].epoch /\ i.at = p BY <1>1 DEF Jobs
<1> HIDE DEF i
<1>4. j \in Jobs /\ j.copy = i.copy /\ j.epoch = i.epoch /\ j.at = i.at /\ j.retry = c
  BY <1>1, <1>3 DEF Jobs
<1> HIDE DEF j
<1>5. QED BY <1>1, <1>2, <1>3, <1>4


-----------------------------------------------------------------------------
(* The steps.                                                                *)
LEMMA DeliverIInv == ASSUME IInv, NEW h \in Handlers, Deliver(h) PROVE IInv'
<1> USE RetryAssumption DEF IInv
<1>1. PICK c \in Copies :
        /\ place[c] = "ready" /\ place' = [place EXCEPT ![c] = "flight"]
        /\ job' = [job EXCEPT ![h] = [Idle EXCEPT !.at = "handling", !.copy = c, !.epoch = epoch]]
  BY DEF Deliver
<1>2. job[h].at = "idle" /\ UNCHANGED <<header, wait, epoch, handled, joined, faults>> BY DEF Deliver
<1>3. place' \in [Copies -> Places] /\ place'[c] = "flight"
      /\ \A d \in Copies \ {c} : place'[d] = place[d]
  BY <1>1 DEF Typing, Places
<1>4. job'[h] = [at |-> "handling", copy |-> c, epoch |-> epoch, requeue |-> FALSE, retry |-> 0]
      /\ \A k \in Handlers \ {h} : job'[k] = job[k]
  BY <1>1 DEF Typing, Idle
<1>5. job' \in [Handlers -> Jobs]
  <2>1. [at |-> "handling", copy |-> c, epoch |-> epoch, requeue |-> FALSE, retry |-> 0] \in Jobs
    BY DEF Jobs, Points, Typing, Copies
  <2>2. QED BY <1>1, <2>1 DEF Typing, Idle
<1>6. Typing' BY <1>2, <1>3, <1>5 DEF Typing
<1>7. Staged' BY <1>2, <1>3, <1>4 DEF Staged, Typing, Early, Exhausted, RetryCount
<1>8. InOrder'
  <2>1. job'[h].at = "handling" /\ job'[h].copy = c /\ job'[h].retry = 0 BY <1>4
  <2>2. \A d \in Copies : place'[d] = "unused" <=> place[d] = "unused" BY <1>1, <1>3
  <2>3. QED BY <1>2, <1>3, <1>4, <2>1, <2>2, OrderStays
<1>9. Delivered' BY <1>1, <1>2, <1>3, <1>4 DEF Delivered, Mine, Staged, Typing
<1>10. Kept' BY <1>1, <1>2, <1>3, <1>4 DEF Kept, Safe, Staged, InOrder, Typing, Copies
<1>11. HeldLongEnough' BY <1>1, <1>2, <1>3 DEF HeldLongEnough, Promised
<1>12. Countable /\ Countable' BY <1>6, <1>7, Counted, CountedNext
<1>13. Lived'
  <2>1. Resting' = Resting \ {c} /\ c \in Resting BY <1>1, <1>3 DEF Resting
  <2>2. Bearing' = Bearing \cup {h} /\ h \notin Bearing
    BY <1>2, <1>4 DEF Bearing, Mine, Early
  <2>3. Cardinality(Resting') = Cardinality(Resting) - 1
    BY <1>12, <2>1, FS_RemoveElement DEF Countable
  <2>4. Cardinality(Bearing') = Cardinality(Bearing) + 1 BY <1>12, <2>2, FS_AddElement DEF Countable
  <2>5. Cardinality(Resting) \in Nat /\ Cardinality(Bearing) \in Nat BY <1>12 DEF Countable
  <2>6. QED BY <1>2, <1>12, <2>3, <2>4, <2>5, LivedStays
<1>14. Budgeted'
  <2>1. \A d \in Copies : Runs(d)' = Runs(d) BY <1>2 DEF Runs, RetryCount
  <2>2. RunsAhead[c] = Runs(c) /\ RunsAhead'[c] = 0
        /\ \A d \in Copies \ {c} : RunsAhead'[d] = RunsAhead[d]
    BY <1>1, <1>3, <2>1 DEF RunsAhead
  <2>3. RunsAtWork[h] = 0 /\ RunsAtWork'[h] = Runs(c)
        /\ \A k \in Handlers \ {h} : RunsAtWork'[k] = RunsAtWork[k]
    BY <1>2, <1>4, <2>1 DEF RunsAtWork, Mine, Staged
  <2>4. Area(RunsAhead') = Area(RunsAhead) - Runs(c) + 0
    BY <1>12, <2>2, CopiesFinite, AreaPoint DEF Countable
  <2>5. Area(RunsAtWork') = Area(RunsAtWork) - 0 + Runs(c)
    BY <1>12, <2>3, AreaPoint DEF Countable
  <2>6. Runs(c) \in 1..(MaxRetries + 1) BY RunsBound
  <2>7. Area(RunsAhead) \in Nat /\ Area(RunsAtWork) \in Nat BY <1>12 DEF Countable
  <2>8. Area(RunsAhead') + Area(RunsAtWork') + 0 <= Area(RunsAhead) + Area(RunsAtWork)
    BY <2>4, <2>5, <2>6, <2>7
  <2>9. handled' = handled + 0 BY <1>2 DEF Typing
  <2>10. QED BY <1>2, <1>12, <2>8, <2>9, BudgetStays
<1>15. QED BY <1>6, <1>7, <1>8, <1>9, <1>10, <1>11, <1>13, <1>14

LEMMA HandlerOkIInv == ASSUME IInv, NEW h \in Handlers, HandlerOk(h) PROVE IInv'
<1> USE RetryAssumption DEF IInv
<1>1. job[h].at = "handling" /\ handled' = handled + 1
      /\ UNCHANGED <<place, header, wait, epoch, joined, faults>>
  BY DEF HandlerOk
<1>2. /\ job' \in [Handlers -> Jobs]
      /\ \A k \in Handlers \ {h} : job'[k] = job[k]
  BY DEF HandlerOk, Goto, Typing, Jobs, Points
<1>3. /\ job'[h].at = "ack" /\ job'[h].copy = job[h].copy /\ job'[h].epoch = job[h].epoch
      /\ job'[h].requeue = job[h].requeue /\ job'[h].retry = job[h].retry
  BY DEF HandlerOk, Goto, Typing, Jobs
<1>4. job[h].copy \in Copies /\ job[h].retry = 0 /\ handled \in Nat
  BY <1>1 DEF Staged, Early, Typing
<1>5. Typing' BY <1>1, <1>2, <1>3, <1>4 DEF Typing, Places
<1>6. Staged' BY <1>1, <1>2, <1>3, <1>4 DEF Staged, Typing, Early, Exhausted, RetryCount
<1>7. InOrder' BY <1>1, <1>2, <1>3, <1>4, OrderStays DEF Staged, InOrder
<1>8. Delivered'
  <2>1. \A k \in Handlers : job[k].at # "idle" => job[k].copy \in Copies BY DEF Staged
  <2>2. \A k \in Handlers : /\ job'[k].copy = job[k].copy /\ job'[k].epoch = job[k].epoch
                            /\ job'[k].at = "idle" <=> job[k].at = "idle"
    BY <1>1, <1>2, <1>3, <1>4
  <2>3. \A d \in Copies : place'[d] = "flight" <=> place[d] = "flight" BY <1>1, <1>2, <1>3, <1>4
  <2>4. QED BY <1>1, <1>2, <1>3, <1>4, <2>1, <2>2, <2>3, DeliveredStays
<1>9. Kept' BY SMTT(30), <1>1, <1>2, <1>3, <1>4 DEF Kept, Safe, Staged, InOrder, Typing, Copies
<1>10. HeldLongEnough' BY <1>1, <1>2, <1>3, <1>4 DEF HeldLongEnough, Promised
<1>11. Countable /\ Countable' BY <1>5, <1>6, Counted, CountedNext
<1>12. Lived'
  <2>1. Resting' \subseteq Resting
    BY <1>1, <1>2, <1>3, <1>4 DEF Resting
  <2>2. Bearing' \subseteq Bearing
    BY <1>1, <1>2, <1>3, <1>4 DEF Bearing, Mine, Early, Staged
  <2>3. /\ Cardinality(Resting') <= Cardinality(Resting)
        /\ Cardinality(Bearing') <= Cardinality(Bearing)
    BY <1>11, <2>1, <2>2, FS_Subset DEF Countable
  <2>4. /\ Cardinality(Resting) \in Nat
        /\ Cardinality(Bearing) \in Nat
        /\ Cardinality(Resting') \in Nat /\ Cardinality(Bearing') \in Nat
    BY <1>11 DEF Countable
  <2>5. Cardinality(Resting') + Cardinality(Bearing') <= Cardinality(Resting) + Cardinality(Bearing)
    BY <2>3, <2>4
  <2>6. QED BY <1>1, <1>2, <1>3, <1>4, <1>11, <2>1, <2>2, <2>3, <2>4, <2>5, LivedStays
<1>13. Budgeted'
  <2>1. \A d \in Copies : Runs(d)' = Runs(d)
    BY <1>1, <1>2, <1>3, <1>4 DEF Runs, RetryCount
  <2>2. RunsAhead' = RunsAhead
    BY <1>1, <1>2, <1>3, <1>4, <2>1 DEF RunsAhead
  <2>3. /\ RunsAtWork[h] = Runs(job[h].copy) /\ RunsAtWork'[h] = 0
        /\ \A k \in Handlers \ {h} : RunsAtWork'[k] = RunsAtWork[k]
    BY <1>1, <1>2, <1>3, <1>4, <2>1 DEF RunsAtWork, Mine, Staged
  <2>4. Area(RunsAtWork') = Area(RunsAtWork) - Runs(job[h].copy) + 0
    BY <1>11, <2>3, AreaPoint DEF Countable
  <2>5. Runs(job[h].copy) \in 1..(MaxRetries + 1)
    BY <1>1, <1>2, <1>3, <1>4, RunsBound
  <2>6. Area(RunsAhead) \in Nat /\ Area(RunsAtWork) \in Nat
    BY <1>11 DEF Countable
  <2>7. 1 \in Nat /\ Area(RunsAhead') + Area(RunsAtWork') + 1 <= Area(RunsAhead) + Area(RunsAtWork)
    BY <2>2, <2>4, <2>5, <2>6
  <2>8. QED BY <1>1, <1>2, <1>3, <1>4, <1>11, <2>1, <2>2, <2>3, <2>4, <2>5, <2>6, <2>7, BudgetStays
<1>14. QED BY <1>5, <1>6, <1>7, <1>8, <1>9, <1>10, <1>12, <1>13

LEMMA DeclareIInv == ASSUME IInv, NEW h \in Handlers, Declare(h) PROVE IInv'
<1> USE RetryAssumption DEF IInv
<1>1. job[h].at = "declare"
      /\ UNCHANGED <<place, header, wait, epoch, handled, joined, faults>>
  BY DEF Declare
<1>2. /\ job' \in [Handlers -> Jobs]
      /\ \A k \in Handlers \ {h} : job'[k] = job[k]
  BY DEF Declare, Goto, Typing, Jobs, Points
<1>3. /\ job'[h].at = "publish" /\ job'[h].copy = job[h].copy /\ job'[h].epoch = job[h].epoch
      /\ job'[h].requeue = job[h].requeue /\ job'[h].retry = job[h].retry
  BY DEF Declare, Goto, Typing, Jobs
<1>4. job[h].copy \in Copies /\ job[h].retry = 0 /\ ~Exhausted(h)
  BY <1>1 DEF Staged, Early
<1>5. Typing' BY <1>1, <1>2, <1>3, <1>4 DEF Typing, Places
<1>6. Staged' BY <1>1, <1>2, <1>3, <1>4 DEF Staged, Typing, Early, Exhausted, RetryCount
<1>7. InOrder' BY <1>1, <1>2, <1>3, <1>4, OrderStays DEF Staged, InOrder
<1>8. Delivered'
  <2>1. \A k \in Handlers : job[k].at # "idle" => job[k].copy \in Copies BY DEF Staged
  <2>2. \A k \in Handlers : /\ job'[k].copy = job[k].copy /\ job'[k].epoch = job[k].epoch
                            /\ job'[k].at = "idle" <=> job[k].at = "idle"
    BY <1>1, <1>2, <1>3, <1>4
  <2>3. \A d \in Copies : place'[d] = "flight" <=> place[d] = "flight" BY <1>1, <1>2, <1>3, <1>4
  <2>4. QED BY <1>1, <1>2, <1>3, <1>4, <2>1, <2>2, <2>3, DeliveredStays
<1>9. Kept' BY ZenonT(40), <1>1, <1>2, <1>3, <1>4 DEF Kept, Safe, Staged, InOrder, Typing, Copies
<1>10. HeldLongEnough' BY <1>1, <1>2, <1>3, <1>4 DEF HeldLongEnough, Promised
<1>11. Countable /\ Countable' BY <1>5, <1>6, Counted, CountedNext
<1>12. Lived'
  <2>1. Resting' \subseteq Resting
    BY <1>1, <1>2, <1>3, <1>4 DEF Resting
  <2>2. Bearing' \subseteq Bearing
    BY <1>1, <1>2, <1>3, <1>4 DEF Bearing, Mine, Early, Staged
  <2>3. /\ Cardinality(Resting') <= Cardinality(Resting)
        /\ Cardinality(Bearing') <= Cardinality(Bearing)
    BY <1>11, <2>1, <2>2, FS_Subset DEF Countable
  <2>4. /\ Cardinality(Resting) \in Nat
        /\ Cardinality(Bearing) \in Nat
        /\ Cardinality(Resting') \in Nat /\ Cardinality(Bearing') \in Nat
    BY <1>11 DEF Countable
  <2>5. Cardinality(Resting') + Cardinality(Bearing') <= Cardinality(Resting) + Cardinality(Bearing)
    BY <2>3, <2>4
  <2>6. QED BY <1>1, <1>2, <1>3, <1>4, <1>11, <2>1, <2>2, <2>3, <2>4, <2>5, LivedStays
<1>13. Budgeted'
  <2>1. \A d \in Copies : Runs(d)' = Runs(d)
    BY <1>1, <1>2, <1>3, <1>4 DEF Runs, RetryCount
  <2>2. \A d \in Copies : RunsAhead'[d] <= RunsAhead[d]
    BY <1>1, <1>2, <1>3, <1>4, <1>11, <2>1 DEF RunsAhead, Countable, Bounded
  <2>3. \A k \in Handlers : RunsAtWork'[k] <= RunsAtWork[k]
    BY <1>1, <1>2, <1>3, <1>4, <1>11, <2>1, RunsBound
       DEF RunsAtWork, Mine, Staged, Countable, Bounded
  <2>4. Area(RunsAhead') <= Area(RunsAhead) /\ Area(RunsAtWork') <= Area(RunsAtWork)
    BY <1>11, <2>2, <2>3, CopiesFinite, AreaLess DEF Countable
  <2>5. Area(RunsAhead) \in Nat /\ Area(RunsAtWork) \in Nat
        /\ Area(RunsAhead') \in Nat /\ Area(RunsAtWork') \in Nat
    BY <1>11 DEF Countable
  <2>6. /\ 0 \in Nat /\ handled' = handled + 0
        /\ Area(RunsAhead') + Area(RunsAtWork') + 0 <= Area(RunsAhead) + Area(RunsAtWork)
    BY <1>1, <1>2, <1>3, <1>4, <2>4, <2>5 DEF Typing
  <2>7. QED BY <1>1, <1>2, <1>3, <1>4, <1>11, <2>1, <2>2, <2>3, <2>4, <2>5, <2>6, BudgetStays
<1>14. QED BY <1>5, <1>6, <1>7, <1>8, <1>9, <1>10, <1>12, <1>13

LEMMA ConfirmedIInv == ASSUME IInv, NEW h \in Handlers, Confirmed(h) PROVE IInv'
<1> USE RetryAssumption DEF IInv
<1>1. job[h].at = "confirm" /\ place[job[h].retry] \notin {"wire", "lost"}
      /\ UNCHANGED <<place, header, wait, epoch, handled, joined, faults>>
  BY DEF Confirmed, Awaited
<1>2. /\ job' \in [Handlers -> Jobs]
      /\ \A k \in Handlers \ {h} : job'[k] = job[k]
  BY ZenonT(40) DEF Confirmed, Scheduled, Typing, Jobs, Points
<1>3. /\ job'[h].at = "ack" /\ job'[h].copy = job[h].copy /\ job'[h].epoch = job[h].epoch
      /\ job'[h].requeue = FALSE /\ job'[h].retry = job[h].retry
  BY DEF Confirmed, Scheduled, Typing, Jobs
<1>4. job[h].copy \in Copies /\ job[h].retry \in Copies /\ job[h].retry # 0
      /\ place[job[h].retry] # "unused"
  BY <1>1 DEF Staged, InOrder, Copies
<1>5. Typing' BY <1>1, <1>2, <1>3, <1>4 DEF Typing, Places
<1>6. Staged' BY <1>1, <1>2, <1>3, <1>4 DEF Staged, Typing, Early, Exhausted, RetryCount
<1>7. InOrder' BY <1>1, <1>2, <1>3, <1>4, OrderStays DEF Staged, InOrder
<1>8. Delivered'
  <2>1. \A k \in Handlers : job[k].at # "idle" => job[k].copy \in Copies BY DEF Staged
  <2>2. \A k \in Handlers : /\ job'[k].copy = job[k].copy /\ job'[k].epoch = job[k].epoch
                            /\ job'[k].at = "idle" <=> job[k].at = "idle"
    BY <1>1, <1>2, <1>3, <1>4
  <2>3. \A d \in Copies : place'[d] = "flight" <=> place[d] = "flight" BY <1>1, <1>2, <1>3, <1>4
  <2>4. QED BY <1>1, <1>2, <1>3, <1>4, <2>1, <2>2, <2>3, DeliveredStays
<1>9. Kept' BY <1>1, <1>2, <1>3, <1>4 DEF Kept, Safe, Staged, InOrder, Typing, Copies
<1>10. HeldLongEnough' BY <1>1, <1>2, <1>3, <1>4 DEF HeldLongEnough, Promised
<1>11. Countable /\ Countable' BY <1>5, <1>6, Counted, CountedNext
<1>12. Lived'
  <2>1. Resting' \subseteq Resting
    BY <1>1, <1>2, <1>3, <1>4 DEF Resting
  <2>2. Bearing' \subseteq Bearing
    BY <1>1, <1>2, <1>3, <1>4 DEF Bearing, Mine, Early, Staged
  <2>3. /\ Cardinality(Resting') <= Cardinality(Resting)
        /\ Cardinality(Bearing') <= Cardinality(Bearing)
    BY <1>11, <2>1, <2>2, FS_Subset DEF Countable
  <2>4. /\ Cardinality(Resting) \in Nat
        /\ Cardinality(Bearing) \in Nat
        /\ Cardinality(Resting') \in Nat /\ Cardinality(Bearing') \in Nat
    BY <1>11 DEF Countable
  <2>5. Cardinality(Resting') + Cardinality(Bearing') <= Cardinality(Resting) + Cardinality(Bearing)
    BY <2>3, <2>4
  <2>6. QED BY <1>1, <1>2, <1>3, <1>4, <1>11, <2>1, <2>2, <2>3, <2>4, <2>5, LivedStays
<1>13. Budgeted'
  <2>1. \A d \in Copies : Runs(d)' = Runs(d)
    BY <1>1, <1>2, <1>3, <1>4 DEF Runs, RetryCount
  <2>2. \A d \in Copies : RunsAhead'[d] <= RunsAhead[d]
    BY <1>1, <1>2, <1>3, <1>4, <1>11, <2>1 DEF RunsAhead, Countable, Bounded
  <2>3. \A k \in Handlers : RunsAtWork'[k] <= RunsAtWork[k]
    BY <1>1, <1>2, <1>3, <1>4, <1>11, <2>1, RunsBound
       DEF RunsAtWork, Mine, Staged, Countable, Bounded
  <2>4. Area(RunsAhead') <= Area(RunsAhead) /\ Area(RunsAtWork') <= Area(RunsAtWork)
    BY <1>11, <2>2, <2>3, CopiesFinite, AreaLess DEF Countable
  <2>5. Area(RunsAhead) \in Nat /\ Area(RunsAtWork) \in Nat
        /\ Area(RunsAhead') \in Nat /\ Area(RunsAtWork') \in Nat
    BY <1>11 DEF Countable
  <2>6. /\ 0 \in Nat /\ handled' = handled + 0
        /\ Area(RunsAhead') + Area(RunsAtWork') + 0 <= Area(RunsAhead) + Area(RunsAtWork)
    BY <1>1, <1>2, <1>3, <1>4, <2>4, <2>5 DEF Typing
  <2>7. QED BY <1>1, <1>2, <1>3, <1>4, <1>11, <2>1, <2>2, <2>3, <2>4, <2>5, <2>6, BudgetStays
<1>14. QED BY <1>5, <1>6, <1>7, <1>8, <1>9, <1>10, <1>12, <1>13

LEMMA ScheduleFailsIInv == ASSUME IInv, NEW h \in Handlers, ScheduleFails(h) PROVE IInv'
<1> USE RetryAssumption DEF IInv
<1>1. job[h].at \in {"declare", "publish"} /\ Fault
      /\ UNCHANGED <<place, header, wait, epoch, handled, joined>>
  BY DEF ScheduleFails
<1>2. /\ job' \in [Handlers -> Jobs]
      /\ \A k \in Handlers \ {h} : job'[k] = job[k]
  BY SettlingOne DEF ScheduleFails
<1>3. /\ job'[h].at = "settle" /\ job'[h].copy = job[h].copy /\ job'[h].epoch = job[h].epoch
      /\ job'[h].requeue = job[h].requeue /\ job'[h].retry = 0
  BY SettlingOne DEF ScheduleFails
<1>4. job[h].copy \in Copies /\ job[h].retry = 0
  BY <1>1 DEF Staged, Early
<1>5. Typing' BY <1>1, <1>2, <1>3, <1>4 DEF Typing, Places, Fault
<1>6. Staged' BY <1>1, <1>2, <1>3, <1>4 DEF Staged, Typing, Early, Exhausted, RetryCount
<1>7. InOrder' BY <1>1, <1>2, <1>3, <1>4, OrderStays DEF Staged, InOrder
<1>8. Delivered'
  <2>1. \A k \in Handlers : job[k].at # "idle" => job[k].copy \in Copies BY DEF Staged
  <2>2. \A k \in Handlers : /\ job'[k].copy = job[k].copy /\ job'[k].epoch = job[k].epoch
                            /\ job'[k].at = "idle" <=> job[k].at = "idle"
    BY <1>1, <1>2, <1>3, <1>4
  <2>3. \A d \in Copies : place'[d] = "flight" <=> place[d] = "flight" BY <1>1, <1>2, <1>3, <1>4
  <2>4. QED BY <1>1, <1>2, <1>3, <1>4, <2>1, <2>2, <2>3, DeliveredStays
<1>9. Kept' BY <1>1, <1>2, <1>3, <1>4 DEF Kept, Safe, Staged, InOrder, Typing, Copies
<1>10. HeldLongEnough' BY <1>1, <1>2, <1>3, <1>4 DEF HeldLongEnough, Promised
<1>11. Countable /\ Countable' BY <1>5, <1>6, Counted, CountedNext
<1>12. Lived' /\ Budgeted'
  <2>1. \A d \in Copies : Runs(d)' = Runs(d) BY <1>1, <1>2, <1>3, <1>4 DEF Runs, RetryCount
  <2>2. \A d \in Copies : RunsAhead'[d] <= RunsAhead[d]
    BY <1>1, <1>2, <1>3, <1>4, <1>11, <2>1 DEF RunsAhead, Countable, Bounded
  <2>3. Resting' \subseteq Resting BY <1>1, <1>2, <1>3, <1>4 DEF Resting
  <2>4. QED BY <1>1, <1>2, <1>3, <1>4, <1>11, <2>2, <2>3, JobsFault
<1>13. QED BY <1>5, <1>6, <1>7, <1>8, <1>9, <1>10, <1>12

LEMMA ConfirmTimeoutIInv == ASSUME IInv, NEW h \in Handlers, ConfirmTimeout(h) PROVE IInv'
<1> USE RetryAssumption DEF IInv
<1>1. job[h].at = "confirm" /\ Fault /\ UNCHANGED <<place, header, wait, epoch, handled, joined>>
  BY DEF ConfirmTimeout
<1>2. /\ job' \in [Handlers -> Jobs]
      /\ \A k \in Handlers \ {h} : job'[k] = job[k]
  BY SettlingOne DEF ConfirmTimeout
<1>3. /\ job'[h].at = "settle" /\ job'[h].copy = job[h].copy /\ job'[h].epoch = job[h].epoch
      /\ job'[h].requeue = job[h].requeue /\ job'[h].retry = 0
  BY SettlingOne DEF ConfirmTimeout
<1>4. job[h].copy \in Copies
  BY <1>1 DEF Staged, Early
<1>5. Typing' BY <1>1, <1>2, <1>3, <1>4 DEF Typing, Places, Fault
<1>6. Staged' BY <1>1, <1>2, <1>3, <1>4 DEF Staged, Typing, Early, Exhausted, RetryCount
<1>7. InOrder' BY <1>1, <1>2, <1>3, <1>4, OrderStays DEF Staged, InOrder
<1>8. Delivered'
  <2>1. \A k \in Handlers : job[k].at # "idle" => job[k].copy \in Copies BY DEF Staged
  <2>2. \A k \in Handlers : /\ job'[k].copy = job[k].copy /\ job'[k].epoch = job[k].epoch
                            /\ job'[k].at = "idle" <=> job[k].at = "idle"
    BY <1>1, <1>2, <1>3, <1>4
  <2>3. \A d \in Copies : place'[d] = "flight" <=> place[d] = "flight" BY <1>1, <1>2, <1>3, <1>4
  <2>4. QED BY <1>1, <1>2, <1>3, <1>4, <2>1, <2>2, <2>3, DeliveredStays
<1>9. Kept' BY SMTT(30), <1>1, <1>2, <1>3, <1>4 DEF Kept, Safe, Staged, InOrder, Typing, Copies
<1>10. HeldLongEnough' BY <1>1, <1>2, <1>3, <1>4 DEF HeldLongEnough, Promised
<1>11. Countable /\ Countable' BY <1>5, <1>6, Counted, CountedNext
<1>12. Lived' /\ Budgeted'
  <2>1. \A d \in Copies : Runs(d)' = Runs(d) BY <1>1, <1>2, <1>3, <1>4 DEF Runs, RetryCount
  <2>2. \A d \in Copies : RunsAhead'[d] <= RunsAhead[d]
    BY <1>1, <1>2, <1>3, <1>4, <1>11, <2>1 DEF RunsAhead, Countable, Bounded
  <2>3. Resting' \subseteq Resting BY <1>1, <1>2, <1>3, <1>4 DEF Resting
  <2>4. QED BY <1>1, <1>2, <1>3, <1>4, <1>11, <2>2, <2>3, JobsFault
<1>13. QED BY <1>5, <1>6, <1>7, <1>8, <1>9, <1>10, <1>12

LEMMA NackedIInv == ASSUME IInv, NEW h \in Handlers, Nacked(h) PROVE IInv'
<1> USE RetryAssumption DEF IInv
<1>1. job[h].at = "confirm" /\ place[job[h].retry] = "wire" /\ Fault
      /\ UNCHANGED <<header, wait, epoch, handled, joined>>
  BY DEF Nacked, Awaited
<1>2. /\ job' \in [Handlers -> Jobs]
      /\ \A k \in Handlers \ {h} : job'[k] = job[k]
  BY SettlingOne DEF Nacked
<1>3. /\ job'[h].at = "settle" /\ job'[h].copy = job[h].copy /\ job'[h].epoch = job[h].epoch
      /\ job'[h].requeue = job[h].requeue /\ job'[h].retry = 0
  BY SettlingOne DEF Nacked
<1>4. job[h].copy \in Copies /\ job[h].retry \in Copies
  BY <1>1 DEF Staged, Early
<1>5. /\ place' \in [Copies -> Places] /\ place'[job[h].retry] = "lost"
      /\ \A d \in Copies \ {job[h].retry} : place'[d] = place[d]
  BY <1>4 DEF Nacked, Typing, Places
<1>6. Typing' BY <1>1, <1>2, <1>3, <1>4, <1>5 DEF Typing, Places, Fault
<1>7. Staged' BY SMTT(30), <1>1, <1>2, <1>3, <1>4, <1>5
      DEF Staged, Typing, Early, Exhausted, RetryCount
<1>8. InOrder' BY <1>1, <1>2, <1>3, <1>4, <1>5, OrderStays DEF Staged, InOrder
<1>9. Delivered'
  <2>1. \A k \in Handlers : job[k].at # "idle" => job[k].copy \in Copies BY DEF Staged
  <2>2. \A k \in Handlers : /\ job'[k].copy = job[k].copy /\ job'[k].epoch = job[k].epoch
                            /\ job'[k].at = "idle" <=> job[k].at = "idle"
    BY <1>1, <1>2, <1>3, <1>4, <1>5
  <2>3. \A d \in Copies : place'[d] = "flight" <=> place[d] = "flight"
    BY <1>1, <1>2, <1>3, <1>4, <1>5
  <2>4. QED BY <1>1, <1>2, <1>3, <1>4, <1>5, <2>1, <2>2, <2>3, DeliveredStays
<1>10. Kept'
  <2>1. \A d \in Copies : Safe(d) => Safe(d)' BY <1>1, <1>5 DEF Safe
  <2>2. \A d \in Copies : place'[d] = "moved" => place[d] = "moved" BY <1>5
  <2>3. \A k \in Handlers : job'[k].at = "ack" => job'[k] = job[k] BY <1>2, <1>3
  <2>4. \A k \in Handlers : job[k].retry # 0 => job[k].retry \in Copies
    BY DEF Typing, Jobs, Copies
  <2>5. 1 \in Copies BY DEF Copies
  <2>6. QED BY <2>1, <2>2, <2>3, <2>4, <2>5 DEF Kept
<1>11. HeldLongEnough' BY ZenonT(40), <1>1, <1>2, <1>3, <1>4, <1>5 DEF HeldLongEnough, Promised
<1>12. Countable /\ Countable' BY <1>6, <1>7, Counted, CountedNext
<1>13. Lived' /\ Budgeted'
  <2>1. \A d \in Copies : Runs(d)' = Runs(d) BY <1>1, <1>2, <1>3, <1>4, <1>5 DEF Runs, RetryCount
  <2>2. \A d \in Copies : RunsAhead'[d] <= RunsAhead[d]
    BY <1>1, <1>2, <1>3, <1>4, <1>5, <1>12, <2>1 DEF RunsAhead, Countable, Bounded
  <2>3. Resting' \subseteq Resting BY <1>1, <1>2, <1>3, <1>4, <1>5 DEF Resting
  <2>4. QED BY <1>1, <1>2, <1>3, <1>4, <1>5, <1>12, <2>2, <2>3, JobsFault
<1>14. QED BY <1>6, <1>7, <1>8, <1>9, <1>10, <1>11, <1>13

LEMMA PublisherDiesIInv == ASSUME IInv, PublisherDies PROVE IInv'
<1> USE RetryAssumption DEF IInv
<1>1. Fault /\ UNCHANGED <<header, wait, epoch, handled, joined>>
  BY DEF PublisherDies
<1>2. \A k \in Handlers :
        /\ job[k].at # "confirm" => job'[k] = job[k]
        /\ job[k].at = "confirm" => job'[k] = [job[k] EXCEPT !.at = "settle", !.retry = 0]
  BY DEF PublisherDies
<1>3. /\ job' \in [Handlers -> Jobs]
      /\ \A k \in Handlers : job[k].at = "confirm" =>
           /\ job'[k].at = "settle" /\ job'[k].copy = job[k].copy /\ job'[k].epoch = job[k].epoch
           /\ job'[k].retry = 0
  <2>1. \A k \in Handlers : job[k].at = "confirm" =>
           /\ job'[k] \in Jobs
           /\ job'[k].at = "settle" /\ job'[k].copy = job[k].copy /\ job'[k].epoch = job[k].epoch
           /\ job'[k].retry = 0
    <3> SUFFICES ASSUME NEW k \in Handlers, job[k].at = "confirm"
        PROVE  /\ job'[k] \in Jobs
               /\ job'[k].at = "settle" /\ job'[k].copy = job[k].copy
               /\ job'[k].epoch = job[k].epoch /\ job'[k].retry = 0
      OBVIOUS
    <3>1. job[k] \in Jobs BY DEF Typing
    <3>2. QED BY ZenonT(40), <1>2, <3>1, Settling
  <2>2. \A k \in Handlers : job'[k] \in Jobs BY <1>2, <2>1 DEF Typing
  <2>3. job' = [k \in Handlers |-> job'[k]] BY DEF PublisherDies
  <2>4. QED BY <2>1, <2>2, <2>3
<1>4. /\ place' \in [Copies -> Places]
      /\ \A d \in Copies : place[d] # "wire" => place'[d] = place[d]
      /\ \A d \in Copies : place[d] = "wire" => place'[d] \in {"held", "lost"}
  BY DEF PublisherDies, Cut, Typing, Places
<1>5. Typing'
  BY <1>1, <1>3, <1>4 DEF Typing, Fault
<1>6. Staged'
  <2>1. \A k \in Handlers : job'[k].at = "idle" <=> job[k].at = "idle" BY <1>2, <1>3
  <2>2. QED BY <1>1, <1>2, <1>3 DEF Staged, Early, Exhausted, RetryCount
<1>7. InOrder'
  <2>1. \A d \in Copies : place'[d] = "unused" <=> place[d] = "unused" BY <1>1, <1>2, <1>3, <1>4
  <2>2. \A k \in Handlers : job'[k].at # "idle" => job[k].at # "idle" /\ job'[k].copy = job[k].copy
    BY <1>1, <1>2, <1>3, <1>4
  <2>3. \A k \in Handlers : job'[k].retry # 0 =>
          job'[k].copy = job[k].copy /\ job'[k].retry = job[k].retry /\ job[k].retry \in Copies
    <3>1. \A k \in Handlers : job[k].retry # 0 => job[k].retry \in Copies
      BY DEF Typing, Jobs, Copies
    <3>2. QED BY <1>2, <1>3, <3>1
  <2>4. \A k \in Handlers : job[k].at # "idle" => job[k].copy \in Copies BY DEF Staged
  <2>5. 1 \in Copies BY DEF Copies
  <2>6. header' = header BY <1>1
  <2>7. QED BY <2>1, <2>2, <2>3, <2>4, <2>5, <2>6 DEF InOrder
<1>8. Delivered'
  <2>1. \A k \in Handlers : job[k].at # "idle" => job[k].copy \in Copies BY DEF Staged
  <2>2. \A k \in Handlers : /\ job'[k].copy = job[k].copy /\ job'[k].epoch = job[k].epoch
                            /\ job'[k].at = "idle" <=> job[k].at = "idle"
    BY <1>1, <1>2, <1>3, <1>4
  <2>3. \A d \in Copies : place'[d] = "flight" <=> place[d] = "flight" BY <1>1, <1>2, <1>3, <1>4
  <2>4. QED BY <1>1, <1>2, <1>3, <1>4, <2>1, <2>2, <2>3, DeliveredStays
<1>9. Kept'
  <2>1. \A d \in Copies : Safe(d) => Safe(d)' BY <1>1, <1>2, <1>3, <1>4 DEF Safe
  <2>2. \A d \in Copies : place'[d] = "moved" => place[d] = "moved" BY <1>1, <1>2, <1>3, <1>4
  <2>3. \A k \in Handlers : job'[k].at = "ack" => job'[k] = job[k] BY <1>1, <1>2, <1>3, <1>4
  <2>4. \A k \in Handlers : job[k].retry # 0 => job[k].retry \in Copies
    BY DEF Typing, Jobs, Copies
  <2>5. 1 \in Copies BY DEF Copies
  <2>6. QED BY <2>1, <2>2, <2>3, <2>4, <2>5 DEF Kept
<1>10. HeldLongEnough'
  BY <1>1, <1>4 DEF HeldLongEnough, Promised
<1>11. Countable /\ Countable' BY <1>5, <1>6, Counted, CountedNext
<1>12. Lived' /\ Budgeted'
  <2>1. \A d \in Copies : Runs(d)' = Runs(d) BY <1>1 DEF Runs, RetryCount
  <2>2. \A d \in Copies : RunsAhead'[d] <= RunsAhead[d]
    BY <1>4, <1>11, <2>1 DEF RunsAhead, Countable, Bounded
  <2>3. Resting' \subseteq Resting BY <1>4 DEF Resting
  <2>4. QED BY <1>1, <1>11, <2>2, <2>3, JobsFault
<1>13. QED BY <1>5, <1>6, <1>7, <1>8, <1>9, <1>10, <1>12

LEMMA HandlerFailsIInv == ASSUME IInv, NEW h \in Handlers, HandlerFails(h) PROVE IInv'
<1> USE RetryAssumption DEF IInv
<1>1. PICK err \in Errors :
        /\ job' = [job EXCEPT
              ![h].requeue = RequeueDecision(IF "drop" \notin err /\ Exhausted(h)
                                             THEN {"drop"} ELSE err),
              ![h].at = IF "drop" \in err \/ Exhausted(h) THEN "settle" ELSE "declare"]
        /\ Returned(err)
  BY DEF HandlerFails
<1>2. job[h].at = "handling" /\ handled' = handled + 1
      /\ UNCHANGED <<place, header, wait, epoch, faults>>
  BY DEF HandlerFails
<1>3. /\ job' \in [Handlers -> Jobs]
      /\ \A k \in Handlers \ {h} : job'[k] = job[k]
  <2>1. RequeueDecision(IF "drop" \notin err /\ Exhausted(h) THEN {"drop"} ELSE err) \in BOOLEAN
    BY DEF RequeueDecision
  <2>2. (IF "drop" \in err \/ Exhausted(h) THEN "settle" ELSE "declare") \in Points BY DEF Points
  <2>3. job' \in [Handlers -> Jobs] BY <1>1, <2>1, <2>2, FailingOne
  <2>4. QED BY <1>1, <2>3 DEF Typing
<1>4. /\ job'[h].copy = job[h].copy /\ job'[h].epoch = job[h].epoch /\ job'[h].retry = job[h].retry
      /\ job'[h].at = "settle" \/ (job'[h].at = "declare" /\ ~Exhausted(h))
  BY <1>1 DEF Typing, Jobs
<1>5. job'[h].at = "settle" /\ job'[h].requeue => joined' = joined + 1
  <2>1. job'[h].requeue = RequeueDecision(IF "drop" \notin err /\ Exhausted(h)
                                           THEN {"drop"} ELSE err)
    BY <1>1 DEF Typing, Jobs
  <2>2. job'[h].at = "settle" => "drop" \in err \/ Exhausted(h) BY <1>1 DEF Typing, Jobs
  <2>3. CASE "drop" \in err BY <1>1, <2>1, <2>3 DEF RequeueDecision, Returned
  <2>4. CASE "drop" \notin err /\ Exhausted(h)
    <3>1. ~RequeueDecision({"drop"}) BY DEF RequeueDecision
    <3>2. QED BY <2>1, <2>4, <3>1
  <2>5. QED BY <2>2, <2>3, <2>4
<1>6. joined \in Nat /\ joined' \in 0..MaxJoined /\ (joined' = joined \/ joined' = joined + 1)
  BY <1>1 DEF Returned, Typing
<1>7. job[h].copy \in Copies /\ job[h].retry = 0 /\ handled \in Nat
  BY <1>2 DEF Staged, Early, Typing
<1>8. Typing'
  BY <1>2, <1>3, <1>6, <1>7 DEF Typing
<1>9. Staged'
  BY <1>2, <1>3, <1>4, <1>7 DEF Staged, Early, Exhausted, RetryCount
<1>10. InOrder'
  BY <1>2, <1>3, <1>4, <1>7, OrderStays DEF Staged, InOrder
<1>11. Delivered'
  <2>1. \A k \in Handlers : job[k].at # "idle" => job[k].copy \in Copies BY DEF Staged
  <2>2. \A k \in Handlers : /\ job'[k].copy = job[k].copy /\ job'[k].epoch = job[k].epoch
                            /\ job'[k].at = "idle" <=> job[k].at = "idle"
    BY <1>2, <1>3, <1>4
  <2>3. \A d \in Copies : place'[d] = "flight" <=> place[d] = "flight" BY <1>2, <1>3, <1>4
  <2>4. QED BY <1>2, <1>3, <1>4, <2>1, <2>2, <2>3, DeliveredStays
<1>12. Kept'
  BY <1>2, <1>3, <1>4, <1>7 DEF Kept, Safe, Staged, InOrder, Typing, Copies
<1>13. HeldLongEnough'
  BY <1>2 DEF HeldLongEnough, Promised
<1>14. Countable /\ Countable' BY <1>8, <1>9, Counted, CountedNext
<1>15. Lived' /\ Budgeted'
  <2>1. \A d \in Copies : Runs(d)' = Runs(d) BY <1>2 DEF Runs, RetryCount
  <2>2. RunsAhead' = RunsAhead BY <1>2, <2>1 DEF RunsAhead
  <2>3. Resting' = Resting BY <1>2 DEF Resting
  <2>4. Bearing' \subseteq Bearing BY <1>2, <1>3, <1>4, <1>7 DEF Bearing, Mine, Early
  <2>5. Cardinality(Bearing') <= Cardinality(Bearing) BY <1>14, <2>4, FS_Subset DEF Countable
  <2>6. /\ Cardinality(Resting) \in Nat /\ Cardinality(Bearing) \in Nat
        /\ Cardinality(Bearing') \in Nat
        /\ Area(RunsAhead) \in Nat /\ Area(RunsAtWork) \in Nat /\ Area(RunsAtWork') \in Nat
    BY <1>14 DEF Countable
  <2>7. Runs(job[h].copy) \in 1..(MaxRetries + 1) BY <1>7, RunsBound
  <2>8. RunsAtWork[h] = Runs(job[h].copy)
        /\ \A k \in Handlers \ {h} : RunsAtWork'[k] = RunsAtWork[k]
    BY <1>2, <1>3, <2>1 DEF RunsAtWork, Mine, Staged
  <2>9. Lived'
    <3>1. Cardinality(Resting') + Cardinality(Bearing')
            <= Cardinality(Resting) + Cardinality(Bearing)
      BY <2>3, <2>5, <2>6
    <3>2. QED BY <1>2, <1>14, <3>1, LivedStays
  <2>10. Area(RunsAtWork') = Area(RunsAtWork) - Runs(job[h].copy) + RunsAtWork'[h]
    BY <1>14, <2>8, AreaPoint DEF Countable
  <2>11. CASE joined' = joined
    <3>1. RunsAtWork'[h] \in Nat /\ RunsAtWork'[h] <= Runs(job[h].copy) - 1
      BY <1>4, <1>5, <1>6, <1>7, <2>1, <2>7, <2>11 DEF RunsAtWork
    <3>2. 1 \in Nat /\ Area(RunsAhead') + Area(RunsAtWork') + 1
            <= Area(RunsAhead) + Area(RunsAtWork)
      BY <2>2, <2>6, <2>7, <2>10, <3>1
    <3>3. Budgeted' BY <1>14, <1>2, <2>11, <3>2, BudgetStays
    <3>4. QED BY <2>9, <3>3
  <2>12. CASE joined' = joined + 1
    <3>1. RunsAtWork'[h] \in Nat /\ RunsAtWork'[h] <= Runs(job[h].copy)
      BY <1>4, <1>7, <2>1, <2>7 DEF RunsAtWork
    <3>2. Area(RunsAhead') + Area(RunsAtWork') <= Area(RunsAhead) + Area(RunsAtWork)
      BY <2>2, <2>6, <2>7, <2>10, <3>1
    <3>3. Budgeted' BY <1>14, <1>2, <2>12, <3>2, BudgetJoins
    <3>4. QED BY <2>9, <3>3
  <2>13. QED BY <1>6, <2>11, <2>12
<1>16. QED BY <1>8, <1>9, <1>10, <1>11, <1>12, <1>13, <1>15

LEMMA AckIInv == ASSUME IInv, NEW h \in Handlers, Ack(h) PROVE IInv'
<1> USE RetryAssumption DEF IInv
<1>1. job[h].at = "ack" /\ UNCHANGED <<header, wait, epoch, handled, joined, faults>>
  BY DEF Ack, Settled
<1>2. job[h].copy \in Copies
  BY <1>1 DEF Staged
<1>3. job' \in [Handlers -> Jobs] /\ job'[h] = Idle
      /\ \A k \in Handlers \ {h} : job'[k] = job[k]
  <2>1. Idle \in Jobs BY DEF Idle, Jobs, Points
  <2>2. QED BY <2>1 DEF Ack, Settled, Typing
<1>4. /\ Idle.at = "idle" /\ Idle.retry = 0 /\ Idle.copy = 0 /\ Idle.epoch = 0
  BY DEF Idle
<1>5. ~Mine(h) => place' = place
  BY <1>1 DEF Ack, Settled, Mine
<1>6. Mine(h) => /\ place[job[h].copy] = "flight"
                 /\ place'[job[h].copy] = IF job[h].retry = 0 THEN "done" ELSE "moved"
                 /\ \A d \in Copies \ {job[h].copy} : place'[d] = place[d]
  BY <1>2 DEF Ack, Settled, Mine, Delivered, Typing
<1>7. place' \in [Copies -> Places]
  BY <1>2 DEF Ack, Settled, Typing, Places
<1>8. Typing'
  BY <1>1, <1>3, <1>7 DEF Typing
<1>9. Staged'
  BY <1>1, <1>3, <1>4 DEF Staged, Early, Exhausted, RetryCount
<1>10. InOrder'
  <2>1. \A d \in Copies : place'[d] = "unused" <=> place[d] = "unused" BY <1>2, <1>5, <1>6
  <2>2. QED BY <1>1, <1>3, <1>4, <2>1, OrderStays
<1>11. Delivered'
  <2>1. \A k \in Handlers : Mine(k)' <=> (Mine(k) /\ k # h) BY <1>1, <1>3, <1>4 DEF Mine
  <2>2. \A k \in Handlers : Mine(k)' => job'[k].copy = job[k].copy /\ job[k].copy \in Copies
    BY <1>3, <2>1 DEF Mine, Staged
  <2>3. \A k \in Handlers : Mine(k)' /\ Mine(h) => job[k].copy # job[h].copy
    BY <2>1 DEF Delivered
  <2>4. \A d \in Copies : place'[d] = "flight"
                            <=> (place[d] = "flight" /\ ~(Mine(h) /\ d = job[h].copy))
    BY <1>2, <1>5, <1>6
  <2>5. QED BY <2>1, <2>2, <2>3, <2>4 DEF Delivered
<1>12. Kept'
  <2>1. \A d \in Copies : Safe(d) => Safe(d)' BY <1>2, <1>5, <1>6 DEF Safe
  <2>2. 1 \in Copies BY DEF Copies
  <2>3. \A k \in Handlers : job[k].retry # 0 => job[k].retry \in Copies
    BY DEF Typing, Jobs, Copies
  <2>4. ConfirmMode => (\A k \in Handlers :
          job[k].at = "ack" /\ job[k].retry # 0 => Safe(job[k].retry))'
    <3> SUFFICES ASSUME ConfirmMode, NEW k \in Handlers, job'[k].at = "ack", job'[k].retry # 0
        PROVE  place'[job'[k].retry] \notin {"unused", "wire", "lost"}
      BY DEF Safe
    <3>1. k # h /\ job'[k] = job[k] BY <1>3, <1>4
    <3>2. Safe(job[k].retry) /\ job[k].retry \in Copies BY <2>3, <3>1 DEF Kept
    <3>3. place'[job[k].retry] \notin {"unused", "wire", "lost"} BY <1>2, <1>5, <1>6, <3>2 DEF Safe
    <3>4. QED BY <3>1, <3>3
  <2>5. ConfirmMode => (\A c \in Copies : place'[c] = "moved" => \E d \in Copies : c < d /\ Safe(d)')
    <3> SUFFICES ASSUME ConfirmMode, NEW c \in Copies, place'[c] = "moved"
        PROVE  \E d \in Copies : c < d /\ Safe(d)'
      OBVIOUS
    <3>1. CASE place[c] = "moved" BY <2>1, <3>1 DEF Kept
    <3>2. CASE place[c] # "moved"
      <4>1. Mine(h) /\ c = job[h].copy /\ job[h].retry # 0 BY <1>2, <1>5, <1>6, <3>2
      <4>2. job[h].copy < job[h].retry /\ job[h].retry \in Copies BY <2>3, <4>1 DEF InOrder
      <4>3. Safe(job[h].retry) BY <1>1, <4>1 DEF Kept
      <4>4. QED BY <2>1, <4>1, <4>2, <4>3
    <3>3. QED BY <3>1, <3>2
  <2>6. QED BY <2>1, <2>2, <2>4, <2>5 DEF Kept
<1>13. HeldLongEnough'
  BY <1>1, <1>2, <1>5, <1>6 DEF HeldLongEnough, Promised
<1>14. Countable /\ Countable' BY <1>8, <1>9, Counted, CountedNext
<1>15. Lived' /\ Budgeted'
  <2>1. \A d \in Copies : Runs(d)' = Runs(d) BY <1>1 DEF Runs, RetryCount
  <2>2. /\ Cardinality(Resting) \in Nat /\ Cardinality(Bearing) \in Nat
        /\ Cardinality(Resting') \in Nat /\ Cardinality(Bearing') \in Nat
        /\ Area(RunsAhead) \in Nat /\ Area(RunsAtWork) \in Nat
        /\ Area(RunsAhead') \in Nat /\ Area(RunsAtWork') \in Nat
    BY <1>14 DEF Countable
  <2>3. ASSUME Mine(h) /\ job[h].retry = 0
        PROVE  Cardinality(Resting') + Cardinality(Bearing')
                 <= Cardinality(Resting) + Cardinality(Bearing)
    <3>1. Resting' = Resting \cup {job[h].copy} /\ job[h].copy \notin Resting
      BY <1>2, <1>6, <2>3 DEF Resting
    <3>2. Bearing' = Bearing \ {h} /\ h \in Bearing
      BY <1>1, <1>3, <1>4, <2>3 DEF Bearing, Mine, Early
    <3>3. Cardinality(Resting') = Cardinality(Resting) + 1
      BY <1>14, <3>1, FS_AddElement DEF Countable
    <3>4. Cardinality(Bearing') = Cardinality(Bearing) - 1
      BY <1>14, <3>2, FS_RemoveElement DEF Countable
    <3>5. QED BY <2>2, <3>3, <3>4
  <2>4. ASSUME ~(Mine(h) /\ job[h].retry = 0)
        PROVE  Cardinality(Resting') + Cardinality(Bearing')
                 <= Cardinality(Resting) + Cardinality(Bearing)
    <3>1. Resting' \subseteq Resting BY <1>2, <1>5, <1>6, <2>4 DEF Resting
    <3>2. Bearing' \subseteq Bearing BY <1>1, <1>3, <1>4 DEF Bearing, Mine, Early
    <3>3. Cardinality(Resting') <= Cardinality(Resting)
          /\ Cardinality(Bearing') <= Cardinality(Bearing)
      BY <1>14, <3>1, <3>2, FS_Subset DEF Countable
    <3>4. QED BY <2>2, <3>3
  <2>5. Lived' BY <1>1, <1>14, <2>3, <2>4, LivedStays
  <2>6. \A d \in Copies : RunsAhead'[d] <= RunsAhead[d]
    BY <1>14, <1>2, <1>5, <1>6, <2>1 DEF RunsAhead, Countable, Bounded
  <2>7. \A k \in Handlers : RunsAtWork'[k] <= RunsAtWork[k]
    BY <1>14, <1>1, <1>3, <1>4, <2>1 DEF RunsAtWork, Mine, Staged, Countable, Bounded
  <2>8. Area(RunsAhead') <= Area(RunsAhead) /\ Area(RunsAtWork') <= Area(RunsAtWork)
    BY <1>14, <2>6, <2>7, CopiesFinite, AreaLess DEF Countable
  <2>9. 0 \in Nat /\ handled' = handled + 0
        /\ Area(RunsAhead') + Area(RunsAtWork') + 0 <= Area(RunsAhead) + Area(RunsAtWork)
    BY <1>1, <2>2, <2>8 DEF Typing
  <2>10. QED BY <1>1, <1>14, <2>5, <2>9, BudgetStays
<1>16. QED BY <1>8, <1>9, <1>10, <1>11, <1>12, <1>13, <1>15

LEMMA NackIInv == ASSUME IInv, NEW h \in Handlers, Nack(h) PROVE IInv'
<1> USE RetryAssumption DEF IInv
<1>1. job[h].at = "settle" /\ UNCHANGED <<header, wait, epoch, handled, joined, faults>>
  BY DEF Nack, Settled
<1>2. job[h].copy \in Copies
  BY <1>1 DEF Staged
<1>3. job' \in [Handlers -> Jobs] /\ job'[h] = Idle
      /\ \A k \in Handlers \ {h} : job'[k] = job[k]
  <2>1. Idle \in Jobs BY DEF Idle, Jobs, Points
  <2>2. QED BY <2>1 DEF Nack, Settled, Typing
<1>4. /\ Idle.at = "idle" /\ Idle.retry = 0 /\ Idle.copy = 0 /\ Idle.epoch = 0
  BY DEF Idle
<1>5. ~Mine(h) => place' = place
  BY <1>1 DEF Nack, Settled, Mine
<1>6. Mine(h) => /\ place[job[h].copy] = "flight"
                 /\ place'[job[h].copy] = IF job[h].requeue THEN "ready" ELSE "dead"
                 /\ \A d \in Copies \ {job[h].copy} : place'[d] = place[d]
  BY <1>2 DEF Nack, Settled, Mine, Delivered, Typing
<1>7. place' \in [Copies -> Places]
  BY <1>2 DEF Nack, Settled, Typing, Places
<1>8. Typing'
  BY <1>1, <1>3, <1>7 DEF Typing
<1>9. Staged'
  BY <1>1, <1>3, <1>4 DEF Staged, Early, Exhausted, RetryCount
<1>10. InOrder'
  <2>1. \A d \in Copies : place'[d] = "unused" <=> place[d] = "unused" BY <1>2, <1>5, <1>6
  <2>2. QED BY <1>1, <1>3, <1>4, <2>1, OrderStays
<1>11. Delivered'
  <2>1. \A k \in Handlers : Mine(k)' <=> (Mine(k) /\ k # h) BY <1>1, <1>3, <1>4 DEF Mine
  <2>2. \A k \in Handlers : Mine(k)' => job'[k].copy = job[k].copy /\ job[k].copy \in Copies
    BY <1>3, <2>1 DEF Mine, Staged
  <2>3. \A k \in Handlers : Mine(k)' /\ Mine(h) => job[k].copy # job[h].copy
    BY <2>1 DEF Delivered
  <2>4. \A d \in Copies : place'[d] = "flight"
                            <=> (place[d] = "flight" /\ ~(Mine(h) /\ d = job[h].copy))
    BY <1>2, <1>5, <1>6
  <2>5. QED BY <2>1, <2>2, <2>3, <2>4 DEF Delivered
<1>12. Kept'
  <2>1. \A d \in Copies : Safe(d) => Safe(d)' BY <1>2, <1>5, <1>6 DEF Safe
  <2>2. 1 \in Copies BY DEF Copies
  <2>3. \A k \in Handlers : job[k].retry # 0 => job[k].retry \in Copies
    BY DEF Typing, Jobs, Copies
  <2>4. ConfirmMode => (\A k \in Handlers :
          job[k].at = "ack" /\ job[k].retry # 0 => Safe(job[k].retry))'
    <3> SUFFICES ASSUME ConfirmMode, NEW k \in Handlers, job'[k].at = "ack", job'[k].retry # 0
        PROVE  place'[job'[k].retry] \notin {"unused", "wire", "lost"}
      BY DEF Safe
    <3>1. k # h /\ job'[k] = job[k] BY <1>3, <1>4
    <3>2. Safe(job[k].retry) /\ job[k].retry \in Copies BY <2>3, <3>1 DEF Kept
    <3>3. place'[job[k].retry] \notin {"unused", "wire", "lost"} BY <1>2, <1>5, <1>6, <3>2 DEF Safe
    <3>4. QED BY <3>1, <3>3
  <2>5. ConfirmMode => (\A c \in Copies : place'[c] = "moved" => \E d \in Copies : c < d /\ Safe(d)')
    <3>1. \A c \in Copies : place'[c] = "moved" => place[c] = "moved" BY <1>2, <1>5, <1>6
    <3>2. QED BY <2>1, <3>1 DEF Kept
  <2>6. QED BY <2>1, <2>2, <2>4, <2>5 DEF Kept
<1>13. HeldLongEnough'
  BY <1>1, <1>2, <1>5, <1>6 DEF HeldLongEnough, Promised
<1>14. Countable /\ Countable' BY <1>8, <1>9, Counted, CountedNext
<1>15. Lived' /\ Budgeted'
  <2>1. \A d \in Copies : Runs(d)' = Runs(d) BY <1>1 DEF Runs, RetryCount
  <2>2. /\ Cardinality(Resting) \in Nat /\ Cardinality(Bearing) \in Nat
        /\ Cardinality(Resting') \in Nat /\ Cardinality(Bearing') \in Nat
        /\ Area(RunsAhead) \in Nat /\ Area(RunsAtWork) \in Nat
        /\ Area(RunsAhead') \in Nat /\ Area(RunsAtWork') \in Nat
    BY <1>14 DEF Countable
  <2>3. ASSUME Mine(h)
        PROVE  Cardinality(Resting') + Cardinality(Bearing')
                 <= Cardinality(Resting) + Cardinality(Bearing)
    <3>1. Resting' = Resting \cup {job[h].copy} /\ job[h].copy \notin Resting
      BY <1>2, <1>6, <2>3 DEF Resting
    <3>2. Bearing' = Bearing \ {h} /\ h \in Bearing
      BY <1>1, <1>3, <1>4, <2>3 DEF Bearing, Mine, Early
    <3>3. Cardinality(Resting') = Cardinality(Resting) + 1
      BY <1>14, <3>1, FS_AddElement DEF Countable
    <3>4. Cardinality(Bearing') = Cardinality(Bearing) - 1
      BY <1>14, <3>2, FS_RemoveElement DEF Countable
    <3>5. QED BY <2>2, <3>3, <3>4
  <2>4. ASSUME ~(Mine(h))
        PROVE  Cardinality(Resting') + Cardinality(Bearing')
                 <= Cardinality(Resting) + Cardinality(Bearing)
    <3>1. Resting' \subseteq Resting BY <1>2, <1>5, <1>6, <2>4 DEF Resting
    <3>2. Bearing' \subseteq Bearing BY <1>1, <1>3, <1>4 DEF Bearing, Mine, Early
    <3>3. Cardinality(Resting') <= Cardinality(Resting)
          /\ Cardinality(Bearing') <= Cardinality(Bearing)
      BY <1>14, <3>1, <3>2, FS_Subset DEF Countable
    <3>4. QED BY <2>2, <3>3
  <2>5. Lived' BY <1>1, <1>14, <2>3, <2>4, LivedStays
  <2>6. ASSUME Mine(h), job[h].requeue
        PROVE  Area(RunsAhead') + Area(RunsAtWork') <= Area(RunsAhead) + Area(RunsAtWork)
    <3>1. RunsAhead[job[h].copy] = 0 /\ RunsAhead'[job[h].copy] = Runs(job[h].copy)
          /\ \A d \in Copies \ {job[h].copy} : RunsAhead'[d] = RunsAhead[d]
      BY <1>2, <1>6, <2>1, <2>6 DEF RunsAhead
    <3>2. RunsAtWork[h] = Runs(job[h].copy) /\ RunsAtWork'[h] = 0
          /\ \A k \in Handlers \ {h} : RunsAtWork'[k] = RunsAtWork[k]
      BY <1>1, <1>3, <1>4, <2>1, <2>6 DEF RunsAtWork, Mine, Staged
    <3>3. Area(RunsAhead') = Area(RunsAhead) - 0 + Runs(job[h].copy)
      BY <1>14, <1>2, <3>1, CopiesFinite, AreaPoint DEF Countable
    <3>4. Area(RunsAtWork') = Area(RunsAtWork) - Runs(job[h].copy) + 0
      BY <1>14, <3>2, AreaPoint DEF Countable
    <3>5. Runs(job[h].copy) \in 1..(MaxRetries + 1) BY <1>2, RunsBound
    <3>6. QED BY <2>2, <3>3, <3>4, <3>5
  <2>7. ASSUME ~(Mine(h) /\ job[h].requeue)
        PROVE  Area(RunsAhead') + Area(RunsAtWork') <= Area(RunsAhead) + Area(RunsAtWork)
    <3>1. \A d \in Copies : RunsAhead'[d] <= RunsAhead[d]
      BY <1>14, <1>2, <1>5, <1>6, <2>1, <2>7 DEF RunsAhead, Countable, Bounded
    <3>2. \A k \in Handlers : RunsAtWork'[k] <= RunsAtWork[k]
      BY <1>14, <1>1, <1>3, <1>4, <2>1 DEF RunsAtWork, Mine, Staged, Countable, Bounded
    <3>3. Area(RunsAhead') <= Area(RunsAhead) /\ Area(RunsAtWork') <= Area(RunsAtWork)
      BY <1>14, <3>1, <3>2, CopiesFinite, AreaLess DEF Countable
    <3>4. QED BY <2>2, <3>3
  <2>8. 0 \in Nat /\ handled' = handled + 0
        /\ Area(RunsAhead') + Area(RunsAtWork') + 0 <= Area(RunsAhead) + Area(RunsAtWork)
    BY <1>1, <2>2, <2>6, <2>7 DEF Typing
  <2>9. QED BY <1>1, <1>14, <2>5, <2>8, BudgetStays
<1>16. QED BY <1>8, <1>9, <1>10, <1>11, <1>12, <1>13, <1>15

LEMMA PublishIInv == ASSUME IInv, NEW h \in Handlers, Publish(h) PROVE IInv'
<1> USE RetryAssumption DEF IInv
<1> DEFINE n == RetryCount(job[h].copy)
<1>1. PICK c \in Copies :
        /\ place[c] = "unused" /\ \A d \in Copies : place[d] = "unused" => c <= d
        /\ place' = [place EXCEPT ![c] = "wire"]
        /\ header' = [header EXCEPT ![c] = n + 1]
        /\ wait' = [wait EXCEPT ![c] = Schedule[n]]
        /\ job' = [job EXCEPT ![h].at = IF ConfirmMode THEN "confirm" ELSE "ack", ![h].retry = c]
  BY DEF Publish
<1>2. job[h].at = "publish" /\ UNCHANGED <<epoch, handled, joined, faults>> BY DEF Publish
<1>3. /\ job[h].copy \in Copies /\ job[h].retry = 0 /\ place[job[h].copy] # "unused"
      /\ n \in 0..(MaxRetries - 1)
  <2>1. job[h].copy \in Copies /\ job[h].retry = 0 /\ ~Exhausted(h) BY <1>2 DEF Staged, Early
  <2>2. n \in Nat BY <2>1, RunsBound
  <2>3. n < MaxRetries BY <2>1, <2>2 DEF Exhausted
  <2>4. QED BY <1>2, <2>1, <2>2, <2>3 DEF InOrder
<1>4. /\ place' \in [Copies -> Places] /\ place'[c] = "wire"
      /\ \A d \in Copies \ {c} : place'[d] = place[d]
  BY <1>1 DEF Typing, Places
<1>5. /\ header' \in [Copies -> Headers \cup 0..MaxRetries] /\ header'[c] = n + 1
      /\ \A d \in Copies \ {c} : header'[d] = header[d]
  <2>1. n + 1 \in 0..MaxRetries BY <1>3
  <2> HIDE DEF n
  <2>2. QED BY <1>1, <2>1 DEF Typing
<1>6. /\ wait' \in [Copies -> [Bases -> Rungs \cup {0}]] /\ wait'[c] = Promised[n + 1]
      /\ \A d \in Copies \ {c} : wait'[d] = wait[d]
  <2>1. Schedule[n] = Promised[n + 1] /\ Schedule[n] \in [Bases -> Rungs]
    BY <1>3, ScheduleIsPromise
  <2>2. Schedule[n] \in [Bases -> Rungs \cup {0}] BY <2>1
  <2> DEFINE s == Schedule[n]
  <2>3. wait' = [wait EXCEPT ![c] = s] BY <1>1
  <2> HIDE DEF s
  <2>4. wait' \in [Copies -> [Bases -> Rungs \cup {0}]] /\ wait'[c] = s
        /\ \A d \in Copies \ {c} : wait'[d] = wait[d]
    <3>1. s \in [Bases -> Rungs \cup {0}] BY <2>2 DEF s
    <3>2. QED BY <2>3, <3>1 DEF Typing
  <2>5. QED BY <2>1, <2>4 DEF s
<1>7. /\ job' \in [Handlers -> Jobs]
      /\ \A k \in Handlers \ {h} : job'[k] = job[k]
      /\ job'[h].copy = job[h].copy /\ job'[h].epoch = job[h].epoch /\ job'[h].retry = c
      /\ job'[h].at = IF ConfirmMode THEN "confirm" ELSE "ack"
  <2> DEFINE p == IF ConfirmMode THEN "confirm" ELSE "ack"
  <2>1. p \in Points BY DEF Points
  <2>2. Published(h, c, p) BY <1>1 DEF Published
  <2> HIDE DEF p
  <2>3. /\ job' \in [Handlers -> Jobs]
        /\ \A k \in Handlers \ {h} : job'[k] = job[k]
        /\ job'[h].copy = job[h].copy /\ job'[h].epoch = job[h].epoch /\ job'[h].retry = c
        /\ job'[h].at = p
    BY <2>1, <2>2, PublishingOne
  <2>4. QED BY <2>3 DEF p
<1>8. \A k \in Handlers : job[k].at # "idle" => job[k].copy \in Copies \ {c}
  BY <1>1 DEF Staged, InOrder
<1>9. Typing' BY <1>2, <1>4, <1>5, <1>6, <1>7 DEF Typing
<1>10. Staged'
  <2>1. \A k \in Handlers : job'[k].at # "idle" => job'[k].copy \in Copies /\ job'[k].epoch <= epoch
    BY <1>2, <1>7 DEF Staged
  <2>2. \A k \in Handlers : job'[k].at \in Early \cup {"settle"} => job'[k].retry = 0
    BY <1>7 DEF Staged, Early
  <2>3. \A k \in Handlers : job'[k].at \in {"declare", "publish"} => ~Exhausted(k)'
    BY <1>5, <1>7, <1>8 DEF Staged, Exhausted, RetryCount
  <2>4. \A k \in Handlers : job'[k].at = "confirm" => ConfirmMode /\ job'[k].retry \in Copies
    BY <1>7 DEF Staged
  <2>5. QED BY <1>2, <2>1, <2>2, <2>3, <2>4 DEF Staged
<1>11. InOrder'
  <2>1. 1 \in Copies /\ c # 1 BY <1>1 DEF Copies, InOrder
  <2>2. \A a, b \in Copies : a < b /\ place'[b] # "unused" => place'[a] # "unused"
    BY <1>1, <1>4 DEF InOrder, Copies
  <2>3. \A k \in Handlers : job'[k].at # "idle" => place'[job'[k].copy] # "unused"
    BY <1>3, <1>4, <1>7, <1>8 DEF InOrder
  <2>4. job[h].copy < c
    <3>1. ~(c < job[h].copy) BY <1>1, <1>3 DEF InOrder
    <3>2. c # job[h].copy BY <1>1, <1>3
    <3>3. c \in Nat /\ job[h].copy \in Nat BY <1>3 DEF Copies
    <3>4. QED BY <3>1, <3>2, <3>3
  <2>5. \A k \in Handlers : job[k].retry # 0 => job[k].retry \in Copies
    BY DEF Typing, Jobs, Copies
  <2>6. \A k \in Handlers : job'[k].retry # 0 =>
          job'[k].copy < job'[k].retry /\ place'[job'[k].retry] # "unused"
    BY <1>4, <1>7, <2>4, <2>5 DEF InOrder
  <2>7. n + 1 \in 1..MaxRetries BY <1>3
  <2>8. \A d \in Copies \ {1} : place'[d] # "unused" => header'[d] \in 1..MaxRetries
    BY <1>4, <1>5, <2>7 DEF InOrder
  <2>9. QED BY <2>1, <2>2, <2>3, <2>6, <2>8, <1>4 DEF InOrder
<1>12. Delivered'
  <2>1. \A k \in Handlers : /\ job'[k].copy = job[k].copy /\ job'[k].epoch = job[k].epoch
                            /\ job'[k].at = "idle" <=> job[k].at = "idle"
    BY <1>2, <1>7
  <2>2. \A d \in Copies : place'[d] = "flight" <=> place[d] = "flight" BY <1>1, <1>4
  <2>3. \A k \in Handlers : job[k].at # "idle" => job[k].copy \in Copies BY <1>8
  <2>4. QED BY <1>2, <2>1, <2>2, <2>3, DeliveredStays
<1>13. Kept'
  <2>1. \A d \in Copies : Safe(d) => Safe(d)' BY <1>1, <1>4 DEF Safe
  <2>2. \A d \in Copies : place'[d] = "moved" => place[d] = "moved" BY <1>4
  <2>3. ConfirmMode => \A k \in Handlers : job'[k].at = "ack" => job'[k] = job[k] BY <1>7
  <2>4. \A k \in Handlers : job[k].retry # 0 => job[k].retry \in Copies
    BY DEF Typing, Jobs, Copies
  <2>5. 1 \in Copies BY DEF Copies
  <2>6. QED BY <2>1, <2>2, <2>3, <2>4, <2>5 DEF Kept
<1>14. HeldLongEnough'
  <2>1. \A d \in Copies \ {1} : place'[d] # "unused" => wait'[d] = Promised[header'[d]]
    BY <1>4, <1>5, <1>6 DEF HeldLongEnough
  <2>2. Promised' = Promised BY DEF Promised
  <2>3. QED BY <2>1, <2>2 DEF HeldLongEnough
<1>15. Countable /\ Countable' BY <1>9, <1>10, Counted, CountedNext
<1>16. Lived'
  <2>1. Resting' = Resting \cup {c} /\ c \notin Resting BY <1>1, <1>4 DEF Resting
  <2>2. Bearing' = Bearing \ {h} /\ h \in Bearing
    <3>1. h \in Bearing BY <1>2 DEF Bearing, Early
    <3>2. c # 0 BY DEF Copies
    <3>3. h \notin Bearing' BY <1>7, <3>2 DEF Bearing, Early
    <3>4. \A k \in Handlers \ {h} : k \in Bearing' <=> k \in Bearing
      BY <1>2, <1>7 DEF Bearing, Mine, Early
    <3>5. Bearing \subseteq Handlers /\ Bearing' \subseteq Handlers BY DEF Bearing
    <3>6. QED BY <3>1, <3>3, <3>4, <3>5
  <2>3. Cardinality(Resting') = Cardinality(Resting) + 1
    BY <1>15, <2>1, FS_AddElement DEF Countable
  <2>4. Cardinality(Bearing') = Cardinality(Bearing) - 1
    BY <1>15, <2>2, FS_RemoveElement DEF Countable
  <2>5. Cardinality(Resting) \in Nat /\ Cardinality(Bearing) \in Nat BY <1>15 DEF Countable
  <2>6. QED BY <1>2, <1>15, <2>3, <2>4, <2>5, LivedStays
<1>17. Budgeted'
  <2>1. /\ \A d \in Copies \ {c} : Runs(d)' = Runs(d)
        /\ Runs(c)' = Runs(job[h].copy) - 1
    <3>1. \A d \in Copies \ {c} : Runs(d)' = Runs(d) BY <1>5 DEF Runs, RetryCount
    <3>2. RetryCount(c)' = n + 1 BY <1>3, <1>5 DEF RetryCount
    <3>3. Runs(c)' = MaxRetries + 1 - (n + 1) BY <1>3, <3>2 DEF Runs
    <3>4. Runs(job[h].copy) = MaxRetries + 1 - n BY <1>3 DEF Runs
    <3>5. QED BY <1>3, <3>1, <3>3, <3>4
  <2>2. RunsAhead[c] = 0 /\ RunsAhead'[c] = Runs(job[h].copy) - 1
        /\ \A d \in Copies \ {c} : RunsAhead'[d] = RunsAhead[d]
    BY <1>1, <1>4, <2>1 DEF RunsAhead
  <2>3. RunsAtWork[h] = Runs(job[h].copy) - 1 /\ RunsAtWork'[h] = 0
        /\ \A k \in Handlers \ {h} : RunsAtWork'[k] = RunsAtWork[k]
    <3>1. RunsAtWork[h] = Runs(job[h].copy) - 1 BY <1>2 DEF RunsAtWork
    <3>2. RunsAtWork'[h] = 0 BY <1>7 DEF RunsAtWork
    <3>3. ASSUME NEW k \in Handlers \ {h} PROVE RunsAtWork'[k] = RunsAtWork[k]
      <4>1. job[k].at # "idle" => Runs(job[k].copy)' = Runs(job[k].copy)
        BY <1>5, <1>7, <1>8 DEF Runs, RetryCount
      <4>2. QED BY <1>2, <1>7, <1>8, <2>1 DEF RunsAtWork, Mine
    <3>4. QED BY <3>1, <3>2, <3>3
  <2>4. Area(RunsAhead') = Area(RunsAhead) - 0 + (Runs(job[h].copy) - 1)
    BY <1>15, <2>2, CopiesFinite, AreaPoint DEF Countable
  <2>5. Area(RunsAtWork') = Area(RunsAtWork) - (Runs(job[h].copy) - 1) + 0
    BY <1>15, <2>3, AreaPoint DEF Countable
  <2>6. Runs(job[h].copy) \in 1..(MaxRetries + 1) BY <1>3, RunsBound
  <2>7. Area(RunsAhead) \in Nat /\ Area(RunsAtWork) \in Nat BY <1>15 DEF Countable
  <2>8. Area(RunsAhead') + Area(RunsAtWork') + 0 <= Area(RunsAhead) + Area(RunsAtWork)
    BY <2>4, <2>5, <2>6, <2>7
  <2>9. 0 \in Nat /\ handled' = handled + 0 BY <1>2 DEF Typing
  <2>10. QED BY <1>2, <1>15, <2>8, <2>9, BudgetStays
<1>18. QED BY <1>9, <1>10, <1>11, <1>12, <1>13, <1>14, <1>16, <1>17

LEMMA BrokerIInv == ASSUME IInv, NEW c \in Copies, Arrive(c) \/ Expire(c) PROVE IInv'
<1> USE RetryAssumption DEF IInv
<1>1. /\ UNCHANGED <<header, wait, epoch, job, handled, joined, faults>>
      /\ place' \in [Copies -> Places]
      /\ place[c] \in {"wire", "held"} /\ place'[c] \in {"held", "ready"}
      /\ \A d \in Copies \ {c} : place'[d] = place[d]
  BY DEF Arrive, Expire, Typing, Places
<1>2. Typing' BY <1>1 DEF Typing
<1>3. Staged' BY <1>1 DEF Staged, Early, Exhausted, RetryCount
<1>4. InOrder'
  <2>1. \A d \in Copies : place'[d] = "unused" <=> place[d] = "unused" BY <1>1
  <2>2. \A h \in Handlers : /\ job[h].at # "idle" => job[h].copy \in Copies
                            /\ job[h].retry # 0 => job[h].retry \in Copies
    BY DEF Typing, Jobs, Copies, Staged
  <2>3. 1 \in Copies BY DEF Copies
  <2>4. QED BY <1>1, <2>1, <2>2, <2>3 DEF InOrder
<1>5. Delivered'
  <2>1. \A d \in Copies : place'[d] = "flight" <=> place[d] = "flight" BY <1>1
  <2>2. \A h \in Handlers : job[h].at # "idle" => job[h].copy \in Copies BY DEF Staged
  <2>3. QED BY <1>1, <2>1, <2>2, DeliveredStays
<1>6. Kept'
  <2>1. \A d \in Copies : Safe(d) => Safe(d)' BY <1>1 DEF Safe
  <2>2. \A d \in Copies : place'[d] = "moved" => place[d] = "moved" BY <1>1
  <2>3. \A h \in Handlers : job[h].retry # 0 => job[h].retry \in Copies
    BY DEF Typing, Jobs, Copies
  <2>4. 1 \in Copies BY DEF Copies
  <2>5. QED BY <1>1, <2>1, <2>2, <2>3, <2>4 DEF Kept
<1>7. HeldLongEnough' BY <1>1 DEF HeldLongEnough, Promised
<1>8. Countable /\ Countable' BY <1>2, <1>3, Counted, CountedNext
<1>9. Lived'
  <2>1. Resting' = Resting /\ Bearing' = Bearing BY <1>1 DEF Resting, Bearing, Mine
  <2>2. Cardinality(Resting') + Cardinality(Bearing')
          <= Cardinality(Resting) + Cardinality(Bearing)
    BY <1>8, <2>1 DEF Countable
  <2>3. QED BY <1>1, <1>8, <2>2, LivedStays
<1>10. Budgeted'
  <2>1. \A d \in Copies : Runs(d)' = Runs(d) BY <1>1 DEF Runs, RetryCount
  <2>2. RunsAhead' = RunsAhead BY <1>1, <2>1 DEF RunsAhead
  <2>3. RunsAtWork' = RunsAtWork BY <1>1 DEF RunsAtWork, Mine, Runs, RetryCount
  <2>4. 0 \in Nat /\ handled' = handled + 0
        /\ Area(RunsAhead') + Area(RunsAtWork') + 0 <= Area(RunsAhead) + Area(RunsAtWork)
    BY <1>1, <1>8, <2>2, <2>3 DEF Typing, Countable
  <2>5. QED BY <1>1, <1>8, <2>4, BudgetStays
<1>11. QED BY <1>2, <1>3, <1>4, <1>5, <1>6, <1>7, <1>9, <1>10

LEMMA ConsumerDiesIInv == ASSUME IInv, ConsumerDies PROVE IInv'
<1> USE RetryAssumption DEF IInv
<1>1. /\ UNCHANGED <<header, wait, job, handled, joined>> /\ Fault /\ epoch' = epoch + 1
      /\ place' \in [Copies -> Places]
      /\ \A d \in Copies : /\ place[d] = "flight" => place'[d] = "ready"
                           /\ place[d] # "flight" => place'[d] = place[d]
  BY DEF ConsumerDies, Redelivered, Typing, Places
<1>2. Typing' BY <1>1 DEF Typing, Fault
<1>3. \A h \in Handlers : job[h].at # "idle" => job[h].copy \in Copies /\ job[h].epoch < epoch'
  BY <1>1 DEF Staged, Typing, Jobs
<1>4. \A h \in Handlers : ~Mine(h)' BY <1>1, <1>2, <1>3 DEF Mine, Typing, Jobs
<1>5. Staged'
  <2>1. \A h \in Handlers : job'[h].at # "idle" => job'[h].copy \in Copies /\ job'[h].epoch <= epoch'
    BY <1>1, <1>2, <1>3 DEF Typing, Jobs
  <2>2. QED BY <1>1, <2>1 DEF Staged, Early, Exhausted, RetryCount
<1>6. InOrder'
  <2>1. \A d \in Copies : place'[d] = "unused" <=> place[d] = "unused" BY <1>1
  <2>2. \A h \in Handlers : /\ job[h].at # "idle" => job[h].copy \in Copies
                            /\ job[h].retry # 0 => job[h].retry \in Copies
    BY DEF Typing, Jobs, Copies, Staged
  <2>3. 1 \in Copies BY DEF Copies
  <2>4. QED BY <1>1, <2>1, <2>2, <2>3 DEF InOrder
<1>7. Delivered'
  <2>1. \A d \in Copies : place'[d] # "flight" BY <1>1
  <2>2. QED BY <1>4, <2>1 DEF Delivered
<1>8. Kept'
  <2>1. \A d \in Copies : Safe(d) => Safe(d)' BY <1>1 DEF Safe
  <2>2. \A d \in Copies : place'[d] = "moved" => place[d] = "moved" BY <1>1
  <2>3. \A h \in Handlers : job[h].retry # 0 => job[h].retry \in Copies
    BY DEF Typing, Jobs, Copies
  <2>4. 1 \in Copies BY DEF Copies
  <2>5. QED BY <1>1, <2>1, <2>2, <2>3, <2>4 DEF Kept
<1>9. HeldLongEnough' BY <1>1 DEF HeldLongEnough, Promised
<1>10. Countable /\ Countable' BY <1>2, <1>5, Counted, CountedNext
<1>11. Lived' /\ Budgeted'
  <2>1. Resting' \subseteq Resting \cup Flying BY <1>1 DEF Resting, Flying
  <2>2. Bearing' \subseteq Bearing BY <1>1, <1>4 DEF Bearing
  <2>3. \A d \in Copies : Runs(d)' = Runs(d) BY <1>1 DEF Runs, RetryCount
  <2>4. \A d \in Copies \ Flying : RunsAhead'[d] <= RunsAhead[d]
    BY <1>1, <1>10, <2>3 DEF RunsAhead, Flying, Countable, Bounded
  <2>5. \A h \in Handlers : RunsAtWork'[h] <= RunsAtWork[h]
    BY <1>1, <1>3, <1>4, <1>10, <2>3 DEF RunsAtWork, Staged, Countable, Bounded
  <2>6. QED BY <1>1, <1>10, <2>1, <2>2, <2>4, <2>5, DeliveryFault
<1>12. QED BY <1>2, <1>5, <1>6, <1>7, <1>8, <1>9, <1>11

LEMMA CrashIInv == ASSUME IInv, Crash PROVE IInv'
<1> USE RetryAssumption DEF IInv
<1>1. UNCHANGED <<header, wait, handled, joined>> /\ Fault /\ epoch' = epoch + 1 BY DEF Crash
<1>2. PICK arrived \in SUBSET {c \in Copies : Redelivered[c] = "wire"} :
        place' = [c \in Copies |-> IF Redelivered[c] # "wire" THEN Redelivered[c]
                                   ELSE IF c \in arrived THEN "held" ELSE "lost"]
  BY DEF Crash, Cut
<1>3. /\ place' \in [Copies -> Places]
      /\ \A d \in Copies :
           /\ place[d] = "flight" => place'[d] = "ready"
           /\ place[d] = "wire" => place'[d] \in {"held", "lost"}
           /\ place[d] \notin {"flight", "wire"} => place'[d] = place[d]
  BY <1>2 DEF Redelivered, Typing, Places
<1>4. /\ job' \in [Handlers -> Jobs]
      /\ \A h \in Handlers : job'[h].at = "idle" /\ job'[h].retry = 0
  BY DEF Crash, Idle, Jobs, Points
<1>5. Typing' BY <1>1, <1>3, <1>4 DEF Typing, Fault
<1>6. \A h \in Handlers : ~Mine(h)' BY <1>4 DEF Mine
<1>7. Staged' BY <1>4 DEF Staged, Early
<1>8. InOrder'
  <2>1. \A d \in Copies : place'[d] = "unused" <=> place[d] = "unused" BY <1>3
  <2>2. 1 \in Copies BY DEF Copies
  <2>3. QED BY <1>1, <1>4, <2>1, <2>2 DEF InOrder
<1>9. Delivered'
  <2>1. \A d \in Copies : place'[d] # "flight" BY <1>3
  <2>2. QED BY <1>6, <2>1 DEF Delivered
<1>10. Kept'
  <2>1. \A d \in Copies : Safe(d) => Safe(d)' BY <1>3 DEF Safe
  <2>2. \A d \in Copies : place'[d] = "moved" => place[d] = "moved" BY <1>3
  <2>3. 1 \in Copies BY DEF Copies
  <2>4. QED BY <1>4, <2>1, <2>2, <2>3 DEF Kept
<1>11. HeldLongEnough' BY ZenonT(40), <1>1, <1>3 DEF HeldLongEnough, Promised
<1>12. Countable /\ Countable' BY <1>5, <1>7, Counted, CountedNext
<1>13. Lived' /\ Budgeted'
  <2>1. Resting' \subseteq Resting \cup Flying BY <1>3 DEF Resting, Flying
  <2>2. Bearing' \subseteq Bearing BY <1>4, <1>6 DEF Bearing, Early
  <2>3. \A d \in Copies : Runs(d)' = Runs(d) BY <1>1 DEF Runs, RetryCount
  <2>4. \A d \in Copies \ Flying : RunsAhead'[d] <= RunsAhead[d]
    BY <1>3, <1>12, <2>3 DEF RunsAhead, Flying, Countable, Bounded
  <2>5. \A h \in Handlers : RunsAtWork'[h] <= RunsAtWork[h]
    BY <1>4, <1>6, <1>12 DEF RunsAtWork, Countable, Bounded
  <2>6. QED BY <1>1, <1>12, <2>1, <2>2, <2>4, <2>5, DeliveryFault
<1>14. QED BY <1>5, <1>7, <1>8, <1>9, <1>10, <1>11, <1>13

LEMMA InitIInv == Init => IInv
<1> SUFFICES ASSUME Init PROVE IInv OBVIOUS
<1> USE RetryAssumption
<1>1. PICK n \in Headers : header = [c \in Copies |-> IF c = 1 THEN n ELSE 0] BY DEF Init
<1>2. /\ place = [c \in Copies |-> IF c = 1 THEN "ready" ELSE "unused"]
      /\ wait = [c \in Copies |-> [b \in Bases |-> 0]]
      /\ epoch = 0 /\ handled = 0 /\ joined = 0 /\ faults = 0
      /\ job = [h \in Handlers |-> Idle]
  BY DEF Init
<1>3. Idle \in Jobs /\ Idle.at = "idle" /\ Idle.retry = 0 BY DEF Idle, Jobs, Points
<1>4. 1 \in Copies BY DEF Copies
<1>5. Typing BY <1>1, <1>2, <1>3 DEF Typing, Places
<1>6. Staged BY <1>2, <1>3 DEF Staged, Early
<1>7. InOrder BY <1>2, <1>3, <1>4 DEF InOrder, Copies
<1>8. Delivered BY <1>2, <1>3 DEF Delivered, Mine
<1>9. Kept BY <1>2, <1>3, <1>4 DEF Kept, Safe
<1>10. HeldLongEnough BY <1>2 DEF HeldLongEnough
<1>11. Countable BY <1>5, <1>6, Counted
<1>12. Allowed = 1
  <2>1. \A m \in Nat : 1 + m * 0 = 1 OBVIOUS
  <2>2. Cardinality(Handlers) \in Nat BY FS_CardinalityType
  <2>3. QED BY <1>2, <2>1, <2>2 DEF Allowed
<1>13. Lived
  <2>1. Resting = {1} /\ Bearing = {} BY <1>2, <1>3, <1>4 DEF Resting, Bearing, Mine, Early
  <2>2. Cardinality({}) = 0 /\ Cardinality({1}) = 1 BY FS_EmptySet, FS_Singleton
  <2>3. QED BY <1>12, <2>1, <2>2 DEF Lived
<1>14. Budgeted
  <2> DEFINE none(S) == [s \in S |-> 0]
  <2>1. ASSUME NEW S, IsFiniteSet(S) PROVE none(S) \in Bounded(S) /\ Area(none(S)) = 0
    <3>1. none(S) \in Bounded(S) BY DEF Bounded
    <3>2. Under(none(S)) = {} BY DEF Under
    <3>3. QED BY <3>1, <3>2, FS_EmptySet DEF Area
  <2>2. RunsAtWork = none(Handlers) BY <1>2, <1>3 DEF RunsAtWork, Mine
  <2>3. \A c \in Copies \ {1} : RunsAhead[c] = none(Copies)[c] BY <1>2 DEF RunsAhead
  <2>4. Area(RunsAtWork) = 0 BY <2>1, <2>2
  <2>5. Area(RunsAhead) = Area(none(Copies)) - none(Copies)[1] + RunsAhead[1]
    BY <1>4, <1>11, <2>1, <2>3, CopiesFinite, AreaPoint DEF Countable
  <2>6. Area(none(Copies)) = 0 /\ none(Copies)[1] = 0 BY <1>4, <2>1, CopiesFinite
  <2>7. RunsAhead[1] \in 0..(MaxRetries + 1) BY <1>4, <1>11 DEF Countable, Bounded
  <2>8. Area(RunsAhead) <= MaxRetries + 1 /\ Area(RunsAhead) \in Nat BY <2>5, <2>6, <2>7
  <2>9. (MaxRetries + 1) * Allowed = MaxRetries + 1 BY <1>12
  <2>10. QED BY <1>2, <2>4, <2>8, <2>9 DEF Budgeted
<1>15. QED BY <1>5, <1>6, <1>7, <1>8, <1>9, <1>10, <1>13, <1>14 DEF IInv

LEMMA StutterIInv == ASSUME IInv, UNCHANGED vars PROVE IInv'
<1>1. UNCHANGED <<place, header, wait, epoch, job, handled, joined, faults>> BY DEF vars
<1>2. \A h \in Handlers : Mine(h)' <=> Mine(h) BY <1>1 DEF Mine
<1>3. Typing' /\ Staged' /\ InOrder' /\ Kept' /\ HeldLongEnough'
  BY <1>1 DEF IInv, Typing, Staged, InOrder, Kept, HeldLongEnough, Early, Exhausted, RetryCount,
              Safe, Promised
<1>4. Delivered' BY <1>1, <1>2 DEF IInv, Delivered
<1>5. Resting' = Resting /\ Bearing' = Bearing /\ Allowed' = Allowed
  BY <1>1, <1>2 DEF Resting, Bearing, Allowed
<1>6. RunsAhead' = RunsAhead /\ RunsAtWork' = RunsAtWork
  BY <1>1, <1>2 DEF RunsAhead, RunsAtWork, Runs, RetryCount
<1>7. Lived' BY <1>5 DEF IInv, Lived
<1>8. Budgeted' BY <1>1, <1>5, <1>6 DEF IInv, Budgeted
<1>9. QED BY <1>3, <1>4, <1>7, <1>8 DEF IInv

LEMMA NextIInv == IInv /\ [Next]_vars => IInv'
<1> SUFFICES ASSUME IInv, [Next]_vars PROVE IInv' OBVIOUS
<1>1. ASSUME NEW h \in Handlers, HandlerStep(h) PROVE IInv'
  BY <1>1, DeliverIInv, HandlerOkIInv, HandlerFailsIInv, AckIInv, NackIInv, DeclareIInv,
     PublishIInv, ConfirmedIInv DEF HandlerStep
<1>2. ASSUME NEW h \in Handlers, HandlerFault(h) PROVE IInv'
  BY <1>2, ScheduleFailsIInv, NackedIInv, ConfirmTimeoutIInv DEF HandlerFault
<1>3. ASSUME NEW c \in Copies, Arrive(c) \/ Expire(c) PROVE IInv' BY <1>3, BrokerIInv
<1>4. CASE PublisherDies BY <1>4, PublisherDiesIInv
<1>5. CASE ConsumerDies BY <1>5, ConsumerDiesIInv
<1>6. CASE Crash BY <1>6, CrashIInv
<1>7. CASE UNCHANGED vars BY <1>7, StutterIInv
<1>8. QED BY <1>1, <1>2, <1>3, <1>4, <1>5, <1>6, <1>7 DEF Next

LEMMA Invariant == Spec => []IInv
<1>1. Init => IInv BY InitIInv
<1>2. IInv /\ [Next]_vars => IInv' BY NextIInv
<1>3. QED BY <1>1, <1>2, PTL DEF Spec

-----------------------------------------------------------------------------
(* What follows.                                                             *)

(* Every variable has its type, and no copy is retried beyond MaxRetries,    *)
(* whatever header the message came with.                                    *)
THEOREM Typed == Spec => []TypeOK
<1>1. IInv => TypeOK
  <2> SUFFICES ASSUME IInv PROVE TypeOK OBVIOUS
  <2>1. epoch \in 0..MaxFaults BY RetryAssumption DEF IInv, Typing
  <2>2. QED BY <2>1 DEF IInv, Typing, TypeOK
<1>2. QED BY <1>1, Invariant, PTL

(* With ConfirmMode a failing message is never lost: whatever dies, refuses  *)
(* or is late between the publishing of the retry, its confirmation and the  *)
(* acknowledgement of the original, some copy is still to be handled or has  *)
(* come to its end.  The last copy the broker ever had is such a one.        *)
THEOREM NotLost == ASSUME ConfirmMode PROVE Spec => []AtLeastOnce
<1>1. IInv => AtLeastOnce
  <2> SUFFICES ASSUME IInv PROVE AtLeastOnce OBVIOUS
  <2> USE RetryAssumption DEF IInv
  <2> DEFINE S == {c \in Copies : Safe(c)}
  <2>1. 1 \in S BY DEF Kept, Copies
  <2>2. S \in SUBSET (1..MaxCopies) BY DEF Copies
  <2>3. PICK c \in S : \A d \in S : d <= c BY <2>1, <2>2, Largest
  <2>4. c \in Copies /\ Safe(c) OBVIOUS
  <2>5. place[c] # "moved"
    <3> SUFFICES ASSUME place[c] = "moved" PROVE FALSE OBVIOUS
    <3>1. PICK d \in Copies : c < d /\ Safe(d) BY <2>4, ConfirmMode DEF Kept
    <3>2. d <= c BY <2>3, <3>1
    <3>3. QED BY <2>4, <3>1, <3>2 DEF Copies
  <2>6. place[c] \in Places BY <2>4 DEF Typing
  <2>7. QED BY <2>4, <2>5, <2>6 DEF Safe, Places, AtLeastOnce
<1>2. QED BY <1>1, Invariant, PTL

(* Only a fault makes two of one message: a copy that can still reach a      *)
(* handler, or has come to its end, is either with nobody or with a handler  *)
(* that will pass it on or finish it.                                        *)
THEOREM DoubledByFaults == Spec => []DoublesOnlyByFault
<1>1. IInv => DoublesOnlyByFault
  <2> SUFFICES ASSUME IInv PROVE DoublesOnlyByFault OBVIOUS
  <2> USE RetryAssumption DEF IInv
  <2>1. Countable BY Counted
  <2> DEFINE f == [h \in Bearing |-> job[h].copy]
             T == {f[h] : h \in Bearing}
  <2>2. f \in Surjection(Bearing, T) BY DEF Surjection
  <2>3. IsFiniteSet(T) /\ Cardinality(T) <= Cardinality(Bearing)
    BY <2>1, <2>2, FS_Surjection DEF Countable
  <2>4. ASSUME NEW c \in Lives PROVE c \in Resting \cup T
    <3>1. c \in Copies BY DEF Lives
    <3>2. CASE place[c] # "flight" BY <3>1, <3>2 DEF Lives, Resting
    <3>3. CASE place[c] = "flight"
      <4>1. PICK h \in Handlers : Mine(h) /\ job[h].copy = c BY <3>1, <3>3 DEF Delivered
      <4>2. job[h].at \notin {"confirm", "ack", "settle"}
        BY <3>3, <4>1 DEF Lives, Superseded, Mine
      <4>3. job[h].at \in Points BY DEF Typing, Jobs
      <4>4. h \in Bearing BY <4>1, <4>2, <4>3 DEF Bearing, Mine, Early, Points
      <4>5. QED BY <4>1, <4>4
    <3>4. QED BY <3>2, <3>3
  <2>5. IsFiniteSet(Resting \cup T)
        /\ Cardinality(Resting \cup T) = Cardinality(Resting) + Cardinality(T) - Cardinality(Resting \cap T)
    BY <2>1, <2>3, FS_Union DEF Countable
  <2>6. Cardinality(Resting \cap T) \in Nat /\ Cardinality(T) \in Nat
    BY <2>1, <2>3, FS_Intersection, FS_CardinalityType DEF Countable
  <2>7. Lives \in SUBSET (Resting \cup T) BY <2>4
  <2>8. IsFiniteSet(Lives) /\ Cardinality(Lives) <= Cardinality(Resting \cup T)
    BY <2>5, <2>7, FS_Subset
  <2>9. Cardinality(Lives) \in Nat BY <2>8, FS_CardinalityType
  <2>10. Cardinality(Lives) <= Cardinality(Resting) + Cardinality(Bearing)
    BY <2>1, <2>3, <2>5, <2>6, <2>8, <2>9 DEF Countable
  <2>11. QED BY <2>1, <2>9, <2>10 DEF Lived, Countable, DoublesOnlyByFault
<1>2. QED BY <1>1, Invariant, PTL

(* A failing message is not handled for ever: whatever header the message    *)
(* came with, the handler runs at most once more than the retries allowed,   *)
(* for each copy the faults made, and once more for each time it returned    *)
(* ErrRequeue joined with ErrDrop (middleware.go 154, consumer.go 1096).     *)
(* One that never does is held to the promise of middleware.go 131.          *)
THEOREM NeverLoops == Spec => []RunsBounded /\ [](joined = 0 => NeverLoopsForever)
<1>1. IInv => RunsBounded
  <2> SUFFICES ASSUME IInv PROVE RunsBounded OBVIOUS
  <2> DEFINE m == (MaxRetries + 1) * Allowed
             x == Area(RunsAhead)
             y == Area(RunsAtWork)
  <2>1. x \in Nat /\ y \in Nat /\ m \in Nat BY Counted DEF IInv, Countable
  <2>2. handled \in Nat /\ joined \in Nat BY RetryAssumption DEF IInv, Typing
  <2>3. handled + x + y <= m + joined BY DEF IInv, Budgeted
  <2> HIDE DEF m, x, y
  <2>4. handled <= m + joined BY <2>1, <2>2, <2>3
  <2>5. QED BY <2>4 DEF m, RunsBounded
<1>2. IInv => (joined = 0 => NeverLoopsForever)
  <2> SUFFICES ASSUME IInv, joined = 0 PROVE NeverLoopsForever OBVIOUS
  <2> DEFINE m == (MaxRetries + 1) * Allowed
  <2>1. m \in Nat BY Counted DEF IInv, Countable
  <2>2. handled <= m + 0 BY <1>1 DEF RunsBounded
  <2> HIDE DEF m
  <2>3. handled \in Nat BY DEF IInv, Typing
  <2>4. handled <= m BY <2>1, <2>2, <2>3
  <2>5. QED BY <2>4 DEF m, NeverLoopsForever
<1>3. QED BY <1>1, <1>2, Invariant, PTL

(* No retry comes early, and none is refused with ErrDelayTooLong: each is   *)
(* held for the shortest rung that is not under base * 2^n, or the longest   *)
(* rung, for every base delay and every retry count.                         *)
THEOREM NeverEarly == Spec => []HeldLongEnough
<1>1. IInv => HeldLongEnough BY DEF IInv
<1>2. QED BY <1>1, Invariant, PTL

=============================================================================

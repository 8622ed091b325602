----------------------------- MODULE BatchProofs -----------------------------
(***************************************************************************)
(* Batch for every number of goroutines, arrays and messages: its types,   *)
(* that no slice which is being published from is written to, and that it  *)
(* keeps the promise of Outbox.                                            *)
(***************************************************************************)
EXTENDS Batch, SequenceTheorems, FiniteSetTheorems, TLAPS

(* A slice is a window on an array that is long enough for it.               *)
Heaps == [Arrays -> Seq(0..MaxMsgs)]
Windows == [array : Arrays, len : Nat]
Fits(h, s) == s \in Windows /\ s.len <= Len(h[s.array])

Batched == Elems(heap, messages)

(* The arrays: nobody works on that of the batch, and what a goroutine works *)
(* on is what it took, up to the element it has reached.                     *)
Working(g) ==
    /\ Fits(heap, hand[g]) /\ hand[g].array # messages.array
    /\ Elems(heap, hand[g]) = took[g]
    /\ index[g] <= Len(took[g]) + 1
Idle(g) == hand[g] = NoSlice /\ took[g] = <<>> /\ index[g] = 1

Points == {"idle", "publish", "flush", "requeue"}

LocalTyped ==
    /\ at \in [Goroutines -> Points]
    /\ hand \in [Goroutines -> Windows \cup {NoSlice}]
    /\ index \in [Goroutines -> Nat \ {0}]
    /\ took \in [Goroutines -> Seq(0..MaxMsgs)]

Shape ==
    /\ heap \in Heaps /\ Fits(heap, messages)
    /\ LocalTyped
    /\ \A g \in Goroutines : IF at[g] = "idle" THEN Idle(g) ELSE Working(g)

-----------------------------------------------------------------------------
(* The elements of a slice, and of one in an array nobody wrote to.          *)
LEMMA Window ==
    ASSUME NEW h \in Heaps, NEW s, Fits(h, s)
    PROVE  /\ s # NoSlice /\ Elems(h, s) \in Seq(0..MaxMsgs) /\ Len(Elems(h, s)) = s.len
           /\ \A i \in 1..s.len : Elems(h, s)[i] = h[s.array][i]
<1>1. s.array \in Arrays /\ s.len \in Nat /\ s.len <= Len(h[s.array]) /\ h[s.array] \in Seq(0..MaxMsgs)
  BY DEF Fits, Windows, Heaps
<1>2. s.array # 0 BY <1>1, BatchAssumption
<1>3. s # NoSlice BY <1>2 DEF NoSlice
<1>4. Elems(h, s) = SubSeq(h[s.array], 1, s.len) BY <1>3 DEF Elems
<1>5. \A i \in 1..s.len : h[s.array][i] \in 0..MaxMsgs
  <2>1. Len(h[s.array]) \in Nat BY <1>1
  <2>2. \A i \in 1..s.len : i \in 1..Len(h[s.array]) BY <1>1, <2>1
  <2>3. QED BY <1>1, <2>2, ElementOfSeq
<1>6. QED BY <1>1, <1>3, <1>4, <1>5, SubSeqProperties

LEMMA SameWindow ==
    ASSUME NEW h \in Heaps, NEW k \in Heaps, NEW s, Fits(h, s), k[s.array] = h[s.array]
    PROVE  Fits(k, s) /\ Elems(k, s) = Elems(h, s)
  BY DEF Fits, Elems

(* Garbage collection leaves what is in use alone.                           *)
LEMMA Kept ==
    ASSUME NEW h \in Heaps, NEW S
    PROVE  /\ Collected(h, S) \in Heaps
           /\ \A s \in S : s.array \in Arrays => Collected(h, S)[s.array] = h[s.array]
<1>1. <<>> \in Seq(0..MaxMsgs) OBVIOUS
<1>2. QED BY <1>1 DEF Collected, Heaps

(* There is always an array that nothing refers to.                          *)
LEMMA SomeFree == Free(InUse) # {}
<1> DEFINE T == {hand[g].array : g \in Goroutines}
           f == [g \in Goroutines |-> hand[g].array]
<1>1. f \in Surjection(Goroutines, T) BY DEF Surjection
<1>2. IsFiniteSet(T) /\ Cardinality(T) <= Cardinality(Goroutines)
  BY <1>1, FS_Surjection, BatchAssumption
<1> DEFINE U == T \cup {messages.array}
<1>3. /\ Cardinality(Goroutines) \in Nat /\ Cardinality(Arrays) \in Nat
      /\ Cardinality(T) \in Nat
  BY <1>2, FS_CardinalityType, BatchAssumption
<1> HIDE DEF T
<1>4. IsFiniteSet(U) /\ Cardinality(U) <= Cardinality(T) + 1
  BY <1>2, <1>3, FS_AddElement
<1>5. ASSUME Arrays \subseteq U PROVE FALSE
  <2>1. Cardinality(Arrays) <= Cardinality(U) BY <1>4, <1>5, FS_Subset
  <2>2. Cardinality(U) \in Nat BY <1>4, FS_CardinalityType
  <2>3. QED BY <2>1, <2>2, <1>2, <1>3, <1>4, BatchAssumption
<1>6. PICK a \in Arrays : a \notin U BY <1>5
<1>7. a \in Free(InUse) BY <1>6 DEF Free, InUse, Hands, T
<1>8. QED BY <1>7

(* A new array is one of those, and holds the elements.                      *)
LEMMA Allocated ==
    ASSUME Shape, NEW e \in Seq(0..MaxMsgs), NEW spare \in Nat
    PROVE  LET new == Allocate(e, spare)
           IN  /\ new.heap \in Heaps /\ Fits(new.heap, new.slice)
               /\ Elems(new.heap, new.slice) = e
               /\ new.slice.array # messages.array
               /\ \A g \in Goroutines : new.slice.array # hand[g].array
               /\ \A a \in Arrays : a # new.slice.array => new.heap[a] = heap[a]
<1> DEFINE b == CHOOSE a \in Free(InUse) : TRUE
           z == [i \in 1..spare |-> 0]
           new == Allocate(e, spare)
<1>1. b \in Free(InUse) BY SomeFree
<1>2. b \in Arrays /\ b # messages.array /\ \A g \in Goroutines : b # hand[g].array
  BY <1>1 DEF Free, InUse, Hands
<1>3. z \in Seq(0..MaxMsgs)
  <2>1. z \in [1..spare -> 0..MaxMsgs] BY BatchAssumption
  <2>2. QED BY <2>1, SeqDef
<1>4. Len(z) \in Nat BY <1>3
<1>5. new.slice = [array |-> b, len |-> Len(e)] /\ new.heap = [heap EXCEPT ![b] = e \o z]
  BY DEF Allocate
<1> HIDE DEF b, z, new
<1>6. /\ e \o z \in Seq(0..MaxMsgs) /\ Len(e \o z) = Len(e) + Len(z)
      /\ Len(e) \in Nat /\ \A i \in 1..Len(e) : (e \o z)[i] = e[i]
  BY <1>3, <1>4, ConcatProperties, LenProperties
<1>7. new.heap \in Heaps /\ new.heap[b] = e \o z
  BY <1>2, <1>5, <1>6 DEF Shape, Heaps
<1>8. Fits(new.heap, new.slice) BY <1>2, <1>4, <1>5, <1>6, <1>7 DEF Fits, Windows
<1>9. Elems(new.heap, new.slice) = e
  <2> DEFINE t == Elems(new.heap, new.slice)
  <2>1. /\ t \in Seq(0..MaxMsgs) /\ Len(t) = new.slice.len
        /\ \A i \in 1..new.slice.len : t[i] = new.heap[new.slice.array][i]
    BY <1>7, <1>8, Window
  <2>2. new.slice.len = Len(e) /\ new.heap[new.slice.array] = e \o z BY <1>5, <1>7
  <2> HIDE DEF t
  <2>3. Len(t) = Len(e) /\ \A i \in 1..Len(t) : t[i] = e[i] BY <1>6, <2>1, <2>2
  <2>4. t = e BY <2>1, <2>3, SeqEqual
  <2>5. QED BY <2>4 DEF t
<1>10. \A a \in Arrays : a # new.slice.array => new.heap[a] = heap[a]
  BY <1>5 DEF Shape, Heaps
<1>11. new.slice.array = b BY <1>5
<1>12. QED BY <1>2, <1>7, <1>8, <1>9, <1>10, <1>11 DEF new

(* The arrays stay in order when only these goroutines move, and the arrays  *)
(* of the others are neither written to nor given to the batch.              *)
Moving(M) ==
    /\ LocalTyped'
    /\ \A k \in Goroutines \ M :
          at'[k] = at[k] /\ hand'[k] = hand[k] /\ index'[k] = index[k] /\ took'[k] = took[k]

LEMMA ShapeStep ==
    ASSUME Shape, heap' \in Heaps, Fits(heap', messages'),
           NEW M \in SUBSET Goroutines, Moving(M),
           \A k \in Goroutines \ M : at[k] # "idle" =>
              heap'[hand[k].array] = heap[hand[k].array] /\ hand[k].array # messages'.array,
           \A k \in M : IF at'[k] = "idle" THEN Idle(k)' ELSE Working(k)'
    PROVE  Shape'
<1>1. ASSUME NEW k \in Goroutines \ M PROVE IF at'[k] = "idle" THEN Idle(k)' ELSE Working(k)'
  <2>1. CASE at[k] = "idle" BY <2>1 DEF Shape, Idle, Moving
  <2>2. CASE at[k] # "idle"
    <3>1. Working(k) /\ heap \in Heaps BY <2>2 DEF Shape
    <3>2. Fits(heap, hand[k]) /\ heap'[hand[k].array] = heap[hand[k].array]
      BY <2>2, <3>1 DEF Working
    <3>3. Fits(heap', hand[k]) /\ Elems(heap', hand[k]) = Elems(heap, hand[k])
      BY <3>1, <3>2, SameWindow
    <3>4. QED BY <2>2, <3>1, <3>3 DEF Working, Moving
  <2>3. QED BY <2>1, <2>2
<1>2. \A k \in Goroutines : IF at'[k] = "idle" THEN Idle(k)' ELSE Working(k)' BY <1>1
<1>3. QED BY <1>2 DEF Shape, Moving

(* Appending, in place or not, is appending to what the batch holds.         *)
LEMMA InPlaceEffect ==
    ASSUME Shape, next \in 1..MaxMsgs, AppendInPlace, UNCHANGED local
    PROVE  Shape' /\ Batched' = Append(Batched, next)
<1> DEFINE a == messages.array
           n == messages.len
           s == heap[a]
           t == [s EXCEPT ![n + 1] = next]
<1>1. /\ heap \in Heaps /\ messages \in Windows /\ a \in Arrays /\ n \in Nat
      /\ s \in Seq(0..MaxMsgs) /\ n + 1 \in 1..Len(s) /\ next \in 0..MaxMsgs
  <2>1. heap \in Heaps /\ messages \in Windows /\ n < Len(heap[a])
    BY DEF Shape, Fits, AppendInPlace, Room
  <2>2. a \in Arrays /\ n \in Nat BY <2>1 DEF Windows
  <2>3. s \in Seq(0..MaxMsgs) BY <2>1, <2>2 DEF Heaps
  <2>4. Len(s) \in Nat BY <2>3
  <2>5. n + 1 \in 1..Len(s) BY <2>1, <2>2, <2>4
  <2>6. next \in 0..MaxMsgs BY BatchAssumption
  <2>7. QED BY <2>1, <2>2, <2>3, <2>5, <2>6
<1>2. heap' = [heap EXCEPT ![a] = t] BY DEF AppendInPlace
<1>3. messages' = [array |-> a, len |-> n + 1] BY <1>1 DEF AppendInPlace, Windows
<1>4. /\ t \in Seq(0..MaxMsgs) /\ Len(t) = Len(s)
      /\ \A i \in 1..Len(s) : t[i] = IF i = n + 1 THEN next ELSE s[i]
  BY <1>1, ExceptSeq
<1>5. heap' \in Heaps /\ heap'[a] = t /\ \A b \in Arrays : b # a => heap'[b] = heap[b]
  BY <1>1, <1>2, <1>4 DEF Heaps
<1>6. Fits(heap', messages') BY <1>1, <1>3, <1>4, <1>5 DEF Fits, Windows
<1>7. Shape'
  <2>1. \A k \in Goroutines : at[k] # "idle" => hand[k].array # a /\ hand[k].array \in Arrays
    BY DEF Shape, Working, Fits, Windows
  <2>2. Moving({}) BY DEF local, Moving, LocalTyped, Shape
  <2>3. messages'.array = a BY <1>3
  <2> HIDE DEF a, t, s
  <2>4. \A k \in Goroutines : at[k] # "idle" =>
           heap'[hand[k].array] = heap[hand[k].array] /\ hand[k].array # messages'.array
    BY <1>5, <2>1, <2>3
  <2>5. QED BY <1>5, <1>6, <2>2, <2>4, ShapeStep
<1>8. Batched' = Append(Batched, next)
  <2> DEFINE new == Elems(heap', messages')
             old == Elems(heap, messages)
  <2>1. /\ old \in Seq(0..MaxMsgs) /\ Len(old) = n /\ \A i \in 1..n : old[i] = s[i]
    BY Window DEF Shape
  <2> HIDE DEF t, s, a, n
  <2>2. /\ new \in Seq(0..MaxMsgs) /\ Len(new) = n + 1 /\ \A i \in 1..(n + 1) : new[i] = t[i]
    <3>1. messages'.len = n + 1 /\ messages'.array = a BY <1>3
    <3>2. QED BY <1>5, <1>6, <3>1, Window
  <2> HIDE DEF old, new
  <2>3. \A i \in 1..n : new[i] = old[i] BY <1>1, <1>4, <2>1, <2>2
  <2>4. new[n + 1] = next BY <1>1, <1>4, <2>2
  <2>5. /\ Append(old, next) \in Seq(0..MaxMsgs) /\ Len(Append(old, next)) = n + 1
        /\ Append(old, next)[n + 1] = next
        /\ \A i \in 1..n : Append(old, next)[i] = old[i]
    BY <1>1, <2>1, AppendProperties
  <2>6. \A i \in 1..(n + 1) : i \in 1..n \/ i = n + 1 BY <1>1
  <2>7. \A i \in 1..(n + 1) : new[i] = Append(old, next)[i] BY <2>3, <2>4, <2>5, <2>6
  <2>8. new = Append(old, next) BY <2>2, <2>5, <2>7, SeqEqual
  <2>9. QED BY <2>8 DEF new, old, Batched
<1>9. QED BY <1>7, <1>8

(* What follows a new array for the batch, with nobody's array given up.     *)
LEMMA NewBatch ==
    ASSUME Shape, NEW e \in Seq(0..MaxMsgs), NEW spare \in Nat,
           NEW M \in SUBSET Goroutines, Moving(M), \A k \in M : at'[k] = "idle" /\ Idle(k)',
           messages' = Allocate(e, spare).slice,
           heap' = Collected(Allocate(e, spare).heap, {Allocate(e, spare).slice} \cup Hands(hand'))
    PROVE  Shape' /\ Batched' = e
<1> DEFINE new == Allocate(e, spare)
           S == {new.slice} \cup Hands(hand')
<1>1. /\ new.heap \in Heaps /\ Fits(new.heap, new.slice)
      /\ Elems(new.heap, new.slice) = e
      /\ \A g \in Goroutines : new.slice.array # hand[g].array
      /\ \A a \in Arrays : a # new.slice.array => new.heap[a] = heap[a]
  BY Allocated
<1>2. messages' = new.slice /\ heap' = Collected(new.heap, S) OBVIOUS
<1>3. new.slice.array \in Arrays /\ new.slice \in S BY <1>1 DEF Fits, Windows
<1> HIDE DEF new, S
<1>4. /\ heap' \in Heaps
      /\ \A s \in S : s.array \in Arrays => heap'[s.array] = new.heap[s.array]
  <2>1. /\ Collected(new.heap, S) \in Heaps
        /\ \A s \in S : s.array \in Arrays => Collected(new.heap, S)[s.array] = new.heap[s.array]
    BY <1>1, Kept
  <2>2. heap' = Collected(new.heap, S) BY <1>2
  <2>3. heap' \in Heaps BY <2>1, <2>2
  <2>4. ASSUME NEW s \in S, s.array \in Arrays PROVE heap'[s.array] = new.heap[s.array]
    <3>1. Collected(new.heap, S)[s.array] = new.heap[s.array] BY <2>1, <2>4
    <3>2. QED BY <2>2, <3>1
  <2>5. QED BY <2>3, <2>4
<1>5. Fits(heap', messages') /\ Elems(heap', messages') = e
  <2>1. heap'[new.slice.array] = new.heap[new.slice.array] BY <1>3, <1>4
  <2>2. /\ new.heap \in Heaps /\ Fits(new.heap, new.slice) /\ heap' \in Heaps
        /\ Elems(new.heap, new.slice) = e
    BY <1>1, <1>4
  <2>3. Fits(heap', new.slice) /\ Elems(heap', new.slice) = e BY <2>1, <2>2, SameWindow
  <2>4. QED BY <1>2, <2>3
<1>6. ASSUME NEW k \in Goroutines \ M, at[k] # "idle"
      PROVE  heap'[hand[k].array] = heap[hand[k].array] /\ hand[k].array # messages'.array
  <2>1. hand[k].array \in Arrays BY <1>6 DEF Shape, Working, Fits, Windows
  <2>2. hand[k] \in S BY <1>6 DEF S, Hands, Moving
  <2>3. QED BY <1>1, <1>2, <1>4, <2>1, <2>2
<1>7. Shape' BY <1>4, <1>5, <1>6, ShapeStep
<1>8. QED BY <1>5, <1>7 DEF Batched

LEMMA AddEffect ==
    ASSUME Shape, next \in 1..(MaxMsgs + 1), Add
    PROVE  Shape' /\ Batched' = Append(Batched, next) /\ next \in 1..MaxMsgs
<1>1. next \in 1..MaxMsgs /\ UNCHANGED local BY BatchAssumption DEF Add
<1>2. CASE AppendInPlace BY <1>1, <1>2, InPlaceEffect
<1>3. CASE AppendGrown
  <2> DEFINE e == Append(Batched, next)
             n == messages.len
             spare == IF n = 0 THEN 0 ELSE n - 1
  <2>1. Batched \in Seq(0..MaxMsgs) /\ n \in Nat BY Window DEF Shape, Batched, Fits, Windows
  <2>2. e \in Seq(0..MaxMsgs) /\ spare \in Nat
    <3>1. next \in 0..MaxMsgs BY <1>1, BatchAssumption
    <3>2. QED BY <2>1, <3>1, AppendProperties
  <2>3. UNCHANGED <<at, hand, index, took>> BY <1>1 DEF local
  <2>4. /\ messages' = Allocate(e, spare).slice
        /\ heap' = Collected(Allocate(e, spare).heap, {Allocate(e, spare).slice} \cup Hands(hand'))
    BY <1>3, <2>3 DEF AppendGrown, Batched, Hands
  <2> HIDE DEF e, spare
  <2>5. Shape' /\ Batched' = e
    <3>1. Moving({}) BY <2>3 DEF Moving, LocalTyped, Shape
    <3>2. QED BY <2>2, <2>4, <3>1, NewBatch
  <2>6. QED BY <1>1, <2>5 DEF e
<1>4. QED BY <1>2, <1>3 DEF Add

(* Clear empties the batch and leaves the array.                             *)
LEMMA ClearEffect ==
    ASSUME Shape, Clear
    PROVE  Shape' /\ Batched' = <<>>
<1>1. /\ messages \in Windows /\ messages.array \in Arrays /\ messages.len \in Nat
      /\ messages.len <= Len(heap[messages.array]) /\ heap \in Heaps
  BY DEF Shape, Fits, Windows
<1>2. messages' = [array |-> messages.array, len |-> 0] /\ heap' = heap
  BY <1>1 DEF Clear, Windows
<1>3. Fits(heap', messages')
  <2>1. Len(heap[messages.array]) \in Nat BY <1>1 DEF Heaps
  <2>2. QED BY <1>1, <1>2, <2>1 DEF Fits, Windows
<1>4. Batched' = <<>>
  <2> DEFINE t == Elems(heap', messages')
  <2>1. t \in Seq(0..MaxMsgs) /\ Len(t) = messages'.len BY <1>1, <1>2, <1>3, Window
  <2>2. messages'.len = 0 BY <1>2
  <2> HIDE DEF t
  <2>3. t = <<>> BY <2>1, <2>2
  <2>4. QED BY <2>3 DEF t, Batched
<1>5. Moving({}) BY DEF Clear, local, Moving, LocalTyped, Shape
<1>6. \A k \in Goroutines : at[k] # "idle" =>
         heap'[hand[k].array] = heap[hand[k].array] /\ hand[k].array # messages'.array
  BY <1>2 DEF Shape, Working
<1>7. Shape' BY <1>1, <1>2, <1>3, <1>5, <1>6, ShapeStep
<1>8. QED BY <1>4, <1>7

-----------------------------------------------------------------------------
(* What a goroutine still has to publish, read off what it took.             *)
Owing(g) == {took[g][i] : i \in index[g]..Len(took[g])}

LEMMA PendingIs ==
    ASSUME Shape, NEW g \in Goroutines
    PROVE  /\ took[g] \in Seq(0..MaxMsgs) /\ index[g] \in Nat \ {0} /\ Len(took[g]) \in Nat
           /\ index[g] <= Len(took[g]) + 1
           /\ Pending(g) \in Seq(0..MaxMsgs)
           /\ Len(Pending(g)) = Len(took[g]) - index[g] + 1
           /\ \A i \in 1..Len(Pending(g)) : Pending(g)[i] = took[g][index[g] + i - 1]
           /\ Members(Pending(g)) = Owing(g)
<1>1. took[g] \in Seq(0..MaxMsgs) /\ index[g] \in Nat \ {0} /\ Len(took[g]) \in Nat
  BY DEF Shape, LocalTyped
<1>2. Elems(heap, hand[g]) = took[g] /\ hand[g].len = Len(took[g]) /\ index[g] <= Len(took[g]) + 1
  <2>1. CASE at[g] = "idle"
    <3>1. hand[g] = NoSlice /\ took[g] = <<>> /\ index[g] = 1 BY <2>1 DEF Shape, Idle
    <3>2. QED BY <3>1 DEF NoSlice, Elems
  <2>2. CASE at[g] # "idle"
    <3>1. Working(g) /\ heap \in Heaps BY <2>2 DEF Shape
    <3>2. Len(Elems(heap, hand[g])) = hand[g].len BY <3>1, Window DEF Working
    <3>3. QED BY <3>1, <3>2 DEF Working
  <2>3. QED BY <2>1, <2>2
<1>3. Pending(g) = SubSeq(took[g], index[g], Len(took[g])) BY <1>2 DEF Pending
<1> DEFINE t == took[g]
           m == index[g]
           p == Pending(g)
<1> HIDE DEF t, m, p
<1>4. t \in Seq(0..MaxMsgs) /\ m \in Nat \ {0} /\ Len(t) \in Nat /\ m <= Len(t) + 1
      /\ p = SubSeq(t, m, Len(t))
  BY <1>1, <1>2, <1>3 DEF t, m, p
<1>5. \A i \in m..Len(t) : t[i] \in 0..MaxMsgs
  <2>1. \A i \in m..Len(t) : i \in 1..Len(t) BY <1>4
  <2>2. QED BY <1>4, <2>1, ElementOfSeq
<1>6. /\ p \in Seq(0..MaxMsgs) /\ Len(p) = Len(t) - m + 1
      /\ \A i \in 1..Len(p) : p[i] = t[m + i - 1]
  BY <1>4, <1>5, SubSeqProperties
<1>7. Members(p) = {t[i] : i \in m..Len(t)}
  <2>1. \A i \in m..Len(t) : i - m + 1 \in 1..Len(p) /\ m + (i - m + 1) - 1 = i BY <1>4, <1>6
  <2>2. \A i \in 1..Len(p) : m + i - 1 \in m..Len(t) BY <1>4, <1>6
  <2>3. ASSUME NEW i \in m..Len(t) PROVE t[i] \in Members(p)
    <3>1. p[i - m + 1] = t[i] BY <1>6, <2>1
    <3>2. QED BY <2>1, <3>1 DEF Members
  <2>4. ASSUME NEW i \in 1..Len(p) PROVE p[i] \in {t[j] : j \in m..Len(t)}
    BY <1>6, <2>2
  <2>5. QED BY <2>3, <2>4 DEF Members
<1>8. QED BY <1>4, <1>6, <1>7 DEF t, m, p, Owing

(* Publish takes a copy, PublishAndClear the slice itself.                   *)
LEMMA StartPublishEffect ==
    ASSUME Shape, NEW g \in Goroutines, StartPublish(g)
    PROVE  /\ Shape' /\ Batched' = Batched /\ Moving({g})
           /\ at'[g] = "publish" /\ took'[g] = Batched /\ index'[g] = 1
<1> DEFINE copy == Allocate(Batched, 0)
<1>1. heap \in Heaps /\ Fits(heap, messages) BY DEF Shape
<1>2. Batched \in Seq(0..MaxMsgs) /\ Len(Batched) \in Nat
      /\ messages.array \in Arrays
  BY <1>1, Window DEF Batched, Fits, Windows
<1>3. /\ copy.heap \in Heaps /\ Fits(copy.heap, copy.slice)
      /\ Elems(copy.heap, copy.slice) = Batched
      /\ copy.slice.array # messages.array
      /\ \A k \in Goroutines : copy.slice.array # hand[k].array
      /\ \A a \in Arrays : a # copy.slice.array => copy.heap[a] = heap[a]
  BY <1>2, Allocated
<1>4. heap' = copy.heap /\ hand' = [hand EXCEPT ![g] = copy.slice] /\ messages' = messages
  BY DEF StartPublish, Batched
<1> HIDE DEF copy
<1>5. copy.slice \in Windows BY <1>3 DEF Fits
<1>6. Moving({g}) /\ at'[g] = "publish" /\ took'[g] = Batched /\ index'[g] = 1 /\ hand'[g] = copy.slice
  BY <1>2, <1>4, <1>5 DEF StartPublish, Moving, LocalTyped, Shape, Points, Batched
<1>7. Fits(heap', messages') /\ Batched' = Batched
  <2>1. copy.heap[messages.array] = heap[messages.array] BY <1>2, <1>3
  <2>2. Fits(copy.heap, messages) /\ Elems(copy.heap, messages) = Elems(heap, messages)
    BY <1>1, <1>3, <2>1, SameWindow
  <2>3. QED BY <1>4, <2>2 DEF Batched
<1>8. Working(g)'
  BY <1>2, <1>3, <1>4, <1>6 DEF Working
<1>9. ASSUME NEW k \in Goroutines \ {g}, at[k] # "idle"
      PROVE  heap'[hand[k].array] = heap[hand[k].array] /\ hand[k].array # messages'.array
  <2>1. hand[k].array \in Arrays /\ hand[k].array # messages.array
    BY <1>9 DEF Shape, Working, Fits, Windows
  <2>2. QED BY <1>3, <1>4, <2>1
<1>10. heap' \in Heaps BY <1>3, <1>4
<1>11. Shape' BY <1>6, <1>7, <1>8, <1>9, <1>10, ShapeStep
<1>12. QED BY <1>6, <1>7, <1>11

LEMMA StartFlushEffect ==
    ASSUME Shape, NEW g \in Goroutines, StartFlush(g)
    PROVE  /\ Shape' /\ Batched' = <<>> /\ Moving({g})
           /\ at'[g] = "flush" /\ took'[g] = Batched /\ index'[g] = 1
<1> DEFINE new == Allocate(<<>>, 0)
<1>1. heap \in Heaps /\ Fits(heap, messages) BY DEF Shape
<1>2. /\ Batched \in Seq(0..MaxMsgs) /\ Len(Batched) \in Nat
      /\ messages.array \in Arrays /\ messages \in Windows
  BY <1>1, Window DEF Batched, Fits, Windows
<1>3. /\ new.heap \in Heaps /\ Fits(new.heap, new.slice)
      /\ Elems(new.heap, new.slice) = <<>>
      /\ new.slice.array # messages.array
      /\ \A k \in Goroutines : new.slice.array # hand[k].array
      /\ \A a \in Arrays : a # new.slice.array => new.heap[a] = heap[a]
  BY ZenonT(40), EmptySeq, Allocated
<1>4. heap' = new.heap /\ messages' = new.slice /\ hand' = [hand EXCEPT ![g] = messages]
  BY DEF StartFlush
<1> HIDE DEF new
<1>5. Moving({g}) /\ at'[g] = "flush" /\ took'[g] = Batched /\ index'[g] = 1 /\ hand'[g] = messages
  BY <1>2, <1>4 DEF StartFlush, Moving, LocalTyped, Shape, Points, Batched
<1>6. Fits(heap', messages') /\ Batched' = <<>> BY <1>3, <1>4 DEF Batched
<1>7. Working(g)'
  <2>1. heap'[messages.array] = heap[messages.array] BY <1>2, <1>3, <1>4
  <2>2. heap' \in Heaps BY <1>3, <1>4
  <2>3. Fits(heap', messages) /\ Elems(heap', messages) = Elems(heap, messages)
    BY <1>1, <2>1, <2>2, SameWindow
  <2>4. QED BY <1>2, <1>3, <1>4, <1>5, <2>3 DEF Working, Batched
<1>8. ASSUME NEW k \in Goroutines \ {g}, at[k] # "idle"
      PROVE  heap'[hand[k].array] = heap[hand[k].array] /\ hand[k].array # messages'.array
  <2>1. hand[k].array \in Arrays BY <1>8 DEF Shape, Working, Fits, Windows
  <2>2. QED BY <1>3, <1>4, <2>1
<1>9. heap' \in Heaps BY <1>3, <1>4
<1>10. Shape' BY <1>5, <1>6, <1>7, <1>8, <1>9, ShapeStep
<1>11. QED BY <1>5, <1>6, <1>10

(* The message a goroutine is at.                                            *)
LEMMA FirstPending ==
    ASSUME Shape, NEW g \in Goroutines, Pending(g) # <<>>
    PROVE  index[g] <= Len(took[g]) /\ Pending(g)[1] = took[g][index[g]]
<1> DEFINE p == Pending(g)
<1>1. /\ p \in Seq(0..MaxMsgs) /\ Len(p) = Len(took[g]) - index[g] + 1
      /\ \A i \in 1..Len(p) : p[i] = took[g][index[g] + i - 1]
      /\ index[g] \in Nat \ {0} /\ Len(took[g]) \in Nat
  BY PendingIs
<1> HIDE DEF p
<1>2. Len(p) \in Nat \ {0} BY <1>1, EmptySeq DEF p
<1>3. 1 \in 1..Len(p) /\ index[g] + 1 - 1 = index[g] BY <1>1, <1>2
<1>4. p[1] = took[g][index[g]] BY <1>1, <1>3
<1>5. QED BY <1>1, <1>2, <1>4 DEF p

(* A publish leaves the arrays alone.                                        *)
LEMMA PublishOkEffect ==
    ASSUME Shape, NEW g \in Goroutines, PublishOk(g)
    PROVE  /\ Shape' /\ Batched' = Batched /\ Moving({g})
           /\ at' = at /\ took' = took /\ index'[g] = index[g] + 1
           /\ index[g] <= Len(took[g]) /\ Pending(g)[1] = took[g][index[g]]
<1>1. at[g] # "idle" /\ Pending(g) # <<>> /\ index' = [index EXCEPT ![g] = @ + 1]
      /\ UNCHANGED <<heap, messages, at, hand, took>>
  BY DEF PublishOk
<1>2. index[g] <= Len(took[g]) /\ Pending(g)[1] = took[g][index[g]] BY <1>1, FirstPending
<1>3. index[g] \in Nat \ {0} /\ Len(took[g]) \in Nat BY PendingIs
<1>4. Moving({g}) /\ index'[g] = index[g] + 1
  BY <1>1, <1>3 DEF Moving, LocalTyped, Shape
<1>5. Working(g)' BY <1>1, <1>2, <1>3, <1>4 DEF Shape, Working
<1>6. \A k \in Goroutines : at[k] # "idle" =>
         heap'[hand[k].array] = heap[hand[k].array] /\ hand[k].array # messages'.array
  BY <1>1 DEF Shape, Working
<1>7. heap' \in Heaps /\ Fits(heap', messages') BY <1>1 DEF Shape
<1>8. Shape' BY <1>1, <1>4, <1>5, <1>6, <1>7, ShapeStep
<1>9. QED BY <1>1, <1>2, <1>4, <1>8 DEF Batched

(* A goroutine that is done gives up its array.                              *)
LEMMA LeaveMoves ==
    ASSUME Shape, NEW g \in Goroutines, Leave(g)
    PROVE  Moving({g}) /\ at'[g] = "idle" /\ Idle(g)'
  BY EmptySeq DEF Leave, Moving, LocalTyped, Shape, Idle, Points

LEMMA LeaveEffect ==
    ASSUME Shape, NEW g \in Goroutines, Leave(g), UNCHANGED messages,
           heap' = Collected(heap, {messages} \cup Hands(hand'))
    PROVE  /\ Shape' /\ Batched' = Batched /\ Moving({g})
           /\ at'[g] = "idle" /\ took'[g] = <<>> /\ index'[g] = 1
<1> DEFINE S == {messages} \cup Hands(hand')
<1>1. heap \in Heaps /\ Fits(heap, messages) /\ messages.array \in Arrays
  BY DEF Shape, Fits, Windows
<1>2. Moving({g}) /\ at'[g] = "idle" /\ Idle(g)' BY LeaveMoves
<1>3. heap' = Collected(heap, S) OBVIOUS
<1>4. messages \in S OBVIOUS
<1>5. \A k \in Goroutines \ {g} : hand[k] \in S BY <1>2 DEF Moving, Hands
<1> HIDE DEF S
<1>6. Collected(heap, S) \in Heaps /\
      \A s \in S : s.array \in Arrays => Collected(heap, S)[s.array] = heap[s.array]
  BY <1>1, Kept
<1>7. heap' \in Heaps BY <1>3, <1>6
<1>8. heap'[messages.array] = heap[messages.array]
  <2>1. Collected(heap, S)[messages.array] = heap[messages.array] BY <1>1, <1>4, <1>6
  <2>2. QED BY <1>3, <2>1
<1>9. Fits(heap', messages) /\ Elems(heap', messages) = Elems(heap, messages)
  BY <1>1, <1>7, <1>8, SameWindow
<1>10. ASSUME NEW k \in Goroutines \ {g}, at[k] # "idle"
       PROVE  heap'[hand[k].array] = heap[hand[k].array] /\ hand[k].array # messages'.array
  <2>1. hand[k].array \in Arrays /\ hand[k].array # messages.array
    BY <1>10 DEF Shape, Working, Fits, Windows
  <2>2. Collected(heap, S)[hand[k].array] = heap[hand[k].array] BY <1>5, <1>6, <2>1
  <2>3. QED BY <1>3, <2>1, <2>2
<1>11. Shape' BY <1>2, <1>7, <1>9, <1>10, ShapeStep
<1>12. QED BY <1>2, <1>9, <1>11 DEF Idle, Batched

LEMMA PublishFailsEffect ==
    ASSUME Shape, NEW g \in Goroutines, PublishFails(g)
    PROVE  /\ Shape' /\ Batched' = Batched /\ Moving({g})
           /\ \/ at[g] = "flush" /\ at'[g] = "requeue" /\ UNCHANGED <<took, index>>
              \/ at[g] = "publish" /\ at'[g] = "idle" /\ took'[g] = <<>> /\ index'[g] = 1
<1>1. CASE at[g] = "flush" /\ at' = [at EXCEPT ![g] = "requeue"]
           /\ UNCHANGED <<heap, hand, index, took, messages>>
  <2>1. Moving({g}) /\ at'[g] = "requeue" BY <1>1 DEF Moving, LocalTyped, Shape, Points
  <2>2. Working(g)' BY <1>1 DEF Shape, Working
  <2>3. \A k \in Goroutines : at[k] # "idle" =>
           heap'[hand[k].array] = heap[hand[k].array] /\ hand[k].array # messages'.array
    BY <1>1 DEF Shape, Working
  <2>4. heap' \in Heaps /\ Fits(heap', messages') BY <1>1 DEF Shape
  <2>5. Shape' BY <2>1, <2>2, <2>3, <2>4, ShapeStep
  <2>6. QED BY <1>1, <2>1, <2>5 DEF Batched
<1>2. CASE at[g] = "publish" /\ Leave(g) /\ UNCHANGED messages
           /\ heap' = Collected(heap, {messages} \cup Hands(hand'))
  BY <1>2, LeaveEffect
<1>3. QED BY <1>1, <1>2 DEF PublishFails

LEMMA ReturnEffect ==
    ASSUME Shape, NEW g \in Goroutines, Return(g)
    PROVE  /\ Shape' /\ Batched' = Batched /\ Moving({g})
           /\ at'[g] = "idle" /\ took'[g] = <<>> /\ index'[g] = 1
  BY LeaveEffect DEF Return

(* What is left goes in front of what the batch holds.                       *)
LEMMA RequeueEffect ==
    ASSUME Shape, NEW g \in Goroutines, Requeue(g)
    PROVE  /\ Shape' /\ Batched' = Pending(g) \o Batched /\ Moving({g})
           /\ at'[g] = "idle" /\ took'[g] = <<>> /\ index'[g] = 1
<1> DEFINE e == Pending(g) \o Batched
<1>1. Batched \in Seq(0..MaxMsgs) BY Window DEF Shape, Batched
<1>2. e \in Seq(0..MaxMsgs) BY <1>1, PendingIs, ConcatProperties
<1>3. Moving({g}) /\ at'[g] = "idle" /\ Idle(g)' BY LeaveMoves DEF Requeue
<1>4. /\ messages' = Allocate(e, 0).slice
      /\ heap' = Collected(Allocate(e, 0).heap, {Allocate(e, 0).slice} \cup Hands(hand'))
  BY DEF Requeue, Batched
<1> HIDE DEF e
<1>5. Shape' /\ Batched' = e BY <1>2, <1>3, <1>4, NewBatch
<1>6. QED BY <1>3, <1>5 DEF Idle, e

-----------------------------------------------------------------------------
(* What the slices hold: numbers of messages that were added, each once; a   *)
(* PublishAndClear and the batch, or two of them, have none in common; and   *)
(* as long as no two of them overlapped, everything is in the order of       *)
(* adding and what was taken comes before what is in the batch.              *)
Distinct(s) == \A i, j \in 1..Len(s) : s[i] = s[j] => i = j
Ascending(s) == \A i, j \in 1..Len(s) : i < j => s[i] < s[j]

Numbered ==
    /\ next \in 1..(MaxMsgs + 1)
    /\ Batched \in Seq(1..(next - 1)) /\ Distinct(Batched)
    /\ \A g \in Goroutines : took[g] \in Seq(1..(next - 1)) /\ Distinct(took[g])

Apart ==
    /\ \A g \in Goroutines : Flushing(g) => Owing(g) \cap Members(Batched) = {}
    /\ \A g, k \in Goroutines : Flushing(g) /\ Flushing(k) /\ g # k => Owing(g) \cap Owing(k) = {}

Ordered ==
    ~overlapped =>
        /\ \A g, k \in Goroutines : Flushing(g) /\ Flushing(k) => g = k
        /\ Ascending(Batched)
        /\ \A g \in Goroutines : Flushing(g) =>
              Ascending(took[g]) /\ \A m \in Owing(g), n \in Members(Batched) : m < n

Counted ==
    /\ Members(sent) \subseteq 1..(next - 1) /\ sent \in Seq(1..(next - 1))
    /\ cleared \subseteq 1..(next - 1)
    /\ failures \in 0..MaxFailures /\ overlapped \in BOOLEAN

IInv == Shape /\ Numbered /\ Apart /\ Ordered /\ Counted

(* What sequences of numbers hold, and in which order.                       *)
LEMMA MembersBound ==
    ASSUME NEW N \in Nat, NEW s \in Seq(1..N)
    PROVE  Len(s) \in Nat /\ Members(s) \subseteq 1..N /\ \A i \in 1..Len(s) : s[i] \in Members(s)
  BY ElementOfSeq DEF Members

LEMMA MembersAppend ==
    ASSUME NEW N \in Nat, NEW s \in Seq(1..N), NEW m \in 1..N
    PROVE  /\ Append(s, m) \in Seq(1..N) /\ Members(Append(s, m)) = Members(s) \cup {m}
           /\ Distinct(s) /\ m \notin Members(s) => Distinct(Append(s, m))
           /\ Ascending(s) /\ (\A n \in Members(s) : n < m) => Ascending(Append(s, m))
<1> DEFINE t == Append(s, m)
<1>1. /\ t \in Seq(1..N) /\ Len(t) = Len(s) + 1 /\ t[Len(s) + 1] = m
      /\ \A i \in 1..Len(s) : t[i] = s[i]
  BY AppendProperties
<1>2. Len(s) \in Nat /\ \A i \in 1..Len(s) : s[i] \in Members(s) BY MembersBound
<1> HIDE DEF t
<1>3. \A i \in 1..Len(t) : i \in 1..Len(s) \/ i = Len(s) + 1 BY <1>1, <1>2
<1>4. (\A i \in 1..Len(s) : i \in 1..Len(t)) /\ Len(s) + 1 \in 1..Len(t) BY <1>1, <1>2
<1>5. Members(s) \cup {m} \subseteq Members(t) BY <1>1, <1>4 DEF Members
<1>6. Members(t) \subseteq Members(s) \cup {m}
  <2>1. ASSUME NEW i \in 1..Len(t) PROVE t[i] \in Members(s) \cup {m}
    BY <1>1, <1>2, <1>3
  <2>2. QED BY <2>1 DEF Members
<1>7. ASSUME Distinct(s), m \notin Members(s), NEW i \in 1..Len(t), NEW j \in 1..Len(t), t[i] = t[j]
      PROVE  i = j
  BY <1>1, <1>2, <1>3, <1>7 DEF Distinct
<1>8. ASSUME Ascending(s), \A n \in Members(s) : n < m,
             NEW i \in 1..Len(t), NEW j \in 1..Len(t), i < j
      PROVE  t[i] < t[j]
  <2>1. i \in 1..Len(s) BY <1>1, <1>2, <1>8
  <2>2. CASE j \in 1..Len(s) BY <1>1, <1>8, <2>1, <2>2 DEF Ascending
  <2>3. CASE j = Len(s) + 1 BY <1>1, <1>2, <1>8, <2>1, <2>3
  <2>4. QED BY <1>3, <2>2, <2>3
<1>9. QED BY <1>1, <1>5, <1>6, <1>7, <1>8 DEF Distinct, Ascending, t

LEMMA MembersConcat ==
    ASSUME NEW N \in Nat, NEW s \in Seq(1..N), NEW t \in Seq(1..N)
    PROVE  /\ s \o t \in Seq(1..N) /\ Members(s \o t) = Members(s) \cup Members(t)
           /\ Distinct(s) /\ Distinct(t) /\ Members(s) \cap Members(t) = {} => Distinct(s \o t)
           /\ Ascending(s) /\ Ascending(t) /\ (\A m \in Members(s), n \in Members(t) : m < n)
                => Ascending(s \o t)
<1> DEFINE u == s \o t
<1>1. /\ u \in Seq(1..N) /\ Len(u) = Len(s) + Len(t)
      /\ \A i \in 1..(Len(s) + Len(t)) : u[i] = IF i <= Len(s) THEN s[i] ELSE t[i - Len(s)]
  BY ConcatProperties
<1>2. /\ Len(s) \in Nat /\ Len(t) \in Nat
      /\ \A i \in 1..Len(s) : s[i] \in Members(s)
      /\ \A i \in 1..Len(t) : t[i] \in Members(t)
  BY MembersBound
<1> HIDE DEF u
<1>3. \A i \in 1..Len(u) : \/ i \in 1..Len(s) /\ u[i] = s[i]
                           \/ i - Len(s) \in 1..Len(t) /\ i > Len(s) /\ u[i] = t[i - Len(s)]
  BY <1>1, <1>2
<1>4. \A i \in 1..Len(s) : i \in 1..Len(u) /\ u[i] = s[i] BY <1>1, <1>2
<1>5. \A i \in 1..Len(t) : i + Len(s) \in 1..Len(u) /\ u[i + Len(s)] = t[i]
  <2> TAKE i \in 1..Len(t)
  <2>1. i + Len(s) \in 1..(Len(s) + Len(t)) /\ ~(i + Len(s) <= Len(s)) /\ (i + Len(s)) - Len(s) = i
    BY <1>2
  <2>2. QED BY <1>1, <2>1
<1>6. Members(u) \subseteq Members(s) \cup Members(t)
  <2>1. ASSUME NEW i \in 1..Len(u) PROVE u[i] \in Members(s) \cup Members(t) BY <1>2, <1>3
  <2>2. QED BY <2>1 DEF Members
<1>7. Members(s) \subseteq Members(u)
  <2>1. ASSUME NEW i \in 1..Len(s) PROVE s[i] \in Members(u) BY <1>4 DEF Members
  <2>2. QED BY <2>1 DEF Members
<1>8. Members(t) \subseteq Members(u)
  <2>1. ASSUME NEW i \in 1..Len(t) PROVE t[i] \in Members(u) BY <1>5 DEF Members
  <2>2. QED BY <2>1 DEF Members
<1>9. ASSUME Distinct(s), Distinct(t), Members(s) \cap Members(t) = {},
             NEW i \in 1..Len(u), NEW j \in 1..Len(u), u[i] = u[j]
      PROVE  i = j
  <2>1. CASE i \in 1..Len(s) /\ u[i] = s[i] BY <1>2, <1>3, <1>9, <2>1 DEF Distinct
  <2>2. CASE i - Len(s) \in 1..Len(t) /\ i > Len(s) /\ u[i] = t[i - Len(s)]
    <3>1. CASE j \in 1..Len(s) /\ u[j] = s[j] BY <1>2, <1>9, <2>2, <3>1
    <3>2. CASE j - Len(s) \in 1..Len(t) /\ u[j] = t[j - Len(s)]
      <4>1. i - Len(s) = j - Len(s) BY <1>9, <2>2, <3>2 DEF Distinct
      <4>2. QED BY <1>2, <4>1
    <3>3. QED BY <1>3, <3>1, <3>2
  <2>3. QED BY <1>3, <2>1, <2>2
<1>10. ASSUME Ascending(s), Ascending(t), \A m \in Members(s), n \in Members(t) : m < n,
              NEW i \in 1..Len(u), NEW j \in 1..Len(u), i < j
       PROVE  u[i] < u[j]
  <2>1. CASE i \in 1..Len(s) /\ u[i] = s[i]
    <3>1. CASE j \in 1..Len(s) /\ u[j] = s[j] BY <1>10, <2>1, <3>1 DEF Ascending
    <3>2. CASE j - Len(s) \in 1..Len(t) /\ u[j] = t[j - Len(s)] BY <1>2, <1>10, <2>1, <3>2
    <3>3. QED BY <1>3, <3>1, <3>2
  <2>2. CASE i - Len(s) \in 1..Len(t) /\ i > Len(s) /\ u[i] = t[i - Len(s)]
    <3>1. j > Len(s) /\ i - Len(s) < j - Len(s) BY <1>2, <1>10, <2>2
    <3>2. j \notin 1..Len(s) BY <1>2, <3>1
    <3>3. j - Len(s) \in 1..Len(t) /\ u[j] = t[j - Len(s)] BY <1>3, <3>2
    <3>4. QED BY <1>10, <2>2, <3>1, <3>3 DEF Ascending
  <2>3. QED BY <1>3, <2>1, <2>2
<1>11. QED BY <1>1, <1>6, <1>7, <1>8, <1>9, <1>10 DEF Distinct, Ascending, u

(* Different numbers up to N are at most N of them.                          *)
LEMMA FewDistinct ==
    ASSUME NEW N \in Nat, NEW s \in Seq(1..N), Distinct(s)
    PROVE  Len(s) <= N
<1>1. Len(s) \in Nat /\ s \in [1..Len(s) -> 1..N] BY LenProperties
<1>2. /\ IsFiniteSet(1..Len(s)) /\ Cardinality(1..Len(s)) = Len(s)
      /\ IsFiniteSet(1..N) /\ Cardinality(1..N) = N
  <2>1. \A n \in Nat : IsFiniteSet(1..n) /\ Cardinality(1..n) = n
    <3> TAKE n \in Nat
    <3>1. IsFiniteSet(1..n) /\ Cardinality(1..n) = IF 1 > n THEN 0 ELSE n - 1 + 1
      BY FS_Interval
    <3>2. QED BY <3>1
  <2>2. QED BY <1>1, <2>1
<1>3. s \in Injection(1..Len(s), 1..N) BY <1>1 DEF Injection, IsInjective, Distinct
<1>4. QED BY <1>2, <1>3, FS_Injection

(* What is owed, without the arrays.                                         *)
Owed == Members(Batched) \cup UNION Held
InHand(m) == \E g \in Goroutines : Flushing(g) /\ m \in Owing(g)

OwedSplit == \A m : m \in Owed <=> m \in Members(Batched) \/ InHand(m)

LEMMA OwedIs == Shape => OwedSplit
<1> SUFFICES ASSUME Shape PROVE OwedSplit OBVIOUS
<1>1. \A g \in Goroutines : Members(Pending(g)) = Owing(g) BY PendingIs
<1>2. \A m : m \in UNION Held <=> InHand(m) BY <1>1 DEF Held, InHand
<1>3. QED BY <1>2 DEF OwedSplit, Owed

LEMMA OwedNext == Shape' => OwedSplit'
  BY OwedIs, PTL

(* What a goroutine owes is part of what it took, and the others owe what    *)
(* they did.                                                                 *)
LEMMA OwingBound ==
    ASSUME Shape, Numbered, NEW g \in Goroutines
    PROVE  /\ Owing(g) \subseteq Members(took[g]) /\ Owing(g) \subseteq 1..(next - 1)
           /\ index[g] = 1 => Owing(g) = Members(took[g])
<1>1. /\ index[g] \in Nat \ {0} /\ Len(took[g]) \in Nat
      /\ took[g] \in Seq(1..(next - 1)) /\ next - 1 \in Nat
  BY PendingIs DEF Numbered
<1>2. \A i \in index[g]..Len(took[g]) : i \in 1..Len(took[g]) BY <1>1
<1>3. Owing(g) \subseteq Members(took[g]) BY <1>2 DEF Owing, Members
<1>4. Members(took[g]) \subseteq 1..(next - 1) BY <1>1, MembersBound
<1>5. QED BY <1>3, <1>4 DEF Owing, Members

LEMMA OthersOwe ==
    ASSUME NEW g \in Goroutines, Moving({g}), NEW k \in Goroutines \ {g}
    PROVE  /\ Flushing(k)' <=> Flushing(k)
           /\ Owing(k)' = Owing(k) /\ took'[k] = took[k]
  BY DEF Moving, Flushing, Owing

LEMMA NoMembers == Members(<<>>) = {} /\ Distinct(<<>>) /\ Ascending(<<>>)
  BY DEF Members, Distinct, Ascending

-----------------------------------------------------------------------------
(* Step by step, what the slices hold and what is owed.                      *)
Sound == Shape /\ Numbered /\ Apart /\ Ordered

LEMMA AddContent ==
    ASSUME Sound, Add
    PROVE  Sound' /\ Owed' = Owed \cup {next} /\ next \in 1..MaxMsgs /\ next' = next + 1
<1> USE DEF Sound
<1>1. Shape' /\ Batched' = Append(Batched, next) /\ next \in 1..MaxMsgs /\ next' = next + 1
  BY AddEffect DEF Numbered, Add
<1>2. UNCHANGED <<at, index, took, overlapped>> BY DEF Add, local
<1>3. /\ \A g \in Goroutines : (Flushing(g)' <=> Flushing(g)) /\ Owing(g)' = Owing(g)
      /\ \A m : InHand(m)' <=> InHand(m)
  BY <1>2 DEF Flushing, Owing, InHand
<1>4. /\ next \in Nat /\ next' - 1 = next /\ 1..(next - 1) \subseteq 1..next
      /\ next \notin 1..(next - 1) /\ next \in 1..next
      /\ \A m \in 1..(next - 1) : m < next
  BY <1>1
<1>5. /\ Batched \in Seq(1..next) /\ \A g \in Goroutines : took[g] \in Seq(1..next)
      /\ Members(Batched) \subseteq 1..(next - 1)
  <2>1. next - 1 \in Nat BY <1>1
  <2>2. QED BY <1>4, <2>1, SeqMonotonic, MembersBound DEF Numbered
<1>6. /\ Batched' \in Seq(1..next) /\ Members(Batched)' = Members(Batched) \cup {next}
      /\ Distinct(Batched) /\ next \notin Members(Batched) => Distinct(Batched)'
      /\ Ascending(Batched) /\ (\A n \in Members(Batched) : n < next) => Ascending(Batched)'
  BY <1>1, <1>4, <1>5, MembersAppend
<1>7. \A g \in Goroutines : Owing(g) \subseteq 1..(next - 1) BY OwingBound
<1>8. Numbered'
  <2>1. next' \in 1..(MaxMsgs + 1) BY <1>1, BatchAssumption
  <2>2. Distinct(Batched)' BY <1>4, <1>5, <1>6 DEF Numbered
  <2>3. QED BY <1>2, <1>4, <1>5, <1>6, <2>1, <2>2 DEF Numbered
<1>9. Apart' BY <1>3, <1>4, <1>6, <1>7 DEF Apart
<1>10. Ordered'
  <2>1. ASSUME ~overlapped, NEW g \in Goroutines, Flushing(g), NEW m \in Owing(g),
               NEW n \in Members(Batched) \cup {next}
        PROVE  m < n
    BY <1>4, <1>7, <2>1 DEF Ordered
  <2>2. ~overlapped => Ascending(Batched)' BY <1>4, <1>5, <1>6 DEF Ordered
  <2>3. QED BY <1>2, <1>3, <1>6, <2>1, <2>2 DEF Ordered
<1>11. Owed' = Owed \cup {next}
  <2>1. OwedSplit /\ OwedSplit' BY <1>1, OwedIs, OwedNext
  <2>2. QED BY <1>3, <1>6, <2>1 DEF OwedSplit
<1>12. QED BY <1>1, <1>8, <1>9, <1>10, <1>11

LEMMA ClearContent ==
    ASSUME Sound, Clear
    PROVE  Sound' /\ Owed' = Owed \ Members(Batched)
<1> USE DEF Sound
<1>1. Shape' /\ Batched' = <<>> BY ClearEffect
<1>2. UNCHANGED <<next, at, index, took, overlapped>> BY DEF Clear, local
<1>3. /\ \A g \in Goroutines : (Flushing(g)' <=> Flushing(g)) /\ Owing(g)' = Owing(g)
      /\ \A m : InHand(m)' <=> InHand(m)
  BY <1>2 DEF Flushing, Owing, InHand
<1>4. Members(Batched)' = {} /\ Distinct(Batched)' /\ Ascending(Batched)' BY <1>1, NoMembers
<1>5. Numbered' BY <1>1, <1>2, <1>4 DEF Numbered
<1>6. Apart' BY <1>3, <1>4 DEF Apart
<1>7. Ordered' BY <1>2, <1>3, <1>4 DEF Ordered
<1>8. Owed' = Owed \ Members(Batched)
  <2>1. OwedSplit /\ OwedSplit' BY <1>1, OwedIs, OwedNext
  <2>2. \A m : InHand(m) => m \notin Members(Batched) BY DEF Apart, InHand
  <2>3. QED BY <1>3, <1>4, <2>1, <2>2 DEF OwedSplit
<1>9. QED BY <1>1, <1>5, <1>6, <1>7, <1>8

(* A goroutine moves and the numbers stay: what is left to show is about it. *)
LEMMA NumberedStays ==
    ASSUME Numbered, UNCHANGED next, NEW g \in Goroutines, Moving({g}),
           Batched' \in Seq(1..(next - 1)), Distinct(Batched)',
           took'[g] \in Seq(1..(next - 1)), Distinct(took'[g])
    PROVE  Numbered'
<1>1. \A k \in Goroutines \ {g} : took'[k] = took[k] BY DEF Moving
<1>2. QED BY <1>1 DEF Numbered

LEMMA StartPublishContent ==
    ASSUME Sound, NEW g \in Goroutines, StartPublish(g)
    PROVE  Sound' /\ Owed' = Owed
<1> USE DEF Sound
<1>1. /\ Shape' /\ Batched' = Batched /\ Moving({g})
      /\ at'[g] = "publish" /\ took'[g] = Batched
  BY StartPublishEffect
<1>2. at[g] = "idle" /\ UNCHANGED <<next, overlapped>> BY DEF StartPublish
<1>3. Numbered' BY ZenonT(40), <1>1, <1>2, NumberedStays DEF Numbered, Distinct
<1>4. ~Flushing(g) /\ ~Flushing(g)' BY <1>1, <1>2 DEF Flushing
<1>5. /\ \A k \in Goroutines : Flushing(k)' <=> Flushing(k)
      /\ \A k \in Goroutines : Flushing(k) => Owing(k)' = Owing(k) /\ took'[k] = took[k]
  BY <1>1, <1>4, OthersOwe
<1>6. Members(Batched)' = Members(Batched) BY <1>1
<1>7. Apart' BY <1>5, <1>6 DEF Apart
<1>8. Ordered' BY <1>1, <1>2, <1>5 DEF Ordered, Ascending
<1>9. Owed' = Owed
  <2>1. OwedSplit /\ OwedSplit' BY <1>1, OwedIs, OwedNext
  <2>2. \A m : InHand(m)' <=> InHand(m) BY <1>5 DEF InHand
  <2>3. QED BY <1>6, <2>1, <2>2 DEF OwedSplit
<1>10. QED BY <1>1, <1>3, <1>7, <1>8, <1>9

LEMMA StartFlushContent ==
    ASSUME Sound, overlapped \in BOOLEAN, NEW g \in Goroutines, StartFlush(g)
    PROVE  Sound' /\ Owed' = Owed /\ (overlapped' = overlapped \/ overlapped' = TRUE)
<1> USE DEF Sound
<1>1. /\ Shape' /\ Batched' = <<>> /\ Moving({g})
      /\ at'[g] = "flush" /\ took'[g] = Batched /\ index'[g] = 1
  BY StartFlushEffect
<1>2. at[g] = "idle" /\ next' = next BY DEF StartFlush
<1>3. Members(Batched)' = {} /\ Distinct(Batched)' /\ Ascending(Batched)' BY <1>1, NoMembers
<1>4. Batched' \in Seq(1..(next - 1)) BY <1>1
<1>5. Numbered' BY <1>1, <1>2, <1>3, <1>4, NumberedStays DEF Numbered, Distinct
<1>6. ~Flushing(g) /\ Flushing(g)' BY <1>1, <1>2 DEF Flushing
<1>7. \A k \in Goroutines \ {g} : (Flushing(k)' <=> Flushing(k)) /\ Owing(k)' = Owing(k) /\ took'[k] = took[k]
  BY <1>1, OthersOwe
<1>8. Owing(g)' = Members(Batched)
  <2>1. Owing(g)' = {took'[g][i] : i \in index'[g]..Len(took'[g])} BY DEF Owing
  <2>2. QED BY <1>1, <2>1 DEF Members
<1>9. Apart'
  <2>1. \A k \in Goroutines \ {g} : Flushing(k) => Owing(k) \cap Members(Batched) = {} BY DEF Apart
  <2>2. \A k, o \in Goroutines : Flushing(k) /\ Flushing(o) /\ k # o => Owing(k) \cap Owing(o) = {}
    BY DEF Apart
  <2>3. \A k, o \in Goroutines : Flushing(k)' /\ Flushing(o)' /\ k # o => Owing(k)' \cap Owing(o)' = {}
    BY <1>7, <1>8, <2>1, <2>2
  <2>4. QED BY <1>3, <2>3 DEF Apart
<1>10. overlapped' = overlapped \/ overlapped' = TRUE
  <2>1. CASE \E o \in Goroutines \ {g} : Flushing(o) BY <2>1 DEF StartFlush
  <2>2. CASE ~\E o \in Goroutines \ {g} : Flushing(o)
    <3>1. overlapped' = (overlapped \/ FALSE) BY <2>2 DEF StartFlush
    <3>2. CASE overlapped = TRUE BY <3>1, <3>2
    <3>3. CASE overlapped = FALSE BY <3>1, <3>3
    <3>4. QED BY <3>2, <3>3
  <2>3. QED BY <2>1, <2>2
<1>11. Ordered'
  <2>1. SUFFICES ASSUME ~overlapped' 
                 PROVE  /\ \A k, o \in Goroutines : Flushing(k)' /\ Flushing(o)' => k = o
                        /\ \A k \in Goroutines : Flushing(k)' => Ascending(took'[k])
    BY <1>3 DEF Ordered
  <2>2. ~overlapped /\ \A o \in Goroutines \ {g} : ~Flushing(o) BY <2>1 DEF StartFlush
  <2>3. Ascending(took'[g]) BY <1>1, <2>2 DEF Ordered, Ascending
  <2>4. QED BY <1>7, <2>2, <2>3
<1>12. Owed' = Owed
  <2>1. OwedSplit /\ OwedSplit' BY <1>1, OwedIs, OwedNext
  <2>2. \A m : InHand(m)' <=> InHand(m) \/ m \in Members(Batched) BY <1>6, <1>7, <1>8 DEF InHand
  <2>3. QED BY <1>3, <2>1, <2>2 DEF OwedSplit
<1>13. QED BY <1>1, <1>5, <1>9, <1>10, <1>11, <1>12

(* What a goroutine publishes next is the first of all that is owed, as long *)
(* as no two of them overlapped.                                             *)
LEMMA FirstOwed ==
    ASSUME Sound, NEW g \in Goroutines, Flushing(g), index[g] <= Len(took[g]),
           NEW m, m = took[g][index[g]]
    PROVE  /\ m \in Owing(g) /\ m \in Owed /\ m \in 1..(next - 1)
           /\ ~overlapped => \A o \in Owed : m <= o
<1> USE DEF Sound
<1>1. index[g] \in Nat \ {0} /\ Len(took[g]) \in Nat /\ Owing(g) \subseteq 1..(next - 1)
  BY PendingIs, OwingBound
<1>2. m \in Owing(g) BY <1>1 DEF Owing
<1>3. OwedSplit BY OwedIs
<1>4. m \in Owed BY <1>2, <1>3 DEF OwedSplit, InHand
<1>5. ASSUME ~overlapped, NEW o \in Owed PROVE m <= o
  <2>1. CASE o \in Members(Batched)
    <3>1. m < o BY <1>2, <1>5, <2>1 DEF Ordered
    <3>2. o \in 1..(next - 1)
      <4>1. next - 1 \in Nat BY DEF Numbered
      <4>2. QED BY <2>1, <4>1, MembersBound DEF Numbered
    <3>3. QED BY <1>1, <1>2, <3>1, <3>2 DEF Numbered
  <2>2. CASE InHand(o)
    <3>1. o \in Owing(g) BY <1>5, <2>2 DEF Ordered, InHand
    <3>2. PICK i \in index[g]..Len(took[g]) : o = took[g][i] BY <3>1 DEF Owing
    <3>3. index[g] \in 1..Len(took[g]) /\ i \in 1..Len(took[g]) BY <1>1, <3>2
    <3>4. index[g] < i => m < o BY <1>5, <3>2, <3>3 DEF Ordered, Ascending
    <3>5. index[g] = i => m = o BY <3>2
    <3>6. m \in Nat /\ o \in Nat
      <4>1. \A n \in 1..(next - 1) : n \in Nat BY DEF Numbered
      <4>2. QED BY <1>1, <1>2, <3>1, <4>1
    <3>7. index[g] < i \/ index[g] = i BY <1>1, <3>2
    <3>8. QED BY <3>4, <3>5, <3>6, <3>7
  <2>3. QED BY <1>3, <1>5, <2>1, <2>2 DEF OwedSplit
<1>6. QED BY <1>1, <1>2, <1>4, <1>5

(* A goroutine gets no further than it was, and takes nothing new.           *)
LEMMA LessOwing ==
    ASSUME Sound, Shape', NEW g \in Goroutines, Moving({g}), Batched' = Batched,
           UNCHANGED <<next, overlapped>>,
           took'[g] = took[g] \/ took'[g] = <<>>, Owing(g)' \subseteq Owing(g),
           Flushing(g)' => Flushing(g) /\ took'[g] = took[g]
    PROVE  Sound'
<1> USE DEF Sound
<1>1. Numbered'
  <2>1. took'[g] \in Seq(1..(next - 1)) /\ Distinct(took'[g])
    <3>1. CASE took'[g] = took[g] BY <3>1 DEF Numbered
    <3>2. CASE took'[g] = <<>>
      <4>1. <<>> \in Seq(1..(next - 1)) OBVIOUS
      <4>2. QED BY <3>2, <4>1, NoMembers
    <3>3. QED BY <3>1, <3>2
  <2>2. QED BY ZenonT(40), <2>1, NumberedStays DEF Numbered, Distinct
<1>2. \A k \in Goroutines : /\ Flushing(k)' => Flushing(k) /\ took'[k] = took[k]
                            /\ Owing(k)' \subseteq Owing(k)
  BY OthersOwe
<1>3. Members(Batched)' = Members(Batched) OBVIOUS
<1>4. Apart'
  <2>1. \A k \in Goroutines : Flushing(k)' => Owing(k)' \cap Members(Batched)' = {}
    BY <1>2, <1>3 DEF Apart
  <2>2. ASSUME NEW k \in Goroutines, NEW o \in Goroutines, Flushing(k)', Flushing(o)', k # o
        PROVE  Owing(k)' \cap Owing(o)' = {}
    <3>1. Owing(k) \cap Owing(o) = {} BY <1>2, <2>2 DEF Apart
    <3>2. QED BY <1>2, <3>1
  <2>3. QED BY <2>1, <2>2 DEF Apart
<1>5. Ordered' BY <1>2, <1>3 DEF Ordered, Ascending
<1>6. QED BY <1>1, <1>4, <1>5

LEMMA PublishOkContent ==
    ASSUME Sound, NEW g \in Goroutines, PublishOk(g)
    PROVE  /\ Sound' /\ index[g] <= Len(took[g]) /\ Pending(g)[1] = took[g][index[g]]
           /\ Owed' = IF at[g] = "flush" THEN Owed \ {took[g][index[g]]} ELSE Owed
<1> USE DEF Sound
<1> DEFINE m == took[g][index[g]]
<1>1. /\ Shape' /\ Batched' = Batched /\ Moving({g})
      /\ at' = at /\ took' = took /\ index'[g] = index[g] + 1
      /\ index[g] <= Len(took[g]) /\ Pending(g)[1] = m
  BY PublishOkEffect
<1>2. UNCHANGED <<next, overlapped>> /\ at[g] \in {"publish", "flush"} BY DEF PublishOk
<1>3. index[g] \in Nat \ {0} /\ Len(took[g]) \in Nat BY PendingIs
<1>4. Owing(g)' = Owing(g) \ {m}
  <2>1. Owing(g)' = {took[g][i] : i \in (index[g] + 1)..Len(took[g])} BY <1>1 DEF Owing
  <2>2. \A i \in index[g]..Len(took[g]) : i = index[g] \/ i \in (index[g] + 1)..Len(took[g])
    BY <1>3
  <2>3. \A i \in (index[g] + 1)..Len(took[g]) : i \in index[g]..Len(took[g]) /\ took[g][i] # m
    <3> TAKE i \in (index[g] + 1)..Len(took[g])
    <3>1. i \in 1..Len(took[g]) /\ index[g] \in 1..Len(took[g]) /\ i # index[g]
          /\ i \in index[g]..Len(took[g])
      BY <1>1, <1>3
    <3>2. QED BY <3>1 DEF Numbered, Distinct
  <2>4. QED BY <2>1, <2>2, <2>3 DEF Owing
<1> HIDE DEF m
<1>5. Flushing(g)' <=> Flushing(g) BY <1>1 DEF Flushing
<1>6. Sound' BY <1>1, <1>2, <1>4, <1>5, LessOwing
<1>7. Owed' = IF at[g] = "flush" THEN Owed \ {m} ELSE Owed
  <2>1. OwedSplit /\ OwedSplit' BY <1>1, OwedIs, OwedNext
  <2>2. Members(Batched)' = Members(Batched) BY <1>1
  <2>3. CASE at[g] = "flush"
    <3>1. Flushing(g) BY <2>3 DEF Flushing
    <3>2. m \in Owing(g) BY <1>1, <3>1, FirstOwed DEF m
    <3>3. m \notin Members(Batched) /\ \A k \in Goroutines \ {g} : Flushing(k) => m \notin Owing(k)
      BY <3>1, <3>2 DEF Apart
    <3>4. \A n : InHand(n)' <=> InHand(n) /\ n # m
      BY <1>1, <1>4, <1>5, <3>1, <3>3, OthersOwe DEF InHand
    <3>5. QED BY <2>1, <2>2, <2>3, <3>3, <3>4 DEF OwedSplit
  <2>4. CASE at[g] # "flush"
    <3>1. ~Flushing(g) BY <1>2, <2>4 DEF Flushing
    <3>2. \A n : InHand(n)' <=> InHand(n) BY <1>1, <1>5, <3>1, OthersOwe DEF InHand
    <3>3. QED BY <2>1, <2>2, <2>4, <3>2 DEF OwedSplit
  <2>5. QED BY <2>3, <2>4
<1>8. QED BY <1>1, <1>6, <1>7 DEF m

LEMMA PublishFailsContent ==
    ASSUME Sound, NEW g \in Goroutines, PublishFails(g)
    PROVE  Sound' /\ Owed' = Owed
<1> USE DEF Sound
<1>1. /\ Shape' /\ Batched' = Batched /\ Moving({g})
      /\ \/ at[g] = "flush" /\ at'[g] = "requeue" /\ UNCHANGED <<took, index>>
         \/ at[g] = "publish" /\ at'[g] = "idle" /\ took'[g] = <<>> /\ index'[g] = 1
  BY PublishFailsEffect
<1>2. UNCHANGED <<next, overlapped>> BY DEF PublishFails
<1>3. Members(Batched)' = Members(Batched) BY <1>1
<1>4. OwedSplit /\ OwedSplit' BY <1>1, OwedIs, OwedNext
<1>5. CASE at[g] = "flush" /\ at'[g] = "requeue" /\ UNCHANGED <<took, index>>
  <2>1. Owing(g)' = Owing(g) /\ Flushing(g) /\ Flushing(g)' BY <1>5 DEF Owing, Flushing
  <2>2. Sound' BY <1>1, <1>2, <1>5, <2>1, LessOwing
  <2>3. \A n : InHand(n)' <=> InHand(n) BY <1>1, <2>1, OthersOwe DEF InHand
  <2>4. QED BY <1>3, <1>4, <2>2, <2>3 DEF OwedSplit
<1>6. CASE at[g] = "publish" /\ at'[g] = "idle" /\ took'[g] = <<>> /\ index'[g] = 1
  <2>1. Owing(g)' = {} /\ ~Flushing(g) /\ ~Flushing(g)' BY <1>6 DEF Owing, Flushing
  <2>2. Sound' BY <1>1, <1>2, <1>6, <2>1, LessOwing
  <2>3. \A n : InHand(n)' <=> InHand(n) BY <1>1, <2>1, OthersOwe DEF InHand
  <2>4. QED BY <1>3, <1>4, <2>2, <2>3 DEF OwedSplit
<1>7. QED BY <1>1, <1>5, <1>6

LEMMA ReturnContent ==
    ASSUME Sound, NEW g \in Goroutines, Return(g)
    PROVE  Sound' /\ Owed' = Owed
<1> USE DEF Sound
<1>1. /\ Shape' /\ Batched' = Batched /\ Moving({g})
      /\ at'[g] = "idle" /\ took'[g] = <<>> /\ index'[g] = 1
  BY ReturnEffect
<1>2. UNCHANGED <<next, overlapped>> /\ Pending(g) = <<>> BY DEF Return
<1>3. Owing(g) = {} BY <1>2, PendingIs, NoMembers
<1>4. Owing(g)' = {} /\ ~Flushing(g)' BY <1>1 DEF Owing, Flushing
<1>5. Sound' BY <1>1, <1>2, <1>4, LessOwing
<1>6. \A n : InHand(n)' <=> InHand(n) BY <1>1, <1>3, <1>4, OthersOwe DEF InHand
<1>7. Members(Batched)' = Members(Batched) BY <1>1
<1>8. OwedSplit /\ OwedSplit' BY <1>1, OwedIs, OwedNext
<1>9. QED BY <1>5, <1>6, <1>7, <1>8 DEF OwedSplit

LEMMA RequeueContent ==
    ASSUME Sound, NEW g \in Goroutines, Requeue(g)
    PROVE  Sound' /\ Owed' = Owed
<1> USE DEF Sound
<1>1. /\ Shape' /\ Batched' = Pending(g) \o Batched /\ Moving({g})
      /\ at'[g] = "idle" /\ took'[g] = <<>> /\ index'[g] = 1
  BY RequeueEffect
<1>2. UNCHANGED <<next, overlapped>> /\ Flushing(g) BY DEF Requeue, Flushing
<1>3. Owing(g)' = {} /\ ~Flushing(g)' BY <1>1 DEF Owing, Flushing
<1> DEFINE p == Pending(g)
<1>4. /\ p \in Seq(1..(next - 1)) /\ Members(p) = Owing(g) /\ Distinct(p)
      /\ Ascending(took[g]) => Ascending(p)
  <2>1. /\ index[g] \in Nat \ {0} /\ Len(took[g]) \in Nat /\ index[g] <= Len(took[g]) + 1
        /\ p \in Seq(0..MaxMsgs) /\ Len(p) = Len(took[g]) - index[g] + 1
        /\ \A i \in 1..Len(p) : p[i] = took[g][index[g] + i - 1]
        /\ Members(p) = Owing(g)
    BY PendingIs
  <2> HIDE DEF p
  <2>2. \A i \in 1..Len(p) : index[g] + i - 1 \in 1..Len(took[g]) BY <2>1
  <2>3. Distinct(p)
    <3>1. ASSUME NEW i \in 1..Len(p), NEW j \in 1..Len(p), p[i] = p[j] PROVE i = j
      <4>1. took[g][index[g] + i - 1] = took[g][index[g] + j - 1] BY <2>1, <3>1
      <4>2. Distinct(took[g]) BY DEF Numbered
      <4>3. index[g] + i - 1 = index[g] + j - 1 BY <2>2, <4>1, <4>2 DEF Distinct
      <4>4. QED BY <2>1, <4>3
    <3>2. QED BY <3>1 DEF Distinct
  <2>4. ASSUME Ascending(took[g]) PROVE Ascending(p)
    <3>1. ASSUME NEW i \in 1..Len(p), NEW j \in 1..Len(p), i < j PROVE p[i] < p[j]
      <4>1. index[g] + i - 1 < index[g] + j - 1 BY <2>1, <3>1
      <4>2. QED BY <2>1, <2>2, <2>4, <4>1 DEF Ascending
    <3>2. QED BY <3>1 DEF Ascending
  <2>5. p \in Seq(1..(next - 1))
    <3>1. \A i \in 1..Len(p) : p[i] \in 1..(next - 1)
      BY <2>1, <2>2, ElementOfSeq DEF Numbered
    <3>2. p \in [1..Len(p) -> 1..(next - 1)] /\ Len(p) \in Nat BY <2>1, <3>1, LenProperties
    <3>3. QED BY <3>2, SeqDef
  <2>6. QED BY <2>1, <2>3, <2>4, <2>5
<1> HIDE DEF p
<1>5. /\ Batched \in Seq(1..(next - 1)) /\ Distinct(Batched) /\ next - 1 \in Nat
      /\ Members(p) \cap Members(Batched) = {}
  BY <1>2, <1>4 DEF Numbered, Apart
<1>6. Batched' = p \o Batched BY <1>1 DEF p
<1>7. /\ Batched' \in Seq(1..(next - 1)) /\ Members(Batched)' = Members(p) \cup Members(Batched)
      /\ Distinct(Batched)'
      /\ Ascending(p) /\ Ascending(Batched) /\ (\A m \in Members(p), n \in Members(Batched) : m < n)
           => Ascending(Batched)'
  BY <1>4, <1>5, <1>6, MembersConcat
<1>8. Numbered'
  <2>1. took'[g] \in Seq(1..(next - 1)) /\ Distinct(took'[g]) BY <1>1, NoMembers
  <2>2. QED BY <1>1, <1>2, <1>7, <2>1, NumberedStays
<1>9. \A k \in Goroutines : Flushing(k)' =>
         k # g /\ Flushing(k) /\ Owing(k)' = Owing(k) /\ took'[k] = took[k]
  BY <1>1, <1>3, OthersOwe
<1>10. Apart'
  <2>1. \A k \in Goroutines : Flushing(k)' => Owing(k)' \cap Members(Batched)' = {}
    BY <1>2, <1>4, <1>7, <1>9 DEF Apart
  <2>2. \A k, o \in Goroutines : Flushing(k)' /\ Flushing(o)' /\ k # o => Owing(k)' \cap Owing(o)' = {}
    BY <1>9 DEF Apart
  <2>3. QED BY <2>1, <2>2 DEF Apart
<1>11. Ordered'
  <2>1. ASSUME ~overlapped PROVE Ascending(Batched)' /\ \A k \in Goroutines : ~Flushing(k)'
    <3>1. Ascending(p) /\ Ascending(Batched) /\ \A m \in Members(p), n \in Members(Batched) : m < n
      BY <1>2, <1>4, <2>1 DEF Ordered
    <3>2. \A k \in Goroutines : Flushing(k) => k = g BY <1>2, <2>1 DEF Ordered
    <3>3. QED BY <1>7, <1>9, <3>1, <3>2
  <2>2. QED BY <1>2, <2>1 DEF Ordered
<1>12. Owed' = Owed
  <2>1. OwedSplit /\ OwedSplit' BY <1>1, OwedIs, OwedNext
  <2>2. \A n : InHand(n) <=> InHand(n)' \/ n \in Owing(g)
    BY <1>1, <1>2, <1>3, OthersOwe DEF InHand
  <2>3. QED BY <1>4, <1>7, <2>1, <2>2 DEF OwedSplit
<1>13. QED BY <1>1, <1>8, <1>10, <1>11, <1>12

-----------------------------------------------------------------------------
(* The invariant and the promise, step by step.                              *)
Safe == [Promise!OutboxNext]_(Promise!outboxVars)

LEMMA PromiseIs ==
    /\ Promise!Add <=> /\ next' - 1 = next - 1 + 1 /\ Owed' = Owed \cup {next - 1 + 1}
                       /\ UNCHANGED <<sent, cleared, failures>> /\ (~overlapped)' = ~overlapped
    /\ \A m : Promise!MayGo(m) <=> m \in Owed /\ (~overlapped => \A o \in Owed : m <= o)
    /\ \A m : Promise!Send(m) <=> /\ Promise!MayGo(m)
                                  /\ sent' = Append(sent, m) /\ Owed' = Owed \ {m}
                                  /\ (next - 1)' = next - 1 /\ (~overlapped)' = ~overlapped
                                  /\ UNCHANGED <<cleared, failures>>
    /\ Promise!Fail <=> /\ failures' = failures + 1
                        /\ \/ \E m \in Owed : Promise!MayGo(m) /\ sent' = Append(sent, m)
                           \/ UNCHANGED sent
                        /\ (next - 1)' = next - 1 /\ Owed' = Owed /\ cleared' = cleared
                        /\ (~overlapped)' = ~overlapped
    /\ Promise!Drop <=> /\ \E d \in SUBSET Owed : Owed' = Owed \ d /\ cleared' = cleared \cup d
                        /\ (next - 1)' = next - 1 /\ UNCHANGED <<sent, failures>>
                        /\ (~overlapped)' = ~overlapped
    /\ Promise!Overlap <=> /\ (~overlapped)' = FALSE /\ (next - 1)' = next - 1 /\ Owed' = Owed
                           /\ UNCHANGED <<sent, cleared, failures>>
    /\ Safe <=> \/ Promise!Add \/ (\E m \in Owed : Promise!Send(m)) \/ Promise!Fail
                \/ Promise!Drop \/ Promise!Overlap
                \/ /\ (next - 1)' = next - 1 /\ Owed' = Owed /\ (~overlapped)' = ~overlapped
                   /\ UNCHANGED <<sent, cleared, failures>>
  BY DEF Promise!Add, Promise!MayGo, Promise!Send, Promise!Fail, Promise!Drop, Promise!Overlap,
         Promise!OutboxNext, Promise!outboxVars, Safe, Owed, Batched

LEMMA AddStep ==
    ASSUME IInv, Add PROVE IInv' /\ Safe
<1>1. Sound BY DEF IInv, Sound
<1>2. Sound' /\ Owed' = Owed \cup {next} /\ next \in 1..MaxMsgs /\ next' = next + 1
  BY <1>1, AddContent
<1>3. UNCHANGED <<sent, cleared, failures, overlapped>> BY DEF Add, outcome
<1>4. next - 1 \in Nat /\ 1..(next - 1) \subseteq 1..(next' - 1) BY <1>2
<1>5. Counted' BY <1>3, <1>4, SeqMonotonic DEF IInv, Counted, Members
<1>6. next - 1 + 1 = next /\ next' - 1 = next - 1 + 1 BY <1>2
<1>7. Safe BY <1>2, <1>3, <1>6, PromiseIs
<1>8. QED BY <1>2, <1>5, <1>7 DEF IInv, Sound

LEMMA ClearStep ==
    ASSUME IInv, Clear PROVE IInv' /\ Safe
<1>1. Sound BY DEF IInv, Sound
<1>2. Sound' /\ Owed' = Owed \ Members(Batched) BY <1>1, ClearContent
<1>3. cleared' = cleared \cup Members(Batched) /\ UNCHANGED <<next, sent, failures, overlapped>>
  BY DEF Clear, outcome, Batched
<1>4. Members(Batched) \subseteq 1..(next - 1)
  <2>1. next - 1 \in Nat BY DEF IInv, Numbered
  <2>2. QED BY <2>1, MembersBound DEF IInv, Numbered
<1>5. Counted' BY <1>3, <1>4 DEF IInv, Counted, Members
<1>6. Members(Batched) \in SUBSET Owed BY DEF Owed
<1>7. Promise!Drop BY <1>2, <1>3, <1>6, PromiseIs
<1>8. Safe BY <1>7, PromiseIs
<1>9. QED BY <1>2, <1>5, <1>8 DEF IInv, Sound

(* A goroutine that sends the first message it owes.                         *)
LEMMA Sends ==
    ASSUME IInv, NEW m \in 1..(next - 1), UNCHANGED <<next, cleared, overlapped>>,
           sent' = Append(sent, m), failures' \in 0..MaxFailures
    PROVE  Counted'
<1>1. next - 1 \in Nat BY DEF IInv, Numbered
<1>2. sent' \in Seq(1..(next - 1)) BY AppendProperties DEF IInv, Counted
<1>3. Members(sent') \subseteq 1..(next - 1) BY <1>1, <1>2, MembersBound
<1>4. QED BY <1>2, <1>3 DEF IInv, Counted, Members

LEMMA PublishOkStep ==
    ASSUME IInv, NEW g \in Goroutines, PublishOk(g) PROVE IInv' /\ Safe
<1> DEFINE m == took[g][index[g]]
<1>1. Sound BY DEF IInv, Sound
<1>2. /\ Sound' /\ index[g] <= Len(took[g]) /\ Pending(g)[1] = m
      /\ Owed' = IF at[g] = "flush" THEN Owed \ {m} ELSE Owed
  BY <1>1, PublishOkContent
<1>3. /\ sent' = IF at[g] = "flush" THEN Append(sent, m) ELSE sent
      /\ UNCHANGED <<next, cleared, failures, overlapped>>
  BY <1>2 DEF PublishOk, Got
<1> HIDE DEF m
<1>4. failures' \in 0..MaxFailures BY <1>3 DEF IInv, Counted
<1>5. CASE at[g] = "flush"
  <2>1. Flushing(g) BY <1>5 DEF Flushing
  <2>2. m \in Owed /\ m \in 1..(next - 1) /\ (~overlapped => \A o \in Owed : m <= o)
    BY <1>1, <1>2, <2>1, FirstOwed DEF m
  <2>3. Counted' BY <1>3, <1>4, <1>5, <2>2, Sends
  <2>4. Promise!Send(m) BY <1>2, <1>3, <1>5, <2>2, PromiseIs
  <2>5. Safe BY <2>2, <2>4, PromiseIs
  <2>6. QED BY <1>2, <2>3, <2>5 DEF IInv, Sound
<1>6. CASE at[g] # "flush"
  <2>1. Counted' BY <1>3, <1>6 DEF IInv, Counted, Members
  <2>2. Safe BY <1>2, <1>3, <1>6, PromiseIs
  <2>3. QED BY <1>2, <2>1, <2>2 DEF IInv, Sound
<1>7. QED BY <1>5, <1>6

LEMMA PublishFailsStep ==
    ASSUME IInv, NEW g \in Goroutines, PublishFails(g) PROVE IInv' /\ Safe
<1> DEFINE m == took[g][index[g]]
<1>1. Sound BY DEF IInv, Sound
<1>2. Sound' /\ Owed' = Owed BY <1>1, PublishFailsContent
<1>3. /\ failures < MaxFailures /\ failures' = failures + 1 /\ Pending(g) # <<>>
      /\ UNCHANGED <<next, cleared, overlapped>>
      /\ \/ at[g] = "flush" /\ sent' = Append(sent, Pending(g)[1])
         \/ UNCHANGED sent
  BY DEF PublishFails, Got
<1>4. failures' \in 0..MaxFailures BY <1>3, BatchAssumption DEF IInv, Counted
<1>5. CASE UNCHANGED sent
  <2>1. Counted' BY <1>3, <1>4, <1>5 DEF IInv, Counted, Members
  <2>2. Promise!Fail BY <1>2, <1>3, <1>5, PromiseIs
  <2>3. QED BY <1>2, <2>1, <2>2, PromiseIs DEF IInv, Sound
<1>6. CASE at[g] = "flush" /\ sent' = Append(sent, Pending(g)[1])
  <2>1. Flushing(g) BY <1>6 DEF Flushing
  <2>2. index[g] <= Len(took[g]) /\ Pending(g)[1] = m
    BY <1>1, <1>3, FirstPending DEF Sound
  <2> HIDE DEF m
  <2>3. m \in Owed /\ m \in 1..(next - 1) /\ (~overlapped => \A o \in Owed : m <= o)
    BY <1>1, <2>1, <2>2, FirstOwed DEF m
  <2>4. sent' = Append(sent, m) BY <1>6, <2>2
  <2>5. Counted' BY <1>3, <1>4, <2>3, <2>4, Sends
  <2>6. Promise!MayGo(m) BY <2>3, PromiseIs
  <2>7. Promise!Fail BY <1>2, <1>3, <2>3, <2>4, <2>6, PromiseIs
  <2>8. QED BY <1>2, <2>5, <2>7, PromiseIs DEF IInv, Sound
<1>7. QED BY <1>3, <1>5, <1>6

LEMMA StartFlushStep ==
    ASSUME IInv, NEW g \in Goroutines, StartFlush(g) PROVE IInv' /\ Safe
<1>1. Sound /\ overlapped \in BOOLEAN BY DEF IInv, Sound, Counted
<1>2. Sound' /\ Owed' = Owed /\ (overlapped' = overlapped \/ overlapped' = TRUE)
  BY <1>1, StartFlushContent
<1>3. UNCHANGED <<next, sent, cleared, failures>> BY DEF StartFlush, outcome
<1>4. overlapped' \in BOOLEAN BY <1>1, <1>2
<1>5. Counted' BY <1>3, <1>4 DEF IInv, Counted, Members
<1>6. Safe
  <2>1. CASE overlapped' = overlapped BY <1>2, <1>3, <2>1, PromiseIs
  <2>2. CASE overlapped' = TRUE
    <3>1. (~overlapped)' = FALSE BY <2>2
    <3>2. Promise!Overlap BY <1>2, <1>3, <3>1, PromiseIs
    <3>3. QED BY <3>2, PromiseIs
  <2>3. QED BY <1>2, <2>1, <2>2
<1>7. QED BY <1>2, <1>5, <1>6 DEF IInv, Sound

LEMMA QuietStep ==
    ASSUME IInv, NEW g \in Goroutines, StartPublish(g) \/ Requeue(g) \/ Return(g) PROVE IInv' /\ Safe
<1>1. Sound BY DEF IInv, Sound
<1>2. Sound' /\ Owed' = Owed
  BY <1>1, StartPublishContent, RequeueContent, ReturnContent
<1>3. UNCHANGED <<next, sent, cleared, failures, overlapped>>
  BY DEF StartPublish, Requeue, Return, outcome
<1>4. Counted' BY <1>3 DEF IInv, Counted, Members
<1>5. Safe BY <1>2, <1>3, PromiseIs
<1>6. QED BY <1>2, <1>4, <1>5 DEF IInv, Sound

LEMMA StutterStep ==
    ASSUME IInv, UNCHANGED vars PROVE IInv' /\ Safe
<1> USE DEF vars
<1>1. UNCHANGED <<heap, messages, next, at, hand, index, took, sent, cleared, failures, overlapped>>
  OBVIOUS
<1>2. Shape' BY <1>1 DEF IInv, Shape, LocalTyped, Idle, Working
<1>3. Batched' = Batched /\ \A g \in Goroutines : (Flushing(g)' <=> Flushing(g)) /\ Owing(g)' = Owing(g)
  BY <1>1 DEF Batched, Flushing, Owing
<1>4. Numbered' /\ Counted' BY <1>1, <1>3 DEF IInv, Numbered, Counted, Distinct, Members
<1>5. Apart' BY <1>3 DEF IInv, Apart, Members
<1>6. Ordered' BY <1>1, <1>3 DEF IInv, Ordered, Ascending, Members
<1>7. Owed' = Owed BY <1>1 DEF Owed, Batched, Held, Flushing, Pending, Members
<1>8. Safe BY <1>1, <1>7, PromiseIs
<1>9. QED BY <1>2, <1>4, <1>5, <1>6, <1>8 DEF IInv

LEMMA InitIInv == Init => IInv /\ Promise!OutboxInit
<1> SUFFICES ASSUME Init PROVE IInv /\ Promise!OutboxInit OBVIOUS
<1>1. PICK a \in Arrays : messages = [array |-> a, len |-> 0] BY DEF Init
<1>2. <<>> \in Seq(0..MaxMsgs) /\ Len(<<>>) = 0 OBVIOUS
<1>3. heap \in Heaps /\ Fits(heap, messages)
  BY <1>1, <1>2 DEF Init, Heaps, Fits, Windows
<1>4. Batched = <<>>
  <2> DEFINE t == Elems(heap, messages)
  <2>1. t \in Seq(0..MaxMsgs) /\ Len(t) = messages.len BY <1>3, Window
  <2> HIDE DEF t
  <2>2. t = <<>> BY <1>1, <2>1
  <2>3. QED BY <2>2 DEF t, Batched
<1>5. Shape
  <2>1. LocalTyped BY <1>2 DEF Init, LocalTyped, Points
  <2>2. \A g \in Goroutines : at[g] = "idle" /\ Idle(g) BY DEF Init, Idle
  <2>3. QED BY <1>3, <2>1, <2>2 DEF Shape
<1>6. \A g \in Goroutines : ~Flushing(g) /\ took[g] = <<>> BY DEF Init, Flushing
<1>7. next = 1 /\ sent = <<>> /\ cleared = {} /\ failures = 0 /\ overlapped = FALSE BY DEF Init
<1>8. <<>> \in Seq(1..(next - 1)) OBVIOUS
<1>9. Numbered /\ Apart /\ Ordered
  <2>1. next \in 1..(MaxMsgs + 1) BY <1>7, BatchAssumption
  <2>2. Numbered BY <1>4, <1>6, <1>8, <2>1, NoMembers DEF Numbered
  <2>3. Apart BY <1>6 DEF Apart
  <2>4. Ordered BY <1>4, <1>6, NoMembers DEF Ordered
  <2>5. QED BY <2>2, <2>3, <2>4
<1>10. Counted
  <2>1. Members(sent) = {} /\ cleared = {} BY <1>7, NoMembers
  <2>2. failures \in 0..MaxFailures
    <3>1. 0 \in 0..MaxFailures BY BatchAssumption
    <3>2. QED BY <1>7, <3>1
  <2>3. overlapped \in BOOLEAN BY <1>7
  <2>4. QED BY <1>7, <1>8, <2>1, <2>2, <2>3 DEF Counted
<1>11. Owed = {}
  <2>1. OwedSplit BY <1>5, OwedIs
  <2>2. QED BY <1>4, <1>6, <2>1, NoMembers DEF OwedSplit, InHand
<1>12. Promise!OutboxInit
  <2>1. next - 1 = 0 /\ ~overlapped = TRUE BY <1>7
  <2>2. QED BY <1>7, <1>11, <2>1 DEF Promise!OutboxInit, Owed, Batched
<1>13. QED BY <1>5, <1>9, <1>10, <1>12 DEF IInv

LEMMA StepSafe == IInv /\ [Next]_vars => IInv' /\ Safe
<1> SUFFICES ASSUME IInv, [Next]_vars PROVE IInv' /\ Safe OBVIOUS
<1>1. ASSUME NEW g \in Goroutines, Publishing(g) PROVE IInv' /\ Safe
  BY <1>1, StartFlushStep, PublishOkStep, PublishFailsStep, QuietStep DEF Publishing
<1>2. QED BY <1>1, AddStep, ClearStep, StutterStep DEF Next

(* All of it is invariant.                                                   *)
THEOREM Inductive == Spec => []IInv
  BY InitIInv, StepSafe, PTL DEF Spec

(* No slice reaches past its array, and none holds more than was added.      *)
THEOREM Typed == Spec => []TypeOK
<1>1. IInv => TypeOK
  <2> SUFFICES ASSUME IInv PROVE TypeOK OBVIOUS
  <2>1. Shape /\ Numbered /\ Counted BY DEF IInv
  <2>2. /\ heap \in Heaps /\ Fits(heap, messages)
        /\ at \in [Goroutines -> Points] /\ hand \in [Goroutines -> Windows \cup {NoSlice}]
        /\ index \in [Goroutines -> Nat \ {0}]
    BY <2>1 DEF Shape, LocalTyped
  <2>3. \A a \in Arrays : Members(heap[a]) \subseteq 0..MaxMsgs
    <3> TAKE a \in Arrays
    <3>1. heap[a] \in Seq(0..MaxMsgs) BY <2>2 DEF Heaps
    <3>2. QED BY <3>1, ElementOfSeq DEF Members
  <2>4. next - 1 \in Nat /\ next - 1 <= MaxMsgs /\ next \in 1..(MaxMsgs + 1)
    BY <2>1, BatchAssumption DEF Numbered
  <2>5. messages \in Slice /\ messages.len <= Len(heap[messages.array])
    <3>1. Len(Batched) = messages.len BY <2>2, Window DEF Batched
    <3>2. Len(Batched) <= next - 1 BY <2>1, <2>4, FewDistinct DEF Numbered
    <3>3. messages.len \in 0..MaxMsgs
      BY <2>2, <2>4, <3>1, <3>2, BatchAssumption DEF Fits, Windows
    <3>4. QED BY <2>2, <3>3 DEF Fits, Windows, Slice
  <2>6. ASSUME NEW g \in Goroutines PROVE hand[g] \in Slice /\ index[g] \in 1..(MaxMsgs + 1)
    <3>1. Len(took[g]) <= next - 1 /\ Len(took[g]) \in Nat /\ index[g] <= Len(took[g]) + 1
          /\ index[g] \in Nat \ {0}
      BY <2>1, <2>4, FewDistinct, PendingIs DEF Numbered
    <3>2. index[g] \in 1..(MaxMsgs + 1) BY <2>4, <3>1, BatchAssumption
    <3>3. CASE at[g] = "idle"
      <4>1. hand[g] = NoSlice BY <2>1, <3>3 DEF Shape, Idle
      <4>2. QED BY <3>2, <4>1, BatchAssumption DEF NoSlice, Slice
    <3>4. CASE at[g] # "idle"
      <4>1. Working(g) BY <2>1, <3>4 DEF Shape
      <4>2. hand[g].len = Len(took[g]) BY <2>2, <4>1, Window DEF Working
      <4>3. hand[g].len \in 0..MaxMsgs BY <2>4, <3>1, <4>2, BatchAssumption
      <4>4. QED BY <3>2, <4>1, <4>3 DEF Working, Fits, Windows, Slice
    <3>5. QED BY <3>3, <3>4
  <2>7. hand \in [Goroutines -> Slice] /\ index \in [Goroutines -> 1..(MaxMsgs + 1)]
    BY <2>2, <2>6
  <2>8. 1..(next - 1) \subseteq 1..MaxMsgs BY <2>4, BatchAssumption
  <2>9. QED BY <2>1, <2>2, <2>3, <2>4, <2>5, <2>7, <2>8 DEF TypeOK, Counted, Points
<1>2. QED BY <1>1, Inductive, PTL

(* The slice a goroutine publishes from without the lock is not written to   *)
(* by what Add, Clear and the other goroutines do.                           *)
THEOREM SlicesApart == Spec => []HandsUntouched
<1>1. IInv => HandsUntouched BY DEF IInv, Shape, Working, HandsUntouched
<1>2. QED BY <1>1, Inductive, PTL

(* Every step of the batch is a step of the outbox, or none.                 *)
THEOREM Refines == Spec => KeepsPromise
<1>1. Init => Promise!OutboxInit BY InitIInv
<1>2. IInv /\ [Next]_vars => [Promise!OutboxNext]_(Promise!outboxVars) BY StepSafe DEF Safe
<1>3. QED BY <1>1, <1>2, Inductive, PTL DEF Spec, KeepsPromise, Promise!OutboxSpec

(* So what is proved of an outbox is true of a batch.                        *)
Sure == INSTANCE OutboxProofs WITH
    added <- next - 1,
    owed <- Members(Elems(heap, messages)) \cup UNION Held,
    ordered <- ~overlapped

LEMMA AnOutbox == Spec => Sure!OutboxSpec
<1>1. Promise!OutboxInit => Sure!OutboxInit BY DEF Promise!OutboxInit, Sure!OutboxInit
<1>2. [Promise!OutboxNext]_(Promise!outboxVars) => [Sure!OutboxNext]_(Sure!outboxVars)
  BY DEF Promise!OutboxNext, Promise!outboxVars, Promise!Add, Promise!Send, Promise!MayGo,
         Promise!Fail, Promise!Drop, Promise!Overlap, Sure!OutboxNext, Sure!outboxVars, Sure!Add,
         Sure!Send, Sure!MayGo, Sure!Fail, Sure!Drop, Sure!Overlap
<1>3. KeepsPromise => Sure!OutboxSpec
  BY <1>1, <1>2, PTL DEF KeepsPromise, Promise!OutboxSpec, Sure!OutboxSpec
<1>4. QED BY <1>3, Refines, PTL

(* Whatever is published, cleared or fails, and however the calls overlap,   *)
(* each message that was added is in the batch, in the hands of a            *)
(* PublishAndClear that will put it back, sent, or cleared.                  *)
THEOREM NeverLost == Spec => []Sure!NothingLost
  BY AnOutbox, Sure!Kept, PTL

(* While no publish has failed, PublishAndClear has sent nothing twice, and  *)
(* nothing that it sent is still in the batch.                               *)
THEOREM NeverTwice == Spec => []Sure!SentOnce
  BY AnOutbox, Sure!Once, PTL

(* While no two PublishAndClear have overlapped, messages go out in the      *)
(* order of adding, those that are put back after a failure included.        *)
THEOREM OrderKept == Spec => []Sure!FirstInFirstOut
  BY AnOutbox, Sure!InOrder, PTL
=============================================================================

-------------------------------- MODULE Batch --------------------------------
(***************************************************************************)
(* BatchPublisher (publisher.go): messages are added to a slice under b.mu *)
(* while other goroutines publish what it holds.                           *)
(*                                                                         *)
(* A Go slice is a window on an array, so two slices can share one: heap   *)
(* holds the arrays, and a slice is an array with a length.  An array      *)
(* nothing refers to any more is empty again, and free.  Messages are      *)
(* numbered in the order in which Add, AddWithKey and AddToExchange        *)
(* appended them.                                                          *)
(***************************************************************************)
EXTENDS Naturals, Sequences, FiniteSets

CONSTANTS Goroutines,  \* those in Publish or PublishAndClear
          Arrays,      \* names for arrays: enough for every live slice
          MaxMsgs,     \* bound: messages added
          MaxFailures  \* bound: publishes that fail

ASSUME BatchAssumption ==
    /\ MaxMsgs \in Nat /\ MaxFailures \in Nat
    /\ Arrays \subseteq Nat \ {0} /\ IsFiniteSet(Arrays) /\ IsFiniteSet(Goroutines)
    /\ Cardinality(Arrays) > Cardinality(Goroutines) + 1

VARIABLES heap,        \* per array, its slots, 0 for nil
          messages,    \* b.messages
          next,        \* the message to be added next
          at,          \* per goroutine, where it is
          hand,        \* per goroutine, the slice it is working on
          index,       \* per goroutine, the element it has reached
          took,        \* per goroutine, what that slice held at the start
          sent,        \* what PublishAndClear got to the broker, in order
          cleared,     \* messages dropped by Clear
          failures,    \* publishes that failed
          overlapped   \* two PublishAndClear have been running at once

vars == <<heap, messages, next, at, hand, index, took, sent, cleared, failures, overlapped>>
local == <<at, hand, index, took>>
outcome == <<sent, failures>>

NoSlice == [array |-> 0, len |-> 0]

\* The elements of a slice.
Elems(h, s) == IF s = NoSlice THEN <<>> ELSE SubSeq(h[s.array], 1, s.len)
Pending(g) == SubSeq(Elems(heap, hand[g]), index[g], hand[g].len)
Members(s) == {s[i] : i \in 1..Len(s)}

\* What is left of the heap h when only these slices are in use.
Collected(h, slices) ==
    [a \in Arrays |-> IF \E s \in slices : s.array = a THEN h[a] ELSE <<>>]
Free(slices) == {a \in Arrays : \A s \in slices : s.array # a}
Hands(f) == {f[g] : g \in Goroutines}
InUse == {messages} \cup Hands(hand)

\* A new array for these elements, with this many empty slots behind them.
Allocate(elems, spare) ==
    LET a == CHOOSE a \in Free(InUse) : TRUE
    IN  [heap  |-> [heap EXCEPT ![a] = elems \o [i \in 1..spare |-> 0]],
         slice |-> [array |-> a, len |-> Len(elems)]]

Init ==
    /\ \E a \in Arrays : messages = [array |-> a, len |-> 0]
    /\ heap = [a \in Arrays |-> <<>>]
    /\ next = 1
    /\ at = [g \in Goroutines |-> "idle"]
    /\ hand = [g \in Goroutines |-> NoSlice]
    /\ index = [g \in Goroutines |-> 1]
    /\ took = [g \in Goroutines |-> <<>>]
    /\ sent = <<>>
    /\ cleared = {}
    /\ failures = 0
    /\ overlapped = FALSE

-----------------------------------------------------------------------------
(* append: in place while the array has room, and else into an array twice *)
(* as large.                                                               *)

Room == messages.len < Len(heap[messages.array])

AppendInPlace ==
    /\ Room
    /\ heap' = [heap EXCEPT ![messages.array][messages.len + 1] = next]
    /\ messages' = [messages EXCEPT !.len = @ + 1]

AppendGrown ==
    /\ ~Room
    /\ LET n == messages.len
           new == Allocate(Append(Elems(heap, messages), next), IF n = 0 THEN 0 ELSE n - 1)
       IN  /\ messages' = new.slice
           /\ heap' = Collected(new.heap, {new.slice} \cup Hands(hand))

\* Add, AddWithKey and AddToExchange.
Add ==
    /\ next <= MaxMsgs
    /\ next' = next + 1
    /\ AppendInPlace \/ AppendGrown
    /\ UNCHANGED <<local, outcome, cleared, overlapped>>

\* b.messages[:0]: the array stays, with its slots.
Clear ==
    /\ messages.len > 0
    /\ cleared' = cleared \cup Members(Elems(heap, messages))
    /\ messages' = [messages EXCEPT !.len = 0]
    /\ UNCHANGED <<heap, next, local, outcome, overlapped>>

\* MUTANT: the slice is used as it is, not copied.
StartPublishShared(g) ==
    /\ at[g] = "idle"
    /\ at' = [at EXCEPT ![g] = "publish"]
    /\ hand' = [hand EXCEPT ![g] = messages]
    /\ index' = [index EXCEPT ![g] = 1]
    /\ took' = [took EXCEPT ![g] = Elems(heap, messages)]
    /\ UNCHANGED <<heap, messages, next, outcome, cleared, overlapped>>

\* Publish works on a copy of the slice.
StartPublish(g) ==
    /\ at[g] = "idle"
    /\ at' = [at EXCEPT ![g] = "publish"]
    /\ LET copy == Allocate(Elems(heap, messages), 0)
       IN  /\ heap' = copy.heap
           /\ hand' = [hand EXCEPT ![g] = copy.slice]
    /\ index' = [index EXCEPT ![g] = 1]
    /\ took' = [took EXCEPT ![g] = Elems(heap, messages)]
    /\ UNCHANGED <<messages, next, outcome, cleared, overlapped>>

Flushing(g) == at[g] \in {"flush", "requeue"}

\* PublishAndClear takes the slice with its array, and leaves a new one.
StartFlush(g) ==
    /\ at[g] = "idle"
    /\ at' = [at EXCEPT ![g] = "flush"]
    /\ hand' = [hand EXCEPT ![g] = messages]
    /\ LET new == Allocate(<<>>, 0)
       IN  messages' = new.slice /\ heap' = new.heap
    /\ index' = [index EXCEPT ![g] = 1]
    /\ took' = [took EXCEPT ![g] = Elems(heap, messages)]
    /\ overlapped' = (overlapped \/ \E o \in Goroutines \ {g} : Flushing(o))
    /\ UNCHANGED <<next, outcome, cleared>>

\* One PublishToExchange.  Publish on its own keeps no record: what it sends is
\* still in the batch.
Got(g) == sent' = IF at[g] = "flush" THEN Append(sent, Pending(g)[1]) ELSE sent

PublishOk(g) ==
    /\ at[g] \in {"publish", "flush"} /\ Pending(g) # <<>>
    /\ Got(g)
    /\ index' = [index EXCEPT ![g] = @ + 1]
    /\ UNCHANGED <<heap, messages, next, at, hand, took, cleared, failures, overlapped>>

\* The goroutine is done with its slice.
Leave(g) ==
    /\ at' = [at EXCEPT ![g] = "idle"]
    /\ hand' = [hand EXCEPT ![g] = NoSlice]
    /\ index' = [index EXCEPT ![g] = 1]
    /\ took' = [took EXCEPT ![g] = <<>>]

\* An error does not say that the message did not get to the broker: the
\* confirmation may only have been late.
PublishFails(g) ==
    /\ at[g] \in {"publish", "flush"} /\ Pending(g) # <<>>
    /\ failures < MaxFailures /\ failures' = failures + 1
    /\ Got(g) \/ UNCHANGED sent
    /\ \/ /\ at[g] = "flush"
          /\ at' = [at EXCEPT ![g] = "requeue"]
          /\ UNCHANGED <<heap, hand, index, took>>
       \/ /\ at[g] = "publish"
          /\ Leave(g)
          /\ heap' = Collected(heap, {messages} \cup Hands(hand'))
    /\ UNCHANGED <<messages, next, cleared, overlapped>>

\* MUTANT: make is given the capacity as the length, and append goes behind the nils.
RequeueNils(g) ==
    /\ at[g] = "requeue"
    /\ Leave(g)
    /\ LET all == Pending(g) \o Elems(heap, messages)
           new == Allocate([i \in 1..Len(all) |-> 0] \o all, 0)
       IN  /\ messages' = new.slice
           /\ heap' = Collected(new.heap, {new.slice} \cup Hands(hand'))
    /\ UNCHANGED <<next, outcome, cleared, overlapped>>

\* MUTANT: what is left goes behind what was added meanwhile.
RequeueBehind(g) ==
    /\ at[g] = "requeue"
    /\ Leave(g)
    /\ LET new == Allocate(Elems(heap, messages) \o Pending(g), 0)
       IN  /\ messages' = new.slice
           /\ heap' = Collected(new.heap, {new.slice} \cup Hands(hand'))
    /\ UNCHANGED <<next, outcome, cleared, overlapped>>

\* The messages not yet published, the failed one first, go back in front of
\* what was added meanwhile.
Requeue(g) ==
    /\ at[g] = "requeue"
    /\ Leave(g)
    /\ LET new == Allocate(Pending(g) \o Elems(heap, messages), 0)
       IN  /\ messages' = new.slice
           /\ heap' = Collected(new.heap, {new.slice} \cup Hands(hand'))
    /\ UNCHANGED <<next, outcome, cleared, overlapped>>

Return(g) ==
    /\ at[g] \in {"publish", "flush"} /\ Pending(g) = <<>>
    /\ Leave(g)
    /\ heap' = Collected(heap, {messages} \cup Hands(hand'))
    /\ UNCHANGED <<messages, next, outcome, cleared, overlapped>>

Publishing(g) ==
    \/ StartPublish(g) \/ StartFlush(g) \/ PublishOk(g) \/ PublishFails(g)
    \/ Requeue(g) \/ Return(g)

Next == Add \/ Clear \/ \E g \in Goroutines : Publishing(g)

Spec == Init /\ [][Next]_vars

-----------------------------------------------------------------------------
(* Properties.                                                             *)

Slice == [array : Arrays \cup {0}, len : 0..MaxMsgs]

(* Every variable has its type, and no slice reaches past its array. *)
TypeOK ==
    /\ \A a \in Arrays : Members(heap[a]) \subseteq 0..MaxMsgs
    /\ messages \in Slice /\ messages.len <= Len(heap[messages.array])
    /\ next \in 1..(MaxMsgs + 1)
    /\ at \in [Goroutines -> {"idle", "publish", "flush", "requeue"}]
    /\ hand \in [Goroutines -> Slice]
    /\ index \in [Goroutines -> 1..(MaxMsgs + 1)]
    /\ Members(sent) \subseteq 1..MaxMsgs
    /\ cleared \subseteq 1..MaxMsgs
    /\ failures \in 0..MaxFailures
    /\ overlapped \in BOOLEAN

Held == {Members(Pending(g)) : g \in {h \in Goroutines : Flushing(h)}}

(* The slice a goroutine publishes from, outside the lock, is not written by
   whatever Add, Clear and the others do meanwhile. *)
HandsUntouched ==
    \A g \in Goroutines : at[g] # "idle" => Elems(heap, hand[g]) = took[g]

(* "Messages added concurrently are never lost", "FIFO order is preserved": the
   batch is an outbox, from which each message is sent once unless a publish
   fails, and in order, failures included, unless two PublishAndClear run at
   once. *)
Promise == INSTANCE Outbox WITH
    added <- next - 1,
    owed <- Members(Elems(heap, messages)) \cup UNION Held,
    ordered <- ~overlapped
KeepsPromise == Promise!OutboxSpec

=============================================================================

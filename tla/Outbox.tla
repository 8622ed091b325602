------------------------------- MODULE Outbox -------------------------------
(***************************************************************************)
(* What a BatchPublisher promises its callers, with slices, goroutines and *)
(* the lock left out: a message that is added is owed to the broker until  *)
(* it is sent or cleared.  It is sent once unless a publish fails, and in  *)
(* the order of adding unless two calls of PublishAndClear have been       *)
(* running at once.  Publish, which takes nothing out, sends copies: they do *)
(* not count.  Messages are numbered as they are added.                    *)
(***************************************************************************)
EXTENDS Naturals, Sequences

VARIABLES added,     \* messages added so far
          owed,      \* those still to be sent
          sent,      \* what the broker got, in order
          cleared,   \* messages dropped by Clear
          failures,  \* publishes that failed
          ordered    \* no two senders have been at work at once

outboxVars == <<added, owed, sent, cleared, failures, ordered>>

OutboxInit ==
    /\ added = 0 /\ owed = {} /\ sent = <<>> /\ cleared = {}
    /\ failures = 0 /\ ordered = TRUE

Add ==
    /\ added' = added + 1 /\ owed' = owed \cup {added + 1}
    /\ UNCHANGED <<sent, cleared, failures, ordered>>

MayGo(m) == m \in owed /\ (ordered => \A o \in owed : m <= o)

Send(m) ==
    /\ MayGo(m)
    /\ sent' = Append(sent, m) /\ owed' = owed \ {m}
    /\ UNCHANGED <<added, cleared, failures, ordered>>

(* A publish that fails leaves the message owed, and may have got through.   *)
Fail ==
    /\ failures' = failures + 1
    /\ \/ \E m \in owed : MayGo(m) /\ sent' = Append(sent, m)
       \/ UNCHANGED sent
    /\ UNCHANGED <<added, owed, cleared, ordered>>

Drop ==
    /\ \E d \in SUBSET owed : owed' = owed \ d /\ cleared' = cleared \cup d
    /\ UNCHANGED <<added, sent, failures, ordered>>

Overlap == ordered' = FALSE /\ UNCHANGED <<added, owed, sent, cleared, failures>>

OutboxNext == Add \/ (\E m \in owed : Send(m)) \/ Fail \/ Drop \/ Overlap

OutboxSpec == OutboxInit /\ [][OutboxNext]_outboxVars

-----------------------------------------------------------------------------
(* What an outbox is good for. *)

OutboxTypeOK ==
    /\ added \in Nat /\ owed \subseteq 1..added /\ cleared \subseteq 1..added
    /\ sent \in Seq(1..added) /\ failures \in Nat /\ ordered \in BOOLEAN

Sent == {sent[i] : i \in 1..Len(sent)}

(* Each message that was added is owed, or was sent, or was cleared.         *)
NothingLost == 1..added \subseteq owed \cup Sent \cup cleared

(* Unless a publish fails no message is sent twice, or sent and still owed.  *)
SentOnce ==
    failures = 0 =>
        /\ owed \cap Sent = {}
        /\ \A i, j \in 1..Len(sent) : sent[i] = sent[j] => i = j

(* Messages go in the order they were added in; only a repetition of the     *)
(* latest, after a failure, is not in the way of that.                       *)
FirstInFirstOut ==
    ordered => /\ \A i, j \in 1..Len(sent) : i < j => sent[i] <= sent[j]
               /\ \A i \in 1..Len(sent), m \in owed : sent[i] <= m
=============================================================================

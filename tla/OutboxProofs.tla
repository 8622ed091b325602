---------------------------- MODULE OutboxProofs ----------------------------
(***************************************************************************)
(* What a batch that keeps the promise of Outbox gives its callers.        *)
(***************************************************************************)
EXTENDS Outbox, TLAPS

(* What a sequence holds when one message more is sent.                      *)
LEMMA SentAppend ==
    ASSUME NEW N \in Nat, NEW s \in Seq(1..N), NEW m \in 1..N
    PROVE  /\ Append(s, m) \in Seq(1..N) /\ Len(Append(s, m)) = Len(s) + 1
           /\ \A i \in 1..Len(s) : Append(s, m)[i] = s[i] /\ s[i] \in 1..N
           /\ Append(s, m)[Len(s) + 1] = m /\ Len(s) \in Nat
  OBVIOUS

(* SentOnce and FirstInFirstOut hold together with the types: what is owed   *)
(* stays behind what was sent, and that is what makes a later send come      *)
(* later.                                                                    *)
IInv == OutboxTypeOK /\ NothingLost /\ SentOnce /\ FirstInFirstOut

(* A message that may go is sent: the types, the set of what was sent and    *)
(* the order of it.                                                          *)
LEMMA Sending ==
    ASSUME IInv, NEW m \in owed, MayGo(m), sent' = Append(sent, m),
           UNCHANGED <<added, ordered>>
    PROVE  /\ m \in 1..added /\ Len(sent) \in Nat
           /\ sent' \in Seq(1..added') /\ Len(sent') = Len(sent) + 1
           /\ \A i \in 1..Len(sent) : sent'[i] = sent[i] /\ sent[i] \in Sent /\ sent[i] \in 1..added
           /\ sent'[Len(sent) + 1] = m
           /\ Sent' = Sent \cup {m}
           /\ ordered => \A i, j \in 1..Len(sent') : i < j => sent'[i] <= sent'[j]
<1>1. m \in 1..added /\ added \in Nat /\ sent \in Seq(1..added)
  BY DEF IInv, OutboxTypeOK
<1>2. /\ sent' \in Seq(1..added) /\ Len(sent') = Len(sent) + 1 /\ Len(sent) \in Nat
      /\ \A i \in 1..Len(sent) : sent'[i] = sent[i] /\ sent[i] \in 1..added
      /\ sent'[Len(sent) + 1] = m
  BY <1>1, SentAppend
<1>3. \A i \in 1..Len(sent') : i \in 1..Len(sent) \/ i = Len(sent) + 1
  BY <1>2
<1>4. 1..Len(sent) \subseteq 1..Len(sent') /\ Len(sent) + 1 \in 1..Len(sent')
  BY <1>2
<1>5. Sent' = Sent \cup {m}
  <2>1. \A x \in Sent' : x \in Sent \cup {m}
    <3> TAKE x \in Sent'
    <3>1. PICK i \in 1..Len(sent') : x = sent'[i]
      BY DEF Sent
    <3> QED
      BY <3>1, <1>2, <1>3 DEF Sent
  <2>2. \A x \in Sent : x \in Sent'
    <3> TAKE x \in Sent
    <3>1. PICK i \in 1..Len(sent) : x = sent[i]
      BY DEF Sent
    <3>2. i \in 1..Len(sent') /\ x = sent'[i]
      BY <3>1, <1>2, <1>4
    <3> QED
      BY <3>2 DEF Sent
  <2>3. m \in Sent'
    BY <1>2, <1>4 DEF Sent
  <2> QED
    BY <2>1, <2>2, <2>3
<1>6. ASSUME ordered, NEW i \in 1..Len(sent'), NEW j \in 1..Len(sent'), i < j
      PROVE  sent'[i] <= sent'[j]
  <2>1. i \in 1..Len(sent)
    BY <1>2, <1>6
  <2>2. sent[i] <= m
    BY <1>6, <2>1 DEF IInv, FirstInFirstOut
  <2>3. j \in 1..Len(sent) => sent[i] <= sent[j]
    BY <1>6, <2>1 DEF IInv, FirstInFirstOut
  <2> QED
    BY <1>2, <1>3, <2>1, <2>2, <2>3
<1> QED
  <2>1. \A i \in 1..Len(sent) : sent[i] \in Sent
    BY DEF Sent
  <2> QED
    BY <1>1, <1>2, <1>5, <1>6, <2>1

(* A step that sends m and forgets nothing but m keeps what is owed behind   *)
(* what was sent.                                                            *)
LEMMA Ahead ==
    ASSUME IInv, NEW m \in owed, MayGo(m), sent' = Append(sent, m),
           UNCHANGED <<added, ordered>>, owed' \subseteq owed, ordered'
    PROVE  \A i \in 1..Len(sent'), o \in owed' : sent'[i] <= o
<1>1. \A o \in owed : m <= o
  BY DEF MayGo
<1>2. \A i \in 1..Len(sent), o \in owed : sent[i] <= o
  BY DEF IInv, FirstInFirstOut
<1>3. /\ Len(sent) \in Nat /\ Len(sent') = Len(sent) + 1
      /\ \A i \in 1..Len(sent) : sent'[i] = sent[i]
      /\ sent'[Len(sent) + 1] = m
  BY Sending
<1>4. \A i \in 1..Len(sent') : i \in 1..Len(sent) \/ i = Len(sent) + 1
  BY <1>3
<1> QED
  BY <1>1, <1>2, <1>3, <1>4

(* All of it is invariant.                                                   *)
THEOREM Inductive == OutboxSpec => []IInv
<1>1. OutboxInit => IInv
  BY SMT DEF OutboxInit, IInv, OutboxTypeOK, NothingLost, SentOnce, FirstInFirstOut, Sent
<1>2. IInv /\ [OutboxNext]_outboxVars => IInv'
  <2> SUFFICES ASSUME IInv, [OutboxNext]_outboxVars PROVE IInv'
    OBVIOUS
  <2>0. /\ added \in Nat /\ owed \subseteq 1..added /\ cleared \subseteq 1..added
        /\ sent \in Seq(1..added) /\ failures \in Nat /\ ordered \in BOOLEAN
    BY DEF IInv, OutboxTypeOK
  <2>1. CASE Add
    <3>1. /\ added' = added + 1 /\ owed' = owed \cup {added + 1}
          /\ UNCHANGED <<sent, cleared, failures, ordered>>
      BY <2>1 DEF Add
    <3>2. added' \in Nat /\ 1..added' = 1..added \cup {added + 1} /\ added + 1 \notin 1..added
      BY <2>0, <3>1
    <3>3. \A i \in 1..Len(sent) : sent[i] \in 1..added
      BY <2>0
    <3>4. Sent' = Sent /\ Sent \subseteq 1..added
      BY <3>1, <3>3 DEF Sent
    <3>5. OutboxTypeOK'
      BY <2>0, <3>1, <3>2 DEF OutboxTypeOK
    <3>6. NothingLost'
      BY <3>1, <3>2, <3>4 DEF IInv, NothingLost
    <3>7. SentOnce'
      BY <3>1, <3>2, <3>4 DEF IInv, SentOnce
    <3>8. FirstInFirstOut'
      <4>1. \A i \in 1..Len(sent) : sent[i] <= added + 1
        BY <2>0, <3>3
      <4> QED
        BY <3>1, <4>1 DEF IInv, FirstInFirstOut
    <3> QED
      BY <3>5, <3>6, <3>7, <3>8 DEF IInv
  <2>2. ASSUME NEW m \in owed, Send(m) PROVE IInv'
    <3>1. /\ sent' = Append(sent, m) /\ owed' = owed \ {m} /\ MayGo(m)
          /\ UNCHANGED <<added, cleared, failures, ordered>>
      BY <2>2 DEF Send
    <3>2. /\ sent' \in Seq(1..added') /\ Len(sent') = Len(sent) + 1 /\ Len(sent) \in Nat
          /\ \A i \in 1..Len(sent) : sent'[i] = sent[i] /\ sent[i] \in Sent
          /\ sent'[Len(sent) + 1] = m
          /\ Sent' = Sent \cup {m}
          /\ ordered => \A i, j \in 1..Len(sent') : i < j => sent'[i] <= sent'[j]
      BY <3>1, Sending
    <3>3. OutboxTypeOK'
      BY <2>0, <3>1, <3>2 DEF OutboxTypeOK
    <3>4. NothingLost'
      BY <3>1, <3>2 DEF IInv, NothingLost
    <3>5. SentOnce'
      <4> SUFFICES ASSUME failures = 0
                   PROVE  /\ owed' \cap Sent' = {}
                          /\ \A i, j \in 1..Len(sent') : sent'[i] = sent'[j] => i = j
        BY <3>1 DEF SentOnce
      <4>1. owed \cap Sent = {}
        BY DEF IInv, SentOnce
      <4>2. \A i, j \in 1..Len(sent) : sent[i] = sent[j] => i = j
        BY DEF IInv, SentOnce
      <4>3. \A i \in 1..Len(sent') : i \in 1..Len(sent) \/ i = Len(sent) + 1
        BY <3>2
      <4>4. m \notin Sent
        BY <4>1
      <4>5. ASSUME NEW i \in 1..Len(sent'), NEW j \in 1..Len(sent'), sent'[i] = sent'[j]
            PROVE  i = j
        BY <3>2, <4>2, <4>3, <4>4, <4>5
      <4> QED
        BY <3>1, <3>2, <4>1, <4>5
    <3>6. FirstInFirstOut'
      BY <3>1, <3>2, Ahead DEF MayGo, FirstInFirstOut
    <3> QED
      BY <3>3, <3>4, <3>5, <3>6 DEF IInv
  <2>3. CASE Fail
    <3>1. failures' = failures + 1 /\ UNCHANGED <<added, owed, cleared, ordered>>
      BY <2>3 DEF Fail
    <3>2. failures' \in Nat /\ failures' # 0
      BY <2>0, <3>1
    <3>3. CASE UNCHANGED sent
      BY <2>0, <3>1, <3>2, <3>3
      DEF IInv, OutboxTypeOK, NothingLost, SentOnce, FirstInFirstOut, Sent
    <3>4. ASSUME NEW m \in owed, MayGo(m), sent' = Append(sent, m) PROVE IInv'
      <4>1. /\ sent' \in Seq(1..added') /\ Sent' = Sent \cup {m}
            /\ ordered => \A i, j \in 1..Len(sent') : i < j => sent'[i] <= sent'[j]
            /\ Len(sent') = Len(sent) + 1 /\ Len(sent) \in Nat
            /\ \A i \in 1..Len(sent) : sent'[i] = sent[i]
            /\ sent'[Len(sent) + 1] = m
        BY <3>1, <3>4, Sending
      <4>2. OutboxTypeOK' /\ NothingLost' /\ SentOnce'
        BY <2>0, <3>1, <3>2, <4>1 DEF IInv, OutboxTypeOK, NothingLost, SentOnce
      <4>3. FirstInFirstOut'
        BY <3>1, <3>4, <4>1, Ahead DEF MayGo, FirstInFirstOut
      <4> QED
        BY <4>2, <4>3 DEF IInv
    <3> QED
      BY <2>3, <3>3, <3>4 DEF Fail
  <2>4. CASE Drop
    <3>1. PICK d \in SUBSET owed : owed' = owed \ d /\ cleared' = cleared \cup d
      BY <2>4 DEF Drop
    <3>2. UNCHANGED <<added, sent, failures, ordered>>
      BY <2>4 DEF Drop
    <3> QED
      BY <2>0, <3>1, <3>2 DEF IInv, OutboxTypeOK, NothingLost, SentOnce, FirstInFirstOut, Sent
  <2>5. CASE Overlap
    <3>1. ordered' = FALSE /\ UNCHANGED <<added, owed, sent, cleared, failures>>
      BY <2>5 DEF Overlap
    <3>2. OutboxTypeOK'
      BY <2>0, <3>1 DEF OutboxTypeOK
    <3>3. NothingLost' /\ SentOnce'
      BY <3>1 DEF IInv, NothingLost, SentOnce, Sent
    <3> QED
      BY <3>1, <3>2, <3>3 DEF IInv, FirstInFirstOut
  <2>6. CASE UNCHANGED outboxVars
    BY <2>0, <2>6 DEF outboxVars, IInv, OutboxTypeOK, NothingLost, SentOnce, FirstInFirstOut, Sent
  <2> QED
    BY <2>1, <2>2, <2>3, <2>4, <2>5, <2>6 DEF OutboxNext
<1> QED
  BY <1>1, <1>2, PTL DEF OutboxSpec

(* Whatever fails and however calls overlap, a message that was added is     *)
(* owed, sent or cleared.                                                    *)
THEOREM Kept == OutboxSpec => []NothingLost
<1>1. IInv => NothingLost
  BY DEF IInv
<1> QED
  BY <1>1, Inductive, PTL

(* Without a failure nothing is sent twice.                                  *)
THEOREM Once == OutboxSpec => []SentOnce
<1>1. IInv => SentOnce
  BY DEF IInv
<1> QED
  BY <1>1, Inductive, PTL

(* As long as calls do not overlap, messages go out in the order of adding,  *)
(* failures or not.                                                          *)
THEOREM InOrder == OutboxSpec => []FirstInFirstOut
<1>1. IInv => FirstInFirstOut
  BY DEF IInv
<1> QED
  BY <1>1, Inductive, PTL
=============================================================================

-------------------------- MODULE EventBus_proofs --------------------------
(***************************************************************************)
(* Proofs about EventBus: for every capacity and every number of receivers *)
(* events arrive in order, at most once, every loss is reported, and the   *)
(* bus implements a lossy queue for each receiver.                         *)
(***************************************************************************)
EXTENDS EventBus, SequenceTheorems, TLAPS

\* What holds of one receiver with cursor c, subscription point s, delivered
\* positions q and loss count m.
Receiver(c, s, q, m) ==
  /\ c \in Nat /\ s \in 0..c /\ m \in Nat
  /\ q \in Seq(1..c)
  /\ \A i \in 1..Len(q) : q[i] > s /\ q[i] <= c /\ (i > 1 => q[i - 1] < q[i])
  /\ Len(q) + m = c - s

IInv ==
  /\ log \in Seq(Events) /\ closed \in BOOLEAN
  /\ DOMAIN cursor \subseteq Receivers
  /\ cursor = [r \in DOMAIN cursor |-> cursor[r]]
  /\ DOMAIN since = DOMAIN cursor /\ DOMAIN received = DOMAIN cursor
  /\ DOMAIN missed = DOMAIN cursor
  /\ \A r \in DOMAIN cursor : /\ Receiver(cursor[r], since[r], received[r], missed[r])
                              /\ cursor[r] <= Len(log)

\* A fresh receiver.
LEMMA ReceiverStart ==
  ASSUME NEW c \in Nat
  PROVE  Receiver(c, c, <<>>, 0)
BY DEF Receiver

\* Delivering the next position keeps the record of a receiver in order.
LEMMA ReceiverDelivers ==
  ASSUME NEW c, NEW s, NEW q, NEW m, Receiver(c, s, q, m)
  PROVE  Receiver(c + 1, s, Append(q, c + 1), m)
<1> DEFINE p == Append(q, c + 1)
<1>1. c \in Nat /\ s \in 0..c /\ m \in Nat /\ q \in Seq(1..c) /\ Len(q) + m = c - s
  BY DEF Receiver
<1>2. q \in Seq(Nat) /\ Len(q) \in Nat
  BY <1>1
<1>3. \A i \in 1..Len(q) : q[i] \in 1..c
  BY <1>1
<1>4. /\ Len(p) = Len(q) + 1
      /\ \A i \in 1..Len(q) : p[i] = q[i]
      /\ p[Len(q) + 1] = c + 1
      /\ p \in Seq(Nat)
  BY <1>1, <1>2
<1>5. \A i \in 1..Len(p) : p[i] \in 1..(c + 1)
  <2> SUFFICES ASSUME NEW i \in 1..Len(p) PROVE p[i] \in 1..(c + 1)
    OBVIOUS
  <2>1. CASE i \in 1..Len(q)
    BY <1>1, <1>3, <1>4, <2>1
  <2>2. CASE i = Len(q) + 1
    BY <1>1, <1>4, <2>2
  <2> HIDE DEF p
  <2> QED
    BY <1>2, <1>4, <2>1, <2>2
<1>6. p \in Seq(1..(c + 1))
  <2>1. q \in [1..Len(q) -> 1..c]
    BY <1>1
  <2>2. q \in [1..Len(q) -> 1..(c + 1)]
    BY <1>1, <2>1
  <2>3. q \in Seq(1..(c + 1)) /\ c + 1 \in 1..(c + 1)
    BY <1>1, <1>2, <2>2
  <2> QED
    BY <2>3
<1>7. ASSUME NEW i \in 1..Len(p)
      PROVE  p[i] > s /\ p[i] <= c + 1 /\ (i > 1 => p[i - 1] < p[i])
  <2>1. CASE i \in 1..Len(q)
    <3>1. q[i] > s /\ q[i] <= c /\ (i > 1 => q[i - 1] < q[i])
      BY <2>1 DEF Receiver
    <3>2. p[i] = q[i] /\ (i > 1 => p[i - 1] = q[i - 1])
      BY <1>2, <1>4, <2>1
    <3> HIDE DEF p
    <3> QED
      BY <1>1, <1>3, <2>1, <3>1, <3>2
  <2>2. CASE i = Len(q) + 1
    <3>1. i > 1 => p[i - 1] = q[i - 1] /\ q[i - 1] \in 1..c
      BY <1>2, <1>3, <1>4, <2>2
    <3> HIDE DEF p
    <3> QED
      BY <1>1, <1>4, <2>2, <3>1
  <2> HIDE DEF p
  <2> QED
    BY <1>2, <1>4, <2>1, <2>2
<1>8. c + 1 \in Nat /\ s \in 0..(c + 1) /\ Len(p) + m = c + 1 - s
  BY <1>1, <1>2, <1>4
<1> HIDE DEF p
<1>9. Receiver(c + 1, s, p, m)
  <2>1. \A i \in 1..Len(p) : p[i] > s /\ p[i] <= c + 1 /\ (i > 1 => p[i - 1] < p[i])
    BY <1>7
  <2> QED
    BY <1>1, <1>6, <1>8, <2>1 DEF Receiver
<1> QED
  BY <1>9 DEF p

\* Moving the cursor on and counting the positions in between as missed
\* keeps the record complete.
LEMMA ReceiverSkips ==
  ASSUME NEW c, NEW s, NEW q, NEW m, Receiver(c, s, q, m), NEW d \in Nat, c <= d
  PROVE  Receiver(d, s, q, m + (d - c))
<1>1. c \in Nat /\ s \in 0..c /\ m \in Nat /\ q \in Seq(1..c) /\ Len(q) + m = c - s
  BY DEF Receiver
<1>2. q \in Seq(1..d) /\ Len(q) \in Nat
  <2>1. q \in [1..Len(q) -> 1..c] /\ Len(q) \in Nat
    BY <1>1
  <2>2. q \in [1..Len(q) -> 1..d]
    BY <1>1, <2>1
  <2> QED
    BY <2>1, <2>2
<1>3. \A i \in 1..Len(q) : q[i] > s /\ q[i] <= d /\ (i > 1 => q[i - 1] < q[i])
  <2>1. \A i \in 1..Len(q) : q[i] \in 1..c
    BY <1>1
  <2> QED
    BY <1>1, <2>1 DEF Receiver
<1>4. s \in 0..d /\ m + (d - c) \in Nat /\ Len(q) + (m + (d - c)) = d - s
  BY <1>1, <1>2, SMTT(40)
<1> QED
  BY <1>2, <1>3, <1>4 DEF Receiver

\* The initial state has no receiver.
LEMMA InitInv == Init => IInv
<1> SUFFICES ASSUME Init PROVE IInv
  OBVIOUS
<1>1. /\ DOMAIN cursor = {} /\ DOMAIN since = {} /\ DOMAIN received = {} /\ DOMAIN missed = {}
      /\ cursor = [r \in DOMAIN cursor |-> cursor[r]]
  BY DEF Init, EmptyMap
<1>2. log \in Seq(Events)
  BY DEF Init
<1> QED
  BY <1>1, <1>2, Zenon DEF Init, IInv

\* The oldest position in the channel is a position of the log.
LEMMA OldestType ==
  ASSUME NEW S, log \in Seq(S)
  PROVE  Oldest \in 0..Len(log) /\ Len(log) - Oldest <= Capacity
         /\ (Oldest > 0 => Len(log) - Oldest = Capacity)
BY BusConstants DEF Oldest, MaxOf

\* A new receiver starts with an empty record.
LEMMA SubscribeInv ==
  ASSUME IInv, NEW r \in Receivers, Subscribe(r)
  PROVE  IInv'
<1>1. Len(log) \in Nat
  BY DEF IInv
<1>2. Receiver(Len(log), Len(log), <<>>, 0)
  BY <1>1, ReceiverStart
<1>3. /\ DOMAIN cursor' = DOMAIN cursor \cup {r} /\ DOMAIN since' = DOMAIN cursor \cup {r}
      /\ DOMAIN received' = DOMAIN cursor \cup {r} /\ DOMAIN missed' = DOMAIN cursor \cup {r}
      /\ cursor' = [x \in DOMAIN cursor' |-> cursor'[x]]
  BY DEF IInv, Subscribe, Insert
<1>4. /\ cursor'[r] = Len(log) /\ since'[r] = Len(log)
      /\ received'[r] = <<>> /\ missed'[r] = 0
  BY DEF IInv, Subscribe, Insert
<1>5. \A x \in DOMAIN cursor : /\ cursor'[x] = cursor[x] /\ since'[x] = since[x]
                                /\ received'[x] = received[x] /\ missed'[x] = missed[x]
  BY DEF IInv, Subscribe, Insert, Subscribed
<1>6. \A x \in DOMAIN cursor' : /\ Receiver(cursor'[x], since'[x], received'[x], missed'[x])
                                 /\ cursor'[x] <= Len(log)
  BY <1>1, <1>2, <1>3, <1>4, <1>5 DEF IInv
<1> QED
  BY <1>3, <1>6 DEF IInv, Subscribe

\* Dropping a receiver leaves the records of the others alone.
LEMMA UnsubscribeInv ==
  ASSUME IInv, NEW r \in Receivers, Unsubscribe(r)
  PROVE  IInv'
<1>1. /\ DOMAIN cursor' = DOMAIN cursor \ {r} /\ DOMAIN since' = DOMAIN cursor \ {r}
      /\ DOMAIN received' = DOMAIN cursor \ {r} /\ DOMAIN missed' = DOMAIN cursor \ {r}
      /\ cursor' = [x \in DOMAIN cursor' |-> cursor'[x]]
  BY DEF IInv, Unsubscribe, RemoveAll, Restrict
<1>2. \A x \in DOMAIN cursor' : /\ cursor'[x] = cursor[x] /\ since'[x] = since[x]
                                 /\ received'[x] = received[x] /\ missed'[x] = missed[x]
  BY DEF IInv, Unsubscribe, RemoveAll, Restrict
<1> QED
  BY <1>1, <1>2 DEF IInv, Unsubscribe

\* A delivery extends one record.
LEMMA RecvInv ==
  ASSUME IInv, NEW r \in Receivers, Recv(r)
  PROVE  IInv'
<1>1. r \in DOMAIN cursor /\ cursor[r] \in Nat /\ Len(log) \in Nat /\ cursor[r] < Len(log)
  BY DEF IInv, Recv, Subscribed, Receiver
<1>2. Receiver(cursor[r] + 1, since[r], Append(received[r], cursor[r] + 1), missed[r])
  BY <1>1, ReceiverDelivers DEF IInv
<1>3. /\ DOMAIN cursor' = DOMAIN cursor /\ DOMAIN received' = DOMAIN cursor
      /\ cursor' = [x \in DOMAIN cursor' |-> cursor'[x]]
      /\ cursor'[r] = cursor[r] + 1
      /\ received'[r] = Append(received[r], cursor[r] + 1)
      /\ \A x \in DOMAIN cursor \ {r} : cursor'[x] = cursor[x] /\ received'[x] = received[x]
  BY <1>1 DEF IInv, Recv
<1>4. since' = since /\ missed' = missed /\ log' = log /\ closed' = closed
  BY DEF Recv
<1>5. \A x \in DOMAIN cursor' : /\ Receiver(cursor'[x], since'[x], received'[x], missed'[x])
                                 /\ cursor'[x] <= Len(log')
  <2> SUFFICES ASSUME NEW x \in DOMAIN cursor
               PROVE  /\ Receiver(cursor'[x], since'[x], received'[x], missed'[x])
                      /\ cursor'[x] <= Len(log')
    BY <1>3
  <2>1. CASE x = r
    <3>1. cursor'[r] <= Len(log')
      BY <1>1, <1>3, <1>4
    <3> QED
      BY <1>2, <1>3, <1>4, <2>1, <3>1, Zenon
  <2>2. CASE x # r
    BY <1>3, <1>4, <2>2 DEF IInv
  <2> QED
    BY <2>1, <2>2
<1> QED
  BY <1>3, <1>4, <1>5, Zenon DEF IInv

\* A Lagged(n) moves one cursor and counts what it skipped.
LEMMA RecvLaggedInv ==
  ASSUME IInv, NEW r \in Receivers, RecvLagged(r)
  PROVE  IInv'
<1>1. r \in DOMAIN cursor /\ cursor[r] \in Nat /\ Len(log) \in Nat /\ cursor[r] < Oldest
  BY DEF IInv, RecvLagged, Subscribed, Receiver
<1>2. Oldest \in Nat /\ Oldest <= Len(log)
  BY <1>1, OldestType DEF IInv
<1>3. Receiver(Oldest, since[r], received[r], missed[r] + (Oldest - cursor[r]))
  BY <1>1, <1>2, ReceiverSkips DEF IInv
<1>4. /\ DOMAIN cursor' = DOMAIN cursor /\ DOMAIN missed' = DOMAIN cursor
      /\ cursor' = [x \in DOMAIN cursor' |-> cursor'[x]]
      /\ cursor'[r] = Oldest
      /\ missed'[r] = missed[r] + (Oldest - cursor[r])
      /\ \A x \in DOMAIN cursor \ {r} : cursor'[x] = cursor[x] /\ missed'[x] = missed[x]
  BY <1>1 DEF IInv, RecvLagged
<1>5. since' = since /\ received' = received /\ log' = log /\ closed' = closed
  BY DEF RecvLagged
<1>6. \A x \in DOMAIN cursor' : /\ Receiver(cursor'[x], since'[x], received'[x], missed'[x])
                                 /\ cursor'[x] <= Len(log')
  <2> SUFFICES ASSUME NEW x \in DOMAIN cursor
               PROVE  /\ Receiver(cursor'[x], since'[x], received'[x], missed'[x])
                      /\ cursor'[x] <= Len(log')
    BY <1>4
  <2>1. CASE x = r
    BY <1>2, <1>3, <1>4, <1>5, <2>1
  <2>2. CASE x # r
    BY <1>4, <1>5, <2>2 DEF IInv
  <2> QED
    BY <2>1, <2>2
<1> QED
  BY <1>4, <1>5, <1>6, Zenon DEF IInv

\* A published event is behind nobody's cursor yet.
LEMMA PublishInv ==
  ASSUME IInv, NEW e \in Events, Publish(e)
  PROVE  IInv'
<1>1. log \in Seq(Events) /\ log' = Append(log, e)
  BY DEF IInv, Publish
<1>2. log' \in Seq(Events) /\ Len(log') = Len(log) + 1 /\ Len(log) \in Nat
  BY <1>1
<1>3. UNCHANGED <<cursor, closed, since, received, missed>>
  BY DEF Publish
<1>4. \A x \in DOMAIN cursor : cursor[x] \in Nat /\ cursor[x] <= Len(log)
  BY DEF IInv, Receiver
<1>5. \A x \in DOMAIN cursor : cursor[x] <= Len(log')
  BY <1>2, <1>4
<1> QED
  BY <1>2, <1>3, <1>5 DEF IInv

\* Every step keeps the invariant.
LEMMA NextInv == IInv /\ [Next]_vars => IInv'
<1> SUFFICES ASSUME IInv, [Next]_vars PROVE IInv'
  OBVIOUS
<1>1. ASSUME NEW r \in Receivers, Subscribe(r) PROVE IInv'
  BY <1>1, SubscribeInv
<1>2. ASSUME NEW r \in Receivers, Unsubscribe(r) PROVE IInv'
  BY <1>2, UnsubscribeInv
<1>3. ASSUME NEW r \in Receivers, Recv(r) PROVE IInv'
  BY <1>3, RecvInv
<1>4. ASSUME NEW r \in Receivers, RecvLagged(r) PROVE IInv'
  BY <1>4, RecvLaggedInv
<1>5. ASSUME NEW r \in Receivers, RecvClosed(r) PROVE IInv'
  BY <1>5, UnsubscribeInv DEF RecvClosed
<1>6. ASSUME NEW e \in Events, Publish(e) PROVE IInv'
  BY <1>6, PublishInv
<1>7. CASE Close
  BY <1>7, Zenon DEF Close, IInv
<1>8. CASE UNCHANGED vars
  BY <1>8, Zenon DEF vars, IInv
<1> QED
  BY <1>1, <1>2, <1>3, <1>4, <1>5, <1>6, <1>7, <1>8, Zenon DEF Next

\* The record of every receiver accounts for every position behind its
\* cursor, for every capacity and every set of receivers.
THEOREM BusInvariant == Spec => []IInv
BY InitInv, NextInv, PTL DEF Spec

\* The state of the channel is well typed.
THEOREM BusTypes == Spec => []TypeOK
<1>1. IInv => TypeOK
  <2> SUFFICES ASSUME IInv PROVE TypeOK
    OBVIOUS
  <2>1. \A r \in DOMAIN cursor : cursor[r] \in 0..Len(log)
    BY DEF IInv, Receiver
  <2>2. IsMap(cursor, Receivers, 0..Len(log))
    BY <2>1 DEF IInv, IsMap
  <2>3. \A r \in DOMAIN cursor : /\ since[r] \in 0..cursor[r]
                                  /\ received[r] \in Seq(1..cursor[r])
                                  /\ missed[r] \in Nat
    BY Zenon DEF IInv, Receiver
  <2> QED
    BY <2>2, <2>3, Zenon DEF IInv, TypeOK, Subscribed
<1> QED
  BY <1>1, BusInvariant, PTL

\* Events reach a receiver in the order sent, none twice, none older than its
\* subscription.
THEOREM BusInOrder == Spec => []InOrder
<1>1. IInv => InOrder
  BY Zenon DEF IInv, Receiver, InOrder, Subscribed
<1> QED
  BY <1>1, BusInvariant, PTL

\* Every position behind a receiver's cursor was delivered or counted by a
\* Lagged(n).
THEOREM BusLossIsReported == Spec => []LossIsReported
<1>1. IInv => LossIsReported
  BY Zenon DEF IInv, Receiver, LossIsReported, Subscribed
<1> QED
  BY <1>1, BusInvariant, PTL

\* A receiver loses events only by falling more than Capacity behind, and it
\* resumes with the Capacity newest ones: what other receivers do, and who
\* comes or leaves, never costs it an event.
THEOREM BusLossOnlyWhenBehind == Spec => LossOnlyWhenBehind
<1> DEFINE A == \A r \in Subscribed \cap DOMAIN cursor' :
                  missed'[r] # missed[r] => Len(log) - cursor'[r] = Capacity
<1>1. ASSUME IInv, [Next]_vars PROVE A
  <2> SUFFICES ASSUME NEW x \in DOMAIN cursor, x \in DOMAIN cursor', missed'[x] # missed[x]
               PROVE  Len(log) - cursor'[x] = Capacity
    BY DEF Subscribed
  <2>1. ASSUME NEW r \in Receivers, Subscribe(r) PROVE FALSE
    BY <1>1, <2>1 DEF Subscribe, Insert, IInv, Subscribed
  <2>2. ASSUME NEW r \in Receivers, Unsubscribe(r) PROVE FALSE
    BY <1>1, <2>2 DEF Unsubscribe, RemoveAll, Restrict, IInv
  <2>3. ASSUME NEW r \in Receivers, RecvLagged(r) PROVE Len(log) - cursor'[x] = Capacity
    <3>1. r \in DOMAIN cursor /\ cursor[r] \in Nat /\ log \in Seq(Events)
      BY <1>1, <2>3 DEF IInv, Receiver, RecvLagged, Subscribed
    <3>2. x = r
      BY <1>1, <2>3 DEF RecvLagged, IInv
    <3>3. cursor'[r] = Oldest /\ cursor[r] < Oldest
      BY <1>1, <2>3, <3>1 DEF RecvLagged, IInv
    <3>4. Oldest \in Nat /\ (Oldest > 0 => Len(log) - Oldest = Capacity)
      BY <3>1, OldestType
    <3> QED
      BY <3>1, <3>2, <3>3, <3>4
  <2>4. missed' = missed => FALSE
    OBVIOUS
  <2>5. CASE UNCHANGED vars
    BY <2>4, <2>5 DEF vars
  <2>6. ASSUME NEW r \in Receivers, Recv(r) PROVE FALSE
    BY <2>4, <2>6 DEF Recv
  <2>7. ASSUME NEW e \in Events, Publish(e) PROVE FALSE
    BY <2>4, <2>7 DEF Publish
  <2>8. CASE Close
    BY <2>4, <2>8 DEF Close
  <2> QED
    BY <1>1, <2>1, <2>2, <2>3, <2>5, <2>6, <2>7, <2>8, Zenon DEF Next, RecvClosed
<1>2. IInv /\ [Next]_vars => [A]_vars
  BY <1>1
<1> HIDE DEF A
<1>3. Spec => [][A]_vars
  BY <1>2, BusInvariant, PTL DEF Spec
<1> QED
  BY <1>3 DEF A, LossOnlyWhenBehind

\* Every event since the subscription is delivered in order, once, or counted
\* as lost.
THEOREM BusDelivery == Spec => []DeliveredOrCounted
<1>1. InOrder /\ LossIsReported => DeliveredOrCounted
  BY DEF DeliveredOrCounted
<1> QED
  BY <1>1, BusInOrder, BusLossIsReported, PTL
----------------------------------------------------------------------------
(***************************************************************************)
(* The bus implements LossyChannel.                                        *)
(***************************************************************************)

\* What waits for a receiver at position c of a log, and what a receiver of
\* the positions ps got.
Rest(q, c) == SubSeq(q, c + 1, Len(q))
At(q, ps) == [i \in 1..Len(ps) |-> q[ps[i]]]

\* The rest of a log is the part behind the position.
LEMMA RestOfLog ==
  ASSUME NEW S, NEW q \in Seq(S), NEW c \in 0..Len(q)
  PROVE  /\ Rest(q, c) \in Seq(S)
         /\ Len(Rest(q, c)) = Len(q) - c
         /\ \A i \in 1..(Len(q) - c) : Rest(q, c)[i] = q[c + i]
<1>1. c + 1 \in Int /\ Len(q) \in Int /\ \A i \in (c + 1)..Len(q) : q[i] \in S
  OBVIOUS
<1>2. /\ SubSeq(q, c + 1, Len(q)) \in Seq(S)
      /\ Len(SubSeq(q, c + 1, Len(q))) = IF c + 1 <= Len(q) THEN Len(q) - (c + 1) + 1 ELSE 0
      /\ \A i \in 1..(Len(q) - (c + 1) + 1) : SubSeq(q, c + 1, Len(q))[i] = q[c + 1 + i - 1]
  BY <1>1, SubSeqProperties
<1> QED
  BY <1>1, <1>2 DEF Rest

\* An event appended to the log is appended to what waits.
LEMMA RestAfterAppend ==
  ASSUME NEW S, NEW q \in Seq(S), NEW c \in 0..Len(q), NEW e \in S
  PROVE  Rest(Append(q, e), c) = Append(Rest(q, c), e)
<1> DEFINE p == Append(q, e)
           a == Rest(p, c)
           b == Rest(q, c)
<1>1. /\ p \in Seq(S) /\ Len(p) = Len(q) + 1 /\ c \in 0..Len(p)
      /\ \A i \in 1..Len(q) : p[i] = q[i]
      /\ p[Len(q) + 1] = e
  OBVIOUS
<1>2. /\ b \in Seq(S) /\ Len(b) = Len(q) - c
      /\ \A i \in 1..(Len(q) - c) : b[i] = q[c + i]
  BY RestOfLog
<1> HIDE DEF p
<1>3. /\ a \in Seq(S) /\ Len(a) = Len(q) + 1 - c
      /\ \A i \in 1..(Len(q) + 1 - c) : a[i] = p[c + i]
  <2>1. /\ a \in Seq(S) /\ Len(a) = Len(p) - c
        /\ \A i \in 1..(Len(p) - c) : a[i] = p[c + i]
    BY <1>1, RestOfLog
  <2> HIDE DEF a
  <2> QED
    BY <1>1, <2>1
<1> HIDE DEF a, b
<1>4. /\ Append(b, e) \in Seq(S) /\ Len(Append(b, e)) = Len(b) + 1
      /\ \A i \in 1..Len(b) : Append(b, e)[i] = b[i]
      /\ Append(b, e)[Len(b) + 1] = e
  BY <1>2
<1>5. ASSUME NEW i \in 1..Len(a) PROVE a[i] = Append(b, e)[i]
  <2>1. CASE i \in 1..Len(b)
    <3>1. c + i \in 1..Len(q) /\ i \in 1..(Len(q) - c) /\ i \in 1..(Len(q) + 1 - c)
      BY <1>2, <2>1
    <3> QED
      BY <1>1, <1>2, <1>3, <1>4, <2>1, <3>1
  <2>2. CASE i = Len(b) + 1
    <3>1. c + i = Len(q) + 1 /\ i \in 1..(Len(q) + 1 - c)
      BY <1>2, <2>2
    <3> QED
      BY <1>1, <1>3, <1>4, <2>2, <3>1
  <2>3. Len(a) = Len(b) + 1 /\ Len(b) \in Nat
    BY <1>2, <1>3
  <2>4. i \in 1..Len(b) \/ i = Len(b) + 1
    BY <2>3
  <2> QED
    BY <2>1, <2>2, <2>4
<1>6. Len(a) = Len(Append(b, e))
  BY <1>2, <1>3, <1>4
<1>7. a = Append(b, e)
  BY <1>3, <1>4, <1>5, <1>6, SeqEqual
<1> QED
  BY <1>7 DEF a, b, p

\* The position behind the cursor is the front of what waits.
LEMMA RestAfterOne ==
  ASSUME NEW S, NEW q \in Seq(S), NEW c \in 0..Len(q), c < Len(q)
  PROVE  Head(Rest(q, c)) = q[c + 1] /\ Tail(Rest(q, c)) = Rest(q, c + 1)
<1>1. c + 1 \in 1..Len(q) /\ Len(q) \in (c + 1)..Len(q)
  OBVIOUS
<1> QED
  BY <1>1, HeadTailOfSubSeq DEF Rest

\* Moving the cursor to d takes the events between away from the front.
LEMMA RestAfterSkip ==
  ASSUME NEW S, NEW q \in Seq(S), NEW c \in 0..Len(q), NEW d \in 0..Len(q), c <= d, d < Len(q)
  PROVE  SubSeq(Rest(q, c), (d - c) + 1, Len(q) - c) = Rest(q, d)
<1>1. /\ c + 1 \in 1..Len(q) /\ Len(q) \in 1..Len(q)
      /\ (d - c) + 1 \in 1..(Len(q) - (c + 1) + 1)
      /\ Len(q) - c \in 1..(Len(q) - (c + 1) + 1)
  OBVIOUS
<1>2. SubSeq(SubSeq(q, c + 1, Len(q)), (d - c) + 1, Len(q) - c)
        = SubSeq(q, (c + 1) + ((d - c) + 1) - 1, (c + 1) + (Len(q) - c) - 1)
  BY <1>1, SubSeqOfSubSeq
<1>3. (c + 1) + ((d - c) + 1) - 1 = d + 1 /\ (c + 1) + (Len(q) - c) - 1 = Len(q)
  OBVIOUS
<1> QED
  BY <1>2, <1>3 DEF Rest
\* What a receiver got after the delivery of the position behind its cursor.
LEMMA GotOneMore ==
  ASSUME NEW S, NEW g \in Seq(S), NEW q \in Seq(1..Len(g)), NEW k \in 1..Len(g)
  PROVE  At(g, Append(q, k)) = Append(At(g, q), g[k])
<1> DEFINE p == Append(q, k)
           a == [i \in 1..Len(p) |-> g[p[i]]]
           b == [i \in 1..Len(q) |-> g[q[i]]]
<1>1. /\ Len(q) \in Nat /\ Len(p) = Len(q) + 1
      /\ \A i \in 1..Len(q) : q[i] \in 1..Len(g) /\ p[i] = q[i]
      /\ p[Len(q) + 1] = k
  OBVIOUS
<1>2. \A i \in 1..Len(g) : g[i] \in S
  OBVIOUS
<1>3. b \in Seq(S) /\ Len(b) = Len(q) /\ \A i \in 1..Len(q) : b[i] = g[q[i]]
  <2>1. b \in [1..Len(q) -> S]
    BY <1>1, <1>2
  <2> QED
    BY <1>1, <2>1
<1> HIDE DEF p
<1>4. \A i \in 1..Len(p) : p[i] \in 1..Len(g)
  <2> SUFFICES ASSUME NEW i \in 1..(Len(q) + 1) PROVE p[i] \in 1..Len(g)
    BY <1>1
  <2>1. i \in 1..Len(q) \/ i = Len(q) + 1
    BY <1>1
  <2> QED
    BY <1>1, <2>1
<1>5. a \in Seq(S) /\ Len(a) = Len(q) + 1 /\ \A i \in 1..(Len(q) + 1) : a[i] = g[p[i]]
  <2>1. a \in [1..Len(p) -> S]
    BY <1>2, <1>4
  <2> QED
    BY <1>1, <2>1
<1> HIDE DEF a, b
<1>6. /\ Append(b, g[k]) \in Seq(S) /\ Len(Append(b, g[k])) = Len(q) + 1
      /\ \A i \in 1..Len(q) : Append(b, g[k])[i] = b[i]
      /\ Append(b, g[k])[Len(q) + 1] = g[k]
  BY <1>1, <1>2, <1>3
<1>7. ASSUME NEW i \in 1..Len(a) PROVE a[i] = Append(b, g[k])[i]
  <2>1. CASE i \in 1..Len(q)
    BY <1>1, <1>3, <1>5, <1>6, <2>1
  <2>2. CASE i = Len(q) + 1
    BY <1>1, <1>5, <1>6, <2>2
  <2>3. i \in 1..Len(q) \/ i = Len(q) + 1
    BY <1>1, <1>5
  <2> QED
    BY <2>1, <2>2, <2>3
<1>8. a = Append(b, g[k])
  BY <1>5, <1>6, <1>7, SeqEqual
<1> QED
  BY <1>8 DEF a, b, p, At

\* The bus without receivers is the channel without queues.
LEMMA ChannelInit == Init => Channel!Init
<1> SUFFICES ASSUME Init PROVE Channel!Init
  OBVIOUS
<1>1. DOMAIN cursor = {} /\ missed = EmptyMap /\ closed = FALSE
  BY DEF Init, EmptyMap
<1>2. Waiting = EmptyMap /\ Got = EmptyMap
  BY <1>1 DEF Waiting, Got, Subscribed, EmptyMap
<1> QED
  BY <1>1, <1>2, Zenon DEF Channel!Init, Channel!EmptyMap, EmptyMap

\* What the mapping needs of the invariant.
MappingOK ==
  /\ log \in Seq(Events) /\ Len(log) \in Nat
  /\ DOMAIN received = DOMAIN cursor /\ DOMAIN missed = DOMAIN cursor
  /\ Waiting = [r \in DOMAIN cursor |-> Waiting[r]]
  /\ Got = [r \in DOMAIN cursor |-> Got[r]]
  /\ \A r \in DOMAIN cursor :
       /\ cursor[r] \in 0..Len(log)
       /\ received[r] \in Seq(1..Len(log))
       /\ Waiting[r] = Rest(log, cursor[r])
       /\ Len(Rest(log, cursor[r])) = Len(log) - cursor[r]
       /\ Got[r] = At(log, received[r])

LEMMA MappingFacts == IInv => MappingOK
<1> SUFFICES ASSUME IInv PROVE MappingOK
  OBVIOUS
<1>1. log \in Seq(Events) /\ Len(log) \in Nat
  BY DEF IInv
<1>2. \A r \in DOMAIN cursor : /\ cursor[r] \in 0..Len(log)
                                /\ received[r] \in Seq(1..cursor[r])
  BY <1>1 DEF IInv, Receiver
<1>3. ASSUME NEW r \in DOMAIN cursor
      PROVE  received[r] \in Seq(1..Len(log))
  <2>1. received[r] \in Seq(1..cursor[r]) /\ 1..cursor[r] \subseteq 1..Len(log)
    BY <1>1, <1>2
  <2> QED
    BY <2>1, SeqMonotonic
<1>4. \A r \in DOMAIN cursor : Len(Rest(log, cursor[r])) = Len(log) - cursor[r]
  BY <1>1, <1>2, RestOfLog
<1>5. \A r \in DOMAIN cursor : Waiting[r] = Rest(log, cursor[r])
  BY DEF Waiting, Subscribed, Rest
<1>6. \A r \in DOMAIN cursor : Got[r] = At(log, received[r])
  BY DEF Got, Subscribed, At
<1>7. Waiting = [r \in DOMAIN cursor |-> Waiting[r]] /\ Got = [r \in DOMAIN cursor |-> Got[r]]
  BY DEF Waiting, Got, Subscribed
<1>8. DOMAIN received = DOMAIN cursor /\ DOMAIN missed = DOMAIN cursor
  BY DEF IInv
<1> QED
  BY <1>1, <1>2, <1>3, <1>4, <1>5, <1>6, <1>7, <1>8, Zenon DEF MappingOK

\* A new subscriber has nothing waiting.
LEMMA ChannelJoin ==
  ASSUME MappingOK, MappingOK', NEW r \in Receivers, Subscribe(r)
  PROVE  Channel!Join(r)
<1>1. /\ r \notin DOMAIN cursor
      /\ DOMAIN cursor' = DOMAIN cursor \cup {r}
      /\ log' = log /\ cursor'[r] = Len(log) /\ received'[r] = <<>>
      /\ \A x \in DOMAIN cursor : cursor'[x] = cursor[x] /\ received'[x] = received[x]
  BY DEF MappingOK, Subscribe, Subscribed, Insert
<1>2. Rest(log, Len(log)) = <<>>
  BY SubSeqEmpty DEF MappingOK, Rest
<1>3. At(log, <<>>) = <<>>
  BY DEF At
<1>4. Waiting' = Channel!Insert(Waiting, r, <<>>)
  BY <1>1, <1>2 DEF MappingOK, Channel!Insert
<1>5. Got' = Channel!Insert(Got, r, <<>>)
  <2>1. Got'[r] = <<>>
    BY <1>1, <1>3 DEF MappingOK
  <2>2. ASSUME NEW x \in DOMAIN cursor PROVE Got'[x] = Got[x]
    BY <1>1 DEF MappingOK
  <2>3. /\ Got' = [x \in DOMAIN cursor \cup {r} |-> Got'[x]]
        /\ DOMAIN Got = DOMAIN cursor
    BY <1>1 DEF MappingOK
  <2> QED
    BY <1>1, <2>1, <2>2, <2>3 DEF Channel!Insert
<1>6. missed' = Channel!Insert(missed, r, 0) /\ ~closed /\ closed' = closed
  BY DEF Subscribe, Insert, Channel!Insert
<1>7. r \notin DOMAIN Waiting
  BY <1>1 DEF MappingOK
<1> QED
  BY <1>4, <1>5, <1>6, <1>7, Zenon DEF Channel!Join

\* A receiver leaves, and nobody else's queue changes.
LEMMA ChannelLeave ==
  ASSUME MappingOK, MappingOK', NEW r \in Receivers, Unsubscribe(r),
         ~closed \/ cursor[r] = Len(log)
  PROVE  Channel!Leave(r)
<1>1. /\ r \in DOMAIN cursor /\ log' = log
      /\ DOMAIN cursor' = DOMAIN cursor \ {r}
      /\ \A x \in DOMAIN cursor' : cursor'[x] = cursor[x] /\ received'[x] = received[x]
  BY DEF MappingOK, Unsubscribe, Subscribed, RemoveAll, Restrict
<1>2. Waiting' = Channel!RemoveAll(Waiting, {r})
  BY <1>1 DEF MappingOK, Channel!RemoveAll, Channel!Restrict
<1>3. Got' = Channel!RemoveAll(Got, {r})
  BY <1>1 DEF MappingOK, Channel!RemoveAll, Channel!Restrict
<1>4. missed' = Channel!RemoveAll(missed, {r}) /\ closed' = closed
  BY DEF Unsubscribe, RemoveAll, Restrict, Channel!RemoveAll, Channel!Restrict
<1>5. cursor[r] = Len(log) => Waiting[r] = <<>>
  BY <1>1, SubSeqEmpty DEF MappingOK, Rest
<1>6. r \in DOMAIN Waiting
  BY <1>1 DEF MappingOK
<1> QED
  BY <1>2, <1>3, <1>4, <1>5, <1>6, Zenon DEF Channel!Leave

\* A publication is appended to every queue.
LEMMA ChannelSend ==
  ASSUME MappingOK, MappingOK', NEW e \in Events, Publish(e)
  PROVE  Channel!Send(e)
<1>1. /\ DOMAIN cursor # {} /\ log' = Append(log, e)
      /\ UNCHANGED <<cursor, closed, received, missed>>
  BY DEF Publish, Subscribed
<1>2. ASSUME NEW x \in DOMAIN cursor
      PROVE  Rest(log', cursor'[x]) = Append(Waiting[x], e)
  <2>1. log \in Seq(Events) /\ cursor[x] \in 0..Len(log) /\ cursor'[x] = cursor[x]
        /\ Waiting[x] = Rest(log, cursor[x])
    BY <1>1 DEF MappingOK
  <2> QED
    BY <1>1, <2>1, RestAfterAppend
<1>3. Waiting' = [x \in DOMAIN Waiting |-> Append(Waiting[x], e)]
  BY <1>1, <1>2, SMTT(40) DEF MappingOK
<1>4. ASSUME NEW x \in DOMAIN cursor
      PROVE  At(log', received'[x]) = Got[x]
  <2>1. \A i \in 1..Len(received[x]) : received[x][i] \in 1..Len(log)
    BY DEF MappingOK
  <2>2. \A j \in 1..Len(log) : log'[j] = log[j]
    BY <1>1 DEF MappingOK
  <2> QED
    BY <1>1, <2>1, <2>2 DEF MappingOK, At
<1>5. Got' = Got
  BY <1>1, <1>4 DEF MappingOK
<1>6. DOMAIN Waiting # {}
  BY <1>1 DEF MappingOK
<1>7. ~closed
  BY DEF Publish
<1> QED
  BY <1>1, <1>3, <1>5, <1>6, <1>7, Zenon DEF Channel!Send

\* A delivery takes the front of the queue to the inbox.
LEMMA ChannelDeliver ==
  ASSUME MappingOK, MappingOK', NEW r \in Receivers, Recv(r)
  PROVE  Channel!Deliver(r)
<1>1. /\ r \in DOMAIN cursor /\ cursor[r] \in 0..Len(log) /\ cursor[r] < Len(log)
      /\ cursor[r] >= Oldest
      /\ cursor' = [cursor EXCEPT ![r] = @ + 1]
      /\ received' = [received EXCEPT ![r] = Append(@, cursor[r] + 1)]
      /\ UNCHANGED <<log, closed, missed>>
  BY DEF MappingOK, Recv, Subscribed
<1>2. Head(Waiting[r]) = log[cursor[r] + 1] /\ Tail(Waiting[r]) = Rest(log, cursor[r] + 1)
  <2>1. log \in Seq(Events) /\ Waiting[r] = Rest(log, cursor[r])
    BY <1>1 DEF MappingOK
  <2> QED
    BY <1>1, <2>1, RestAfterOne
<1>3. Len(Waiting[r]) \in 1..Capacity
  <2>1. Len(log) - Oldest <= Capacity /\ Oldest \in 0..Len(log)
    BY OldestType DEF MappingOK
  <2>2. Len(Waiting[r]) = Len(log) - cursor[r] /\ Len(log) \in Nat
    BY <1>1 DEF MappingOK
  <2> QED
    BY <1>1, <2>1, <2>2, BusConstants
<1>4. Waiting' = [Waiting EXCEPT ![r] = Tail(@)]
  BY <1>1, <1>2 DEF MappingOK
<1>5. At(log', received'[r]) = Append(Got[r], Head(Waiting[r]))
  <2>1. cursor[r] + 1 \in 1..Len(log) /\ received[r] \in Seq(1..Len(log))
    BY <1>1 DEF MappingOK
  <2>2. received'[r] = Append(received[r], cursor[r] + 1) /\ log' = log
    BY <1>1 DEF MappingOK
  <2>3. Got[r] = At(log, received[r]) /\ log \in Seq(Events)
    BY <1>1 DEF MappingOK
  <2> QED
    BY <1>2, <2>1, <2>2, <2>3, GotOneMore
<1>6. Got' = [Got EXCEPT ![r] = Append(@, Head(Waiting[r]))]
  <2>1. Got'[r] = Append(Got[r], Head(Waiting[r]))
    BY <1>1, <1>5 DEF MappingOK
  <2>2. ASSUME NEW x \in DOMAIN cursor, x # r PROVE Got'[x] = Got[x]
    BY <1>1, <2>2 DEF MappingOK
  <2>3. /\ Got' = [x \in DOMAIN cursor |-> Got'[x]]
        /\ Got = [x \in DOMAIN cursor |-> Got[x]]
    BY <1>1 DEF MappingOK
  <2> QED
    BY <1>1, <2>1, <2>2, <2>3
<1>7. r \in DOMAIN Waiting
  BY <1>1 DEF MappingOK
<1> QED
  BY <1>1, <1>3, <1>4, <1>6, <1>7, Zenon DEF Channel!Deliver

\* A Lagged(n) takes the n oldest away.
LEMMA ChannelLose ==
  ASSUME MappingOK, MappingOK', NEW r \in Receivers, RecvLagged(r)
  PROVE  Channel!Lose(r)
<1> DEFINE excess == Len(Waiting[r]) - Capacity
<1>1. /\ r \in DOMAIN cursor /\ cursor[r] \in 0..Len(log) /\ cursor[r] < Oldest
      /\ cursor' = [cursor EXCEPT ![r] = Oldest]
      /\ missed' = [missed EXCEPT ![r] = @ + (Oldest - cursor[r])]
      /\ UNCHANGED <<log, closed, received>>
  BY DEF MappingOK, RecvLagged, Subscribed
<1>2. Oldest \in 0..Len(log) /\ Len(log) - Oldest = Capacity /\ Oldest < Len(log)
  <2>1. Oldest \in 0..Len(log) /\ (Oldest > 0 => Len(log) - Oldest = Capacity)
    BY OldestType DEF MappingOK
  <2> QED
    BY <1>1, <2>1, BusConstants DEF MappingOK
<1>3. /\ Len(Waiting[r]) = Len(log) - cursor[r] /\ Len(Waiting[r]) > Capacity
      /\ excess = Oldest - cursor[r]
  BY <1>1, <1>2, BusConstants DEF MappingOK
<1>4. SubSeq(Waiting[r], excess + 1, Len(Waiting[r])) = Rest(log, Oldest)
  <2>1. log \in Seq(Events) /\ Waiting[r] = Rest(log, cursor[r])
    BY <1>1 DEF MappingOK
  <2>2. cursor[r] <= Oldest
    BY <1>1, <1>2
  <2>3. SubSeq(Rest(log, cursor[r]), (Oldest - cursor[r]) + 1, Len(log) - cursor[r])
          = Rest(log, Oldest)
    BY <1>1, <1>2, <2>1, <2>2, RestAfterSkip
  <2> HIDE DEF excess
  <2> QED
    BY <1>3, <2>1, <2>3
<1>5. Waiting' = [Waiting EXCEPT ![r] = SubSeq(@, excess + 1, Len(@))]
  BY <1>1, <1>4 DEF MappingOK
<1>6. missed' = [missed EXCEPT ![r] = @ + excess]
  BY <1>1, <1>3
<1>7. Got' = Got
  BY <1>1 DEF MappingOK
<1>8. r \in DOMAIN Waiting
  BY <1>1 DEF MappingOK
<1> QED
  BY <1>1, <1>3, <1>5, <1>6, <1>7, <1>8, Zenon DEF Channel!Lose

\* Every step of the bus is a step of the channel, or none.
LEMMA ChannelNext == MappingOK /\ MappingOK' /\ [Next]_vars => [Channel!Next]_Channel!vars
<1> SUFFICES ASSUME MappingOK, MappingOK', [Next]_vars PROVE [Channel!Next]_Channel!vars
  OBVIOUS
<1>1. ASSUME NEW r \in Receivers, Subscribe(r) PROVE Channel!Next
  BY <1>1, ChannelJoin DEF Channel!Next
<1>2. ASSUME NEW r \in Receivers, ~closed, Unsubscribe(r) PROVE Channel!Next
  BY <1>2, ChannelLeave DEF Channel!Next
<1>3. ASSUME NEW r \in Receivers, Recv(r) PROVE Channel!Next
  BY <1>3, ChannelDeliver DEF Channel!Next
<1>4. ASSUME NEW r \in Receivers, RecvLagged(r) PROVE Channel!Next
  BY <1>4, ChannelLose DEF Channel!Next
<1>5. ASSUME NEW r \in Receivers, RecvClosed(r) PROVE Channel!Next
  BY <1>5, ChannelLeave DEF Channel!Next, RecvClosed
<1>6. ASSUME NEW e \in Events, Publish(e) PROVE Channel!Next
  BY <1>6, ChannelSend DEF Channel!Next
<1>7. CASE Close
  <2>1. UNCHANGED <<log, cursor, received, missed>> /\ ~closed /\ closed' = TRUE
    BY <1>7 DEF Close
  <2>2. Waiting' = Waiting /\ Got' = Got
    BY <2>1 DEF MappingOK
  <2> QED
    BY <2>1, <2>2, Zenon DEF Channel!Next, Channel!Shut
<1>8. CASE UNCHANGED vars
  <2>1. UNCHANGED <<log, cursor, closed, received, missed>>
    BY <1>8 DEF vars
  <2>2. Waiting' = Waiting /\ Got' = Got
    BY <2>1 DEF MappingOK
  <2> QED
    BY <2>1, <2>2, Zenon DEF Channel!vars
<1> QED
  BY <1>1, <1>2, <1>3, <1>4, <1>5, <1>6, <1>7, <1>8, Zenon DEF Next

\* For every capacity and any receivers the one ring buffer is, to each
\* subscriber, a queue of its own that loses events only beyond Capacity.
THEOREM BusImplementsChannel == Spec => ImplementsChannel
<1>1. IInv /\ IInv' /\ [Next]_vars => [Channel!Next]_Channel!vars
  <2>1. IInv' => MappingOK'
    BY MappingFacts, PTL
  <2> QED
    BY <2>1, MappingFacts, ChannelNext
<1> QED
  BY <1>1, ChannelInit, BusInvariant, PTL DEF Spec, Channel!Spec, ImplementsChannel
=============================================================================

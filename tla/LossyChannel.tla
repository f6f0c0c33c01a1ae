---------------------------- MODULE LossyChannel ----------------------------
(***************************************************************************)
(* What crates/common/src/event_bus.rs promises its subscribers, without   *)
(* the ring buffer it keeps the promise with: a subscriber has a queue of  *)
(* its own, filled by every publication since it came, that it empties     *)
(* from the front.  Nobody else's pace, arrival or departure shows in it.  *)
(* Only when more than Capacity events wait are the oldest of them taken   *)
(* away, and the subscriber is told how many.                              *)
(***************************************************************************)
EXTENDS Integers, Sequences, RustStd

CONSTANTS Receivers, Events, Capacity

VARIABLES
  open,    \* publications are accepted
  queue,   \* subscriber -> the events that wait for it
  inbox,   \* subscriber -> the events it got
  lost     \* subscriber -> the number of events it was told it lost

vars == <<open, queue, inbox, lost>>

Init ==
  /\ open = TRUE
  /\ queue = EmptyMap /\ inbox = EmptyMap /\ lost = EmptyMap

Join(r) ==
  /\ open /\ r \notin DOMAIN queue
  /\ queue' = Insert(queue, r, <<>>)
  /\ inbox' = Insert(inbox, r, <<>>)
  /\ lost' = Insert(lost, r, 0)
  /\ UNCHANGED open

\* Once the channel is shut, whoever leaves has got or lost everything.
Leave(r) ==
  /\ r \in DOMAIN queue
  /\ open \/ queue[r] = <<>>
  /\ queue' = RemoveAll(queue, {r})
  /\ inbox' = RemoveAll(inbox, {r})
  /\ lost' = RemoveAll(lost, {r})
  /\ UNCHANGED open

Send(e) ==
  /\ open /\ DOMAIN queue # {}
  /\ queue' = [r \in DOMAIN queue |-> Append(queue[r], e)]
  /\ UNCHANGED <<open, inbox, lost>>

Deliver(r) ==
  /\ r \in DOMAIN queue /\ Len(queue[r]) \in 1..Capacity
  /\ queue' = [queue EXCEPT ![r] = Tail(@)]
  /\ inbox' = [inbox EXCEPT ![r] = Append(@, Head(queue[r]))]
  /\ UNCHANGED <<open, lost>>

Lose(r) ==
  /\ r \in DOMAIN queue /\ Len(queue[r]) > Capacity
  /\ LET excess == Len(queue[r]) - Capacity
     IN /\ queue' = [queue EXCEPT ![r] = SubSeq(@, excess + 1, Len(@))]
        /\ lost' = [lost EXCEPT ![r] = @ + excess]
  /\ UNCHANGED <<open, inbox>>

Shut == open /\ open' = FALSE /\ UNCHANGED <<queue, inbox, lost>>

Next ==
  \/ \E r \in Receivers : Join(r) \/ Leave(r) \/ Deliver(r) \/ Lose(r)
  \/ \E e \in Events : Send(e)
  \/ Shut

Spec == Init /\ [][Next]_vars
=============================================================================

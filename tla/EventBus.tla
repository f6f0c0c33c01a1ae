------------------------------ MODULE EventBus ------------------------------
(***************************************************************************)
(* crates/common/src/event_bus.rs: the only channel between the engines.   *)
(*                                                                         *)
(* EventBus wraps tokio::sync::broadcast.  Every event gets the next       *)
(* position; the channel keeps the last Capacity events; a receiver owns a *)
(* cursor.  A receiver that asks for an event that was overwritten gets    *)
(* Lagged(n) and continues with the oldest event that is left, which is    *)
(* what every run loop of the system does.  Publishing without receivers   *)
(* fails and the event is gone.  When the last sender is dropped receivers *)
(* drain the channel and then see Closed.                                  *)
(*                                                                         *)
(* log is the history of all events sent; the slots of the channel are its *)
(* last Capacity elements.                                                 *)
(***************************************************************************)
EXTENDS Integers, Sequences, FiniteSets, Functions, RustStd

CONSTANTS
  Receivers,   \* the run loops that may subscribe
  Events,      \* what is published
  Capacity,    \* slots of the channel (a power of two)
  MaxSent      \* bound on the events sent

ASSUME BusConstants == Capacity \in Nat \ {0}

VARIABLES
  log,        \* every event sent, in order
  cursor,     \* receiver -> number of positions behind it
  closed,     \* all senders are dropped
  since,      \* history: where the receiver subscribed
  received,   \* history: positions delivered to the receiver, in order
  missed      \* history: sum of the n of the receiver's Lagged(n)

vars == <<log, cursor, closed, since, received, missed>>

Subscribed == DOMAIN cursor

\* Position before the oldest event that the channel still holds.
Oldest == MaxOf(Len(log) - Capacity, 0)

Init ==
  /\ log = <<>> /\ cursor = EmptyMap /\ closed = FALSE
  /\ since = EmptyMap /\ received = EmptyMap /\ missed = EmptyMap

\* Mutant: the subscriber is given what the channel still holds.
Subscribe_Replays(r) ==
  /\ r \notin Subscribed /\ ~closed
  /\ cursor' = Insert(cursor, r, Oldest)
  /\ since' = Insert(since, r, Oldest)
  /\ received' = Insert(received, r, <<>>)
  /\ missed' = Insert(missed, r, 0)
  /\ UNCHANGED <<log, closed>>

\* subscribe: only events sent from now on are seen.
Subscribe(r) ==
  /\ r \notin Subscribed /\ ~closed
  /\ cursor' = Insert(cursor, r, Len(log))
  /\ since' = Insert(since, r, Len(log))
  /\ received' = Insert(received, r, <<>>)
  /\ missed' = Insert(missed, r, 0)
  /\ UNCHANGED <<log, closed>>

\* A receiver is dropped when its run loop ends.
Unsubscribe(r) ==
  /\ r \in Subscribed
  /\ cursor' = RemoveAll(cursor, {r})
  /\ since' = RemoveAll(since, {r})
  /\ received' = RemoveAll(received, {r})
  /\ missed' = RemoveAll(missed, {r})
  /\ UNCHANGED <<log, closed>>

\* publish: an error, and no effect, when nobody has subscribed.
Publish(e) ==
  /\ ~closed /\ Len(log) < MaxSent
  /\ Subscribed # {}
  /\ log' = Append(log, e)
  /\ UNCHANGED <<cursor, closed, since, received, missed>>

\* Mutant: the oldest event in store is neither delivered nor skipped.
Recv_Gap(r) ==
  /\ r \in Subscribed
  /\ cursor[r] > Oldest /\ cursor[r] < Len(log)
  /\ cursor' = [cursor EXCEPT ![r] = @ + 1]
  /\ received' = [received EXCEPT ![r] = Append(@, cursor[r] + 1)]
  /\ UNCHANGED <<log, closed, since, missed>>

\* recv returns an event.
Recv(r) ==
  /\ r \in Subscribed
  /\ cursor[r] >= Oldest /\ cursor[r] < Len(log)
  /\ cursor' = [cursor EXCEPT ![r] = @ + 1]
  /\ received' = [received EXCEPT ![r] = Append(@, cursor[r] + 1)]
  /\ UNCHANGED <<log, closed, since, missed>>

\* Mutant: the receiver skips to the newest event.
RecvLagged_SkipAll(r) ==
  /\ r \in Subscribed
  /\ cursor[r] < Oldest
  /\ cursor' = [cursor EXCEPT ![r] = Len(log)]
  /\ missed' = [missed EXCEPT ![r] = @ + (Oldest - cursor[r])]
  /\ UNCHANGED <<log, closed, since, received>>

\* recv returns Lagged(n).
RecvLagged(r) ==
  /\ r \in Subscribed
  /\ cursor[r] < Oldest
  /\ cursor' = [cursor EXCEPT ![r] = Oldest]
  /\ missed' = [missed EXCEPT ![r] = @ + (Oldest - cursor[r])]
  /\ UNCHANGED <<log, closed, since, received>>

\* The last EventBus clone is dropped.
Close ==
  /\ ~closed /\ closed' = TRUE
  /\ UNCHANGED <<log, cursor, since, received, missed>>

\* recv returns Closed, and the run loop ends: nothing is left to deliver.
RecvClosed(r) ==
  /\ r \in Subscribed /\ closed /\ cursor[r] = Len(log)
  /\ Unsubscribe(r)

Next ==
  \/ \E r \in Receivers : \/ Subscribe(r)
                          \/ ~closed /\ Unsubscribe(r)
                          \/ Recv(r) \/ RecvLagged(r) \/ RecvClosed(r)
  \/ \E e \in Events : Publish(e)
  \/ Close

\* Run loops keep receiving.
Fairness == \A r \in Receivers : WF_vars(Recv(r) \/ RecvLagged(r) \/ RecvClosed(r))

Spec == Init /\ [][Next]_vars
FairSpec == Spec /\ Fairness

----------------------------------------------------------------------------
(***************************************************************************)
(* Properties.                                                             *)
(***************************************************************************)

\* The channel and the history variables have their types.
TypeOK ==
  /\ log \in Seq(Events) /\ closed \in BOOLEAN
  /\ IsMap(cursor, Receivers, 0..Len(log))
  /\ DOMAIN since = Subscribed /\ DOMAIN received = Subscribed /\ DOMAIN missed = Subscribed
  /\ \A r \in Subscribed : /\ since[r] \in 0..cursor[r]
                           /\ received[r] \in Seq(1..cursor[r])
                           /\ missed[r] \in Nat

\* Every receiver sees the events in the order in which they were sent, none
\* twice and none from before its subscription ("Every subscriber receives
\* every event independently").
InOrder ==
  \A r \in Subscribed : \A i \in 1..Len(received[r]) :
    /\ received[r][i] > since[r] /\ received[r][i] <= cursor[r]
    /\ i > 1 => received[r][i - 1] < received[r][i]

\* No silent loss: every event since the subscription that is behind the
\* cursor was delivered or counted by a Lagged(n).
LossIsReported ==
  \A r \in Subscribed : Len(received[r]) + missed[r] = cursor[r] - since[r]

\* A receiver never more than Capacity events behind loses nothing, whatever
\* the others do: it loses an event only by Lagged, and then at least
\* Capacity newer ones are still in store for it.
LossOnlyWhenBehind ==
  [][\A r \in Subscribed \cap DOMAIN cursor' :
       missed'[r] # missed[r] => Len(log) - cursor'[r] = Capacity]_vars

\* A receiver that stays gets to the end of the channel, or keeps moving: an
\* event that was sent is eventually behind the cursor.
EventuallyBehind ==
  \A r \in Receivers, n \in 1..MaxSent :
    (r \in Subscribed /\ Len(log) >= n) ~> (r \notin Subscribed \/ cursor[r] >= n)

\* A subscriber gets, in order and once, every event since its subscription
\* but those it was told it had lost.
DeliveredOrCounted == InOrder /\ LossIsReported

----------------------------------------------------------------------------
(***************************************************************************)
(* The ring buffer, one for all, implements a queue for each subscriber:   *)
(* what waits for it is the part of the log that its cursor has not passed.*)
(***************************************************************************)
Waiting == [r \in Subscribed |-> SubSeq(log, cursor[r] + 1, Len(log))]
Got == [r \in Subscribed |-> [i \in 1..Len(received[r]) |-> log[received[r][i]]]]

Channel == INSTANCE LossyChannel
  WITH open <- ~closed, queue <- Waiting, inbox <- Got, lost <- missed

\* "Every subscriber receives every event independently": the bus behaves as
\* if each receiver had its own queue, lossy only beyond Capacity.
ImplementsChannel == Channel!Spec
=============================================================================

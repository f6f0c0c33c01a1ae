------------------------ MODULE SignalPriorityEngine ------------------------
(***************************************************************************)
(* crates/signal_priority_engine: splits strategy signals into a fast path *)
(* (published at once as FastSignal) and a slow path (the best of a window *)
(* published as one TopSignalsBatch).                                      *)
(*                                                                         *)
(* The queue is a bag: it is sorted before every use, by an unstable sort, *)
(* so only the scores in it decide what is kept and ties fall either way.  *)
(* inbox is the engine's bus receiver; when it is full the oldest event is *)
(* lost (Lagged) and the loop goes on.  The engine owns a clone of the bus, *)
(* so recv never returns Closed while it runs.                             *)
(***************************************************************************)
EXTENDS Integers, Sequences, FiniteSets, Bags, RustStd

CONSTANTS
  Signals,            \* records [market_id, expected_value, confidence, finite, position_fraction]
  FastRaevThreshold,
  MinSlowEv,
  SlowQueueCapacity,
  TopN,
  InboxCapacity,      \* events the bus keeps for the engine
  MaxWindow,          \* bound on the signals that arrive between two flushes
  Other               \* any event that is not a Signal

\* PriorityConfig::validate; an expected value and a confidence are numbers.
PriorityConstants ==
  /\ TopN \in Nat \ {0} /\ SlowQueueCapacity \in Nat \ {0}
  /\ FastRaevThreshold \in Nat \ {0} /\ MinSlowEv \in Nat
  /\ InboxCapacity \in Nat \ {0}
  /\ \A sig \in Signals : sig.expected_value \in Int /\ sig.confidence \in Int

VARIABLES
  inbox,      \* events the engine has not received yet
  tick_due,   \* the batch interval has elapsed
  queue,      \* slow-path signals of this window
  running,    \* the run loop has not been cancelled
  out,        \* the event published by the last step
  window      \* history: every signal admitted to the queue since the last flush

vars == <<inbox, tick_due, queue, running, out, window>>

Nothing == [kind |-> "None"]

\* priority_score; a product that is NaN or infinite has finite = FALSE.
Score(sig) == sig.expected_value * sig.confidence

\* classify: two negative factors do not make a fast signal.
IsFast(sig) ==
  /\ sig.finite /\ Score(sig) >= FastRaevThreshold
  /\ sig.expected_value > 0 /\ sig.confidence >= 0

\* The entries of a bag, each as often as it is in it.
Size(b) == SumFunction(b)

\* The bags contained in b.
Contained(b) ==
  {t \in UNION {[D -> 1..Size(b)] : D \in SUBSET BagToSet(b)} : t \sqsubseteq b}

\* The n best entries of a bag, in every way ties can fall.
Best(b, n) ==
  {t \in Contained(b) :
     /\ Size(t) = MinOf(n, Size(b))
     /\ \A x \in BagToSet(t), y \in BagToSet(b (-) t) : Score(x) >= Score(y)}

One(sig) == SetToBag({sig})

Admitted(sig) == sig.finite /\ sig.expected_value >= MinSlowEv

Init ==
  /\ inbox = <<>> /\ tick_due = TRUE   \* an interval's first tick is immediate
  /\ queue = EmptyBag /\ running = TRUE
  /\ out = Nothing /\ window = EmptyBag

\* An event is published on the bus by someone else.
Arrive(ev) ==
  /\ running
  /\ ev # Other => Size(window) + Len(inbox) < MaxWindow
  /\ inbox' = Append(IF Len(inbox) = InboxCapacity THEN Tail(inbox) ELSE inbox, ev)
  /\ out' = Nothing
  /\ UNCHANGED <<tick_due, queue, running, window>>

\* batch_window_ms have passed (missed ticks are skipped, not queued up).
Timer == /\ running /\ ~tick_due /\ tick_due' = TRUE /\ out' = Nothing
         /\ UNCHANGED <<inbox, queue, running, window>>

\* emit_fast
EmitFast(sig) ==
  /\ IsFast(sig)
  /\ out' = [kind |-> "FastSignal", signal |-> sig]
  /\ UNCHANGED <<queue, window>>

\* Mutant: a full queue turns the newcomer away.
BufferSlow_DropNewest(sig) ==
  /\ ~IsFast(sig)
  /\ IF Admitted(sig)
     THEN /\ queue' = (IF Size(queue) < SlowQueueCapacity
                       THEN queue (+) One(sig) ELSE queue)
          /\ window' = window (+) One(sig)
     ELSE UNCHANGED <<queue, window>>
  /\ out' = Nothing

\* buffer_slow
BufferSlow(sig) ==
  /\ ~IsFast(sig)
  /\ IF Admitted(sig)
     THEN /\ queue' \in Best(queue (+) One(sig), SlowQueueCapacity)
          /\ window' = window (+) One(sig)
     ELSE UNCHANGED <<queue, window>>
  /\ out' = Nothing

\* The loop receives an event.
Receive ==
  /\ running /\ inbox # <<>>
  /\ inbox' = Tail(inbox)
  /\ \/ Head(inbox) = Other /\ out' = Nothing /\ UNCHANGED <<queue, window>>
     \/ Head(inbox) # Other /\ EmitFast(Head(inbox))
     \/ Head(inbox) # Other /\ BufferSlow(Head(inbox))
  /\ UNCHANGED <<tick_due, running>>

\* Mutant: only a full batch is worth a flush.
Flush_WhenFull ==
  IF Size(queue) < TopN
  THEN out' = Nothing /\ UNCHANGED <<queue, window>>
  ELSE /\ \E batch \in Best(queue, TopN) :
            out' = [kind |-> "TopSignalsBatch", signals |-> batch]
       /\ queue' = EmptyBag /\ window' = EmptyBag

\* flush: the best TopN are published, the rest is dropped.
Flush ==
  /\ \E batch \in Best(queue, TopN) :
       out' = (IF queue = EmptyBag THEN Nothing
               ELSE [kind |-> "TopSignalsBatch", signals |-> batch])
  /\ queue' = EmptyBag /\ window' = EmptyBag

\* The tick branch: select! is biased, and recv comes first.
OnTick ==
  /\ running /\ tick_due /\ inbox = <<>>
  /\ Flush /\ tick_due' = FALSE
  /\ UNCHANGED <<inbox, running>>

\* Cancellation comes before everything else, and flushes once more.
Shutdown ==
  /\ running /\ Flush /\ running' = FALSE
  /\ UNCHANGED <<inbox, tick_due>>

Next ==
  \/ \E ev \in Signals \cup {Other} : Arrive(ev)
  \/ Timer \/ Receive \/ OnTick \/ Shutdown

----------------------------------------------------------------------------
(***************************************************************************)
(* Properties.                                                             *)
(***************************************************************************)

\* The queue is a bag of admissible slow signals within its capacity.
TypeOK ==
  /\ inbox \in Seq(Signals \cup {Other}) /\ Len(inbox) <= InboxCapacity
  /\ tick_due \in BOOLEAN /\ running \in BOOLEAN
  /\ \A b \in {queue, window} :
       IsABag(b) /\ BagToSet(b) \subseteq {s \in Signals : Admitted(s) /\ ~IsFast(s)}
  /\ Size(queue) <= SlowQueueCapacity

\* A batch is the best of everything admitted since the previous flush, and of
\* nothing older: evicting on a full queue and cutting at the flush together
\* lose only signals that are outranked ("the top top_n signals").
TopOfWindow ==
  /\ []TypeOK
  /\ [][out'.kind = "TopSignalsBatch" =>
          out'.signals \in Best(window, MinOf(TopN, SlowQueueCapacity))]_vars

\* Once the bus falls silent the buffered signals are published.
FlushedWhenQuiet ==
  <>[](inbox = <<>>) => [](queue # EmptyBag => <>(queue = EmptyBag))
=============================================================================

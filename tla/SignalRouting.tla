---------------------------- MODULE SignalRouting ----------------------------
(***************************************************************************)
(* The way of a strategy signal to the risk engine: SignalPriorityEngine   *)
(* and PortfolioOptimizer on one bus, wired as prediction-agent/main.rs    *)
(* wires them.  Every event goes to the receiver of each of the three run  *)
(* loops; here a receiver only holds what its loop has a branch for.       *)
(*                                                                         *)
(* RiskEngine appears as the set of branches that call process_signal; the *)
(* call itself is module RiskEngine.                                       *)
(***************************************************************************)
EXTENDS Integers, Sequences, FiniteSets, RustStd

CONSTANTS
  Signals, Cluster,
  FastRaevThreshold, MinSlowEv, SlowQueueCapacity, TopN, InboxCapacity, MaxWindow,
  Capital, MaxMarket, MaxNiche, TotalCapital, PenaltyNum, PenaltyDen,
  Updates, MaxPending,  \* of the optimizer by itself
  AcceptRawSignals,     \* RiskConfig::accept_raw_signals, FALSE by default
  PriorityModes         \* AllocationConfig::use_priority_engine, TRUE in main.rs

VARIABLES
  \* SignalPriorityEngine
  inbox, tick_due, queue, running, out, window,
  \* PortfolioOptimizer
  use_priority_engine, positions, capital_available, pending_signals, emitted, flushed,
  \* the wiring
  opt_inbox,    \* events for the optimizer
  opt_tick,     \* its tick interval has elapsed
  risk_inbox,   \* events for the risk engine
  used,         \* signals the strategies have published
  processed     \* signals given to process_signal, in order

priorityVars == <<inbox, tick_due, queue, running, out, window>>
optimizerVars == <<use_priority_engine, positions, capital_available, pending_signals,
                   emitted, flushed>>
vars == <<priorityVars, optimizerVars, opt_inbox, opt_tick, risk_inbox, used, processed>>

S == INSTANCE SignalPriorityEngine WITH Other <- [kind |-> "Other"]
O == INSTANCE PortfolioOptimizer

ASSUME RoutingConstants == AcceptRawSignals \in BOOLEAN /\ S!PriorityConstants /\ O!OptimizerConstants

Init ==
  /\ S!Init /\ O!Init
  /\ opt_inbox = <<>> /\ opt_tick = TRUE /\ risk_inbox = <<>>
  /\ used = {} /\ processed = <<>>

AsSignal(sig) == [kind |-> "Signal", signal |-> sig]

\* A strategy publishes a signal.
Emit(sig) ==
  /\ sig \notin used /\ used' = used \cup {sig}
  /\ S!Arrive(sig)
  /\ opt_inbox' = Append(opt_inbox, AsSignal(sig))
  /\ risk_inbox' = Append(risk_inbox, AsSignal(sig))
  /\ UNCHANGED <<optimizerVars, opt_tick, processed>>

\* What the priority engine published in this step reaches the others.
Forwarded ==
  /\ opt_inbox' = IF out'.kind = "TopSignalsBatch" THEN Append(opt_inbox, out') ELSE opt_inbox
  /\ risk_inbox' = IF out'.kind = "FastSignal" THEN Append(risk_inbox, out') ELSE risk_inbox

PriorityStep ==
  /\ S!Receive \/ S!OnTick
  /\ Forwarded
  /\ UNCHANGED <<optimizerVars, opt_tick, used, processed>>

PriorityTimer ==
  /\ S!Timer
  /\ UNCHANGED <<optimizerVars, opt_inbox, opt_tick, risk_inbox, used, processed>>

\* The signals of a batch in an order that flush can give them.
BatchOrders(signals) == O!Rankings(DOMAIN signals)

\* The optimizer's loop receives an event; one that its configuration does not
\* honour falls through.
OptimizerReceives ==
  /\ opt_inbox # <<>> /\ opt_inbox' = Tail(opt_inbox)
  /\ LET ev == Head(opt_inbox) IN
     \/ ev.kind = "Signal" /\ O!OnSignal(ev.signal)
     \/ /\ ev.kind = "TopSignalsBatch"
        /\ \E batch \in BatchOrders(ev.signals) : O!OnBatch(batch)
     \/ /\ ev.kind = (IF use_priority_engine THEN "Signal" ELSE "TopSignalsBatch")
        /\ UNCHANGED optimizerVars
  /\ UNCHANGED <<priorityVars, opt_tick, risk_inbox, used, processed>>

\* The optimizer's tick branch, after recv in a biased select!.
OptimizerTick ==
  /\ opt_tick /\ opt_inbox = <<>> /\ opt_tick' = FALSE
  /\ IF pending_signals = <<>> THEN UNCHANGED <<optimizerVars, risk_inbox>>
     ELSE /\ O!Flush
          /\ risk_inbox' = risk_inbox \o
               [i \in DOMAIN emitted' |-> [kind |-> "OptimizedSignal", signal |-> emitted'[i].signal]]
  /\ UNCHANGED <<priorityVars, opt_inbox, used, processed>>

OptimizerTimer ==
  /\ ~opt_tick /\ opt_tick' = TRUE
  /\ UNCHANGED <<priorityVars, optimizerVars, opt_inbox, risk_inbox, used, processed>>

\* The branches of the risk engine's loop that call process_signal.
Honoured(ev) == ev.kind = "Signal" => AcceptRawSignals

RiskReceives ==
  /\ risk_inbox # <<>> /\ risk_inbox' = Tail(risk_inbox)
  /\ processed' = IF Honoured(Head(risk_inbox))
                  THEN Append(processed, Head(risk_inbox).signal) ELSE processed
  /\ UNCHANGED <<priorityVars, optimizerVars, opt_inbox, opt_tick, used>>

Next ==
  \/ \E sig \in Signals : Emit(sig)
  \/ PriorityStep \/ PriorityTimer
  \/ OptimizerReceives \/ OptimizerTick \/ OptimizerTimer
  \/ RiskReceives

\* Every run loop is scheduled, and so are the timers.
Fairness ==
  /\ WF_vars(PriorityStep) /\ WF_vars(PriorityTimer)
  /\ WF_vars(OptimizerReceives \/ OptimizerTick) /\ WF_vars(OptimizerTimer)
  /\ WF_vars(RiskReceives)

Spec == Init /\ [][Next]_vars
FairSpec == Spec /\ Fairness

\* The priority engine by itself: any signals in any order, as often as they come.
PriorityAlone(step) ==
  step /\ UNCHANGED <<optimizerVars, opt_inbox, opt_tick, risk_inbox, used, processed>>

PrioritySpec == Init /\ [][PriorityAlone(S!Next)]_vars

\* The optimizer by itself: any signals, batches and portfolios in any order.
OptimizerAlone(step) ==
  step /\ UNCHANGED <<priorityVars, opt_inbox, opt_tick, risk_inbox, used, processed>>

OptimizerSpec == Init /\ [][OptimizerAlone(O!Next)]_vars

----------------------------------------------------------------------------
(***************************************************************************)
(* Properties.                                                             *)
(***************************************************************************)

\* A batch of the priority engine is the best of everything admitted since the
\* one before, and of nothing older.
TopOfWindow == S!TopOfWindow

\* Once the bus falls silent the buffered signals are published.
FlushedWhenQuiet == S!FlushedWhenQuiet

\* A batch of the optimizer is within every cap, and nobody was passed over but
\* for better signals.
BatchIsFair == O!BatchIsFair

\* No signal is evaluated twice, although each is delivered to three loops and
\* republished by two ("we skip raw `Event::Signal` to avoid double-processing").
AtMostOnce == \A i, j \in DOMAIN processed : processed[i] = processed[j] => i = j

\* No signal is lost on the way when no cap binds: what is fast, or good enough
\* for the slow path, gets to the risk engine.
EveryGoodSignalProcessed ==
  \A sig \in {good \in Signals : S!IsFast(good) \/ S!Admitted(good)} :
    sig \in used ~> \E i \in DOMAIN processed : processed[i] = sig
=============================================================================

---------------------------- MODULE ExecutionSim ----------------------------
(***************************************************************************)
(* crates/execution_sim: simulated fills of approved trades.               *)
(*                                                                         *)
(* simulate_execution draws a partial fill and a slippage from continuous  *)
(* distributions; here the outcome is any quantity and any price within    *)
(* the reach of those draws.  Quantities are whole dollars of bankroll,    *)
(* prices ticks.  total_slippage and the bankroll snapshot are left out:   *)
(* nothing reads them.                                                     *)
(***************************************************************************)
EXTENDS Integers, Sequences, RustStd

CONSTANTS
  PriceScale,   \* ticks in 1.0
  MinFill,      \* smallest share of an order that is filled, in percent
  MaxSlippage,  \* 3 * slippage_std_dev, in percent
  Reports       \* latencies measured, in ms

ASSUME SimConstants ==
  /\ PriceScale \in Nat \ {0}
  /\ MinFill \in 1..100 /\ MaxSlippage \in 0..100

VARIABLES
  sim           \* the counters of ExecutionState

\* The quantities an order can end up with.  A partial fill is at least half
\* of the order, and a slippage beyond the cap scales it down by cap/|slippage|;
\* the Box-Muller sample is never more than 8.5 standard deviations out.
FillsOf(quantity) == {n \in 0..quantity : n * 100 >= MinFill * quantity}

\* price * (1 + slippage), clamped to (0, 1].
AvgPrices(price) ==
  {p \in 0..PriceScale :
     /\ p * 100 >= price * (100 - MaxSlippage)
     /\ p * 100 <= price * (100 + MaxSlippage)}

\* The results of simulate_execution for a trade.
Results(trade) ==
  {[trade |-> trade, filled |-> n > 0, executed_quantity |-> n, avg_price |-> p] :
     n \in FillsOf(trade.approved_fraction), p \in AvgPrices(trade.signal.market_prob)}

\* Mutant: a fill publishes its result in the branch of the report and again after it.
Sent_Twice(result, latency) ==
  (IF result.filled THEN <<[kind |-> "EdgeDecayReport", latency |-> latency],
                           [kind |-> "Execution", result |-> result]>> ELSE <<>>)
  \o <<[kind |-> "Execution", result |-> result]>>

\* What is published for a result: the decay report, for a fill only, and then
\* the result.
Sent(result, latency) ==
  (IF result.filled THEN <<[kind |-> "EdgeDecayReport", latency |-> latency]>> ELSE <<>>)
  \o <<[kind |-> "Execution", result |-> result]>>

\* Counters after a result.
Processed(s, result) ==
  [orders_processed |-> s.orders_processed + 1,
   orders_filled    |-> s.orders_filled + (IF result.filled THEN 1 ELSE 0),
   orders_partial   |-> s.orders_partial
                        + (IF result.filled
                              /\ result.executed_quantity < result.trade.approved_fraction
                           THEN 1 ELSE 0)]

SimInit == sim = [orders_processed |-> 0, orders_filled |-> 0, orders_partial |-> 0]

\* Event::ApprovedTrade, with the outcome result.
OnApprovedTrade(result) == sim' = Processed(sim, result)
=============================================================================

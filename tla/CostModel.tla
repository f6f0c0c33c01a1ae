----------------------------- MODULE CostModel -----------------------------
(***************************************************************************)
(* crates/cost_model: what a trade costs, as pure functions.               *)
(*                                                                         *)
(* Edges and costs are ticks, PriceScale ticks being 1.0; sizes are whole  *)
(* dollars of bankroll.  The exponential of the decay term is a table:     *)
(* Decay[l] is 1 - exp(-decay_rate * l) in ticks.                          *)
(***************************************************************************)
EXTENDS Integers, RustStd

CONSTANTS
  PriceScale,    \* ticks in 1.0
  FeeRate,       \* fee rate, in ticks
  Spread,        \* spread_volatility_k * default_volatility, in ticks
  Impact,        \* liquidity_impact_factor, in ticks per dollar
  Latencies,     \* latencies in ms
  Decay          \* latency -> share of the edge lost

ASSUME CostConstants ==
  /\ PriceScale \in Nat \ {0}
  /\ FeeRate \in Nat /\ Spread \in Nat /\ Impact \in Nat
  /\ Latencies \subseteq Nat /\ Decay \in [Latencies -> 0..PriceScale]

\* Quotient rounded up, for b > 0.
CeilDiv(a, b) == -((-a) \div b)

\* total_cost of compute_cost_estimate; its parts are only displayed.
TotalCost(gross_edge, fraction, latency) ==
  FeeRate + Spread + fraction * Impact + (gross_edge * Decay[latency]) \div PriceScale

ComputeNetEdge(gross_edge, total_cost) ==
  Clamp(gross_edge - total_cost, -PriceScale, PriceScale)

\* In dollar-ticks.
ComputeExpectedProfit(net_edge, dollars) == net_edge * dollars

\* base * (net / gross).clamp(0, 1).  Rounding up keeps a positive product
\* positive, as it is in floating point.
ComputeNetEdgePositionSize(base, net_edge, gross_edge) ==
  IF gross_edge <= 0 THEN 0
  ELSE CeilDiv(base * Clamp(net_edge, 0, gross_edge), gross_edge)
=============================================================================

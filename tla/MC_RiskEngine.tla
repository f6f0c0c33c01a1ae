--------------------------- MODULE MC_RiskEngine ---------------------------
(* Small instances of RiskEngine. *)
EXTENDS RiskEngine, TLC

CONSTANTS Sizes, Pnls, Posteriors, Values

MC_Markets == {"US_A", "US_B", "EU"}
MC_Cluster == [m \in MC_Markets |-> IF m = "EU" THEN "EU" ELSE "US"]

MC_Pnls == {-8, 0}

MC_Latencies == 0..50
MC_Decay == [l \in 0..50 |-> l \div 50]

\* Edges are measured from a market probability of 0.
MC_Signals ==
  [market_id : MC_Markets, expected_value : Values, position_fraction : Sizes,
   posterior_prob : Posteriors, market_prob : {0}]

MC_Updates ==
  [positions : UNION {[ms -> [size : Sizes]] : ms \in SUBSET MC_Markets}, pnl : Pnls]
=============================================================================

-------------------------- MODULE MC_SignalRouting --------------------------
(***************************************************************************)
(* Small instances of SignalRouting, with two markets of one niche and one *)
(* of another: for the whole path, for the priority engine and for the     *)
(* optimizer.                                                              *)
(***************************************************************************)
EXTENDS SignalRouting, TLC

MC_Cluster == [m \in {"US_A", "US_B", "EU"} |-> IF m = "EU" THEN "EU" ELSE "US"]

Sig(market, value, confidence) ==
  [market_id |-> market, expected_value |-> value, confidence |-> confidence,
   finite |-> TRUE, position_fraction |-> 2]

\* One fast signal and two slow ones of equal score.
MC_Signals == {Sig("US_A", 3, 2), Sig("US_A", 2, 1), Sig("US_B", 1, 2)}

\* For the priority engine: one that is fast, four that are queued, with a tie,
\* a loss, one worth too little and one that is not finite.
MC_PrioritySignals ==
  {Sig("US_A", 3, 2), Sig("US_A", 2, 2), Sig("US_A", 1, 2), Sig("US_B", 2, 1), Sig("EU", 1, 1),
   Sig("EU", -3, -2), Sig("EU", 0, 2), [Sig("EU", 1, 0) EXCEPT !.finite = FALSE]}

\* For the optimizer: a choice of sizes and values, a RAEV that is not finite,
\* and a signal that asks for nothing.
MC_OptimizerSignals ==
  [market_id : DOMAIN MC_Cluster, expected_value : {1, 2}, confidence : {1},
   finite : {TRUE}, position_fraction : {2, 5}]
  \cup {[Sig("EU", 9, 1) EXCEPT !.finite = FALSE],
        [Sig("US_A", 2, 1) EXCEPT !.position_fraction = 0]}

MC_Updates ==
  {[positions |-> p, exposure |-> SumFunction(p)] :
     p \in {EmptyMap, [m \in {"US_A"} |-> 4], [m \in {"EU"} |-> 3]}}

=============================================================================

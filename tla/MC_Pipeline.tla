---------------------------- MODULE MC_Pipeline ----------------------------
(***************************************************************************)
(* Small instances of Pipeline.                                            *)
(***************************************************************************)
EXTENDS Pipeline, TLC

CONSTANTS Sizes

MC_Cluster == [m \in Markets |-> "US"]

MC_Latencies == 0..50
MC_Decay == [l \in 0..50 |-> 0]

\* One direction and one strategy; every signal passes the gates before exposure.
MC_Signals ==
  [market_id : Markets, expected_value : {1}, position_fraction : Sizes,
   posterior_prob : {4}, market_prob : {2}, direction : Directions, source : Sources]
=============================================================================

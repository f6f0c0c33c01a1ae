----------------------------- MODULE MC_Batches -----------------------------
(***************************************************************************)
(* PrioritySpec or OptimizerSpec: the priority engine or the optimizer by  *)
(* itself, each with its own choice of signals, one of them chosen at the  *)
(* start.                                                                  *)
(***************************************************************************)
EXTENDS MC_SignalRouting

VARIABLE which   \* "priority" or "optimizer"

MC_AllSignals == MC_PrioritySignals \cup MC_OptimizerSignals

priority == INSTANCE SignalPriorityEngine WITH Signals <- MC_PrioritySignals, Other <- [kind |-> "Other"]
optimizer == INSTANCE PortfolioOptimizer WITH Signals <- MC_OptimizerSignals

MC_Init == Init /\ which \in {"priority", "optimizer"}

MC_Next ==
  /\ \/ which = "priority" /\ PriorityAlone(priority!Next)
     \/ which = "optimizer" /\ OptimizerAlone(optimizer!Next)
  /\ UNCHANGED which

MC_Spec == MC_Init /\ [][MC_Next]_<<vars, which>>
=============================================================================

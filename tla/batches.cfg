SPECIFICATION MC_Spec
CONSTANTS
  Signals <- MC_AllSignals
  Cluster <- MC_Cluster
  FastRaevThreshold = 6
  MinSlowEv = 1
  SlowQueueCapacity = 3
  TopN = 2
  InboxCapacity = 2
  MaxWindow = 5
  Capital = 10
  MaxMarket = 4
  MaxNiche = 6
  TotalCapital = 10
  PenaltyNum = 1
  PenaltyDen = 5
  AcceptRawSignals = FALSE
  PriorityModes = {TRUE, FALSE}
  Updates <- MC_Updates
  MaxPending = 3
INVARIANTS
  BatchIsFair
PROPERTIES
  TopOfWindow
CHECK_DEADLOCK FALSE

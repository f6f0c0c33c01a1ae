SPECIFICATION FairSpec
CONSTANTS
  Signals <- MC_Signals
  Cluster <- MC_Cluster
  FastRaevThreshold = 6
  MinSlowEv = 1
  SlowQueueCapacity = 2
  TopN = 2
  InboxCapacity = 100
  MaxWindow = 100
  Capital = 10
  MaxMarket = 4
  MaxNiche = 6
  TotalCapital = 10
  PenaltyNum = 1
  PenaltyDen = 5
  AcceptRawSignals = FALSE
  PriorityModes = {TRUE}
  Updates = {}
  MaxPending = 100
INVARIANTS
  AtMostOnce
PROPERTIES
  FlushedWhenQuiet
  EveryGoodSignalProcessed
CHECK_DEADLOCK FALSE

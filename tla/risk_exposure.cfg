SPECIFICATION Spec
CONSTANTS
  Markets <- MC_Markets
  Cluster <- MC_Cluster
  Latencies <- MC_Latencies
  Decay <- MC_Decay
  Signals <- MC_Signals
  Updates <- MC_Updates
  Reports = {0, 50}
  Sizes = {1, 3}
  Pnls <- MC_Pnls
  Posteriors = {1, 4}
  Values = {0, 1}
  PriceScale = 4
  FeeRate = 1
  Spread = 0
  Impact = 0
  Bankroll = 10
  MaxPositionFraction = 2
  MaxTotalExposure = 4
  MaxClusterExposure = 3
  MinExpectedValue = 1
  MaxDrawdown = 10
  MinExpectedProfit = 3
  ExpectedLatency = 50
  DefaultLatency = 50
  AcceptRawSignals = TRUE
  MaxSteps = 4
INVARIANTS
  Accounting
PROPERTIES
  ApprovalWithinLimits
  RejectionIsJust
  DrawdownSuspends
CHECK_DEADLOCK FALSE

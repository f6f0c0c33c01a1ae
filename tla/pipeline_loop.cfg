SPECIFICATION Spec
CONSTANTS
  Markets = {"A", "B"}
  Cluster <- MC_Cluster
  Latencies <- MC_Latencies
  Decay <- MC_Decay
  Signals <- MC_Signals
  Sizes = {1, 3}
  Updates = {}
  Reports = {50}
  Directions = {"Buy"}
  Sources = {"signal_agent"}
  NoSource = ""
  Bankroll = 8
  MaxPositionFraction = 3
  MaxPosition = 3
  MaxTotalExposure = 4
  MaxClusterExposure = 8
  MinExpectedValue = 1
  MinExpectedProfit = 0
  MaxDrawdown = 10
  PriceScale = 4
  FeeRate = 0
  Spread = 0
  Impact = 0
  ExpectedLatency = 50
  DefaultLatency = 50
  AcceptRawSignals = FALSE
  MinFill = 17
  MaxSlippage = 0
  Prices = {1}
  PositionTtl = 1
  TtlPeriod = 1
  MtmInterval = 1
  MaxTime = 1
  MaxInputs = 2
INVARIANTS
  ExecutionsFollowApprovals
  LoopConsistent
PROPERTIES
  SettledApprovalFits

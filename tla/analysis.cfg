SPECIFICATION MC_Spec
CONSTANTS
  Components = {"meta", "cal", "research", "shock", "perf", "bt", "world", "bayes", "rel", "scen", "mc", "mc20", "sim"}
  Markets = {"a"}
  Scale = 20
  MaxEvents = 4
  Sources = {"x", "y"}
  Signals <- MC_Signals
  Magnitudes = {20}
  MetaMinConfidence = 12
  MinEdge = 1
  BoostFactor = 10
  ShockFreshness = 2
  Ttl = 1
  MinStrategies = 1
  MetaMaxClock = 4
  CalMarkets = {"a", "b"}
  Predictions = {4, 14}
  CalPrices = {0, 10, 20}
  Epsilon = 0
  NumBuckets = 2
  MinBucketSamples = 1
  BatchSize = 3
  Outcomes <- MC_Outcomes
  MinSharpe = 1
  MaxDrawdown = 2
  MinTrades = 1
  Capacity = 2
  MaxParallel = 2
  MaxCycles = 2
  Posteriors <- MC_Beliefs
  Prices = {10}
  Implied = {10, 20}
  Shocks <- MC_Shocks
  MinPrice = 1
  MaxPrice = 19
  MinConfidence = 5
  Cost = 1
  MinEv = 1
  DampNum = 1
  DampDen = 2
  Freshness = 1
  EdgeBoost = 2
  KellyDen = 4
  Cap = 60
  Unit = 1000
  MaxClock = 2
  SigBeliefs <- MC_SigBeliefs
  SigPrices = {10, 20}
  Liquidities = {0, 40}
  Snapshots <- MC_Snapshots
  FullLiquidity = 40
  TimeScale <- MC_TimeScale
  SigMaxEvents = 5
  ShockMarkets = {"a", "b", "c"}
  ShockPrices = {1, 4}
  Scores <- MC_Scores
  RelatedIds <- MC_RelatedIds
  ShockWindow = 2
  ZThreshold = 1
  SentimentThreshold = 2
  SentimentFreshness = 0
  MaxTracked = 2
  ShockMaxClock = 1
  TrendPrices = {2, 9, 12, 18, 21}
  TrendWindow = 3
  MinHistory = 2
  TrendThreshold = 1
  Lo = 4
  Hi = 16
  MaxHist = 5
  ArbMarkets = {1, 2, 3}
  Platform <- MC_Platform
  Title <- MC_Title
  GraphUpdates <- MC_GraphUpdates
  ArbPrices = {6, 13}
  ArbMinEdge = 2
  SimNum = 2
  SimDen = 5
  XMinSpread = 1
  XCost = 1
  XCap = 30
  Cooldown = 2
  ArbMaxClock = 5
  GraphMarkets = {"A", "B", "C"}
  GraphScale = 4
  Probs = {0, 3}
  WeightScale = 4
  Alike = {3}
  Opposed = {2}
  ChangeThreshold = 2
  ConvergenceThreshold = 1
  MaxDepth = 2
  MaxEdges = 3
INVARIANTS
  WindowIsRecentMoves
  FusesEveryLiveSignal
  ScoredOnWhatWasPredicted
  FiguresAreRight
  CurveAccountsForTrades
  RegistryKeepsTheBest
  BeliefsArePublished
  BeliefIsBetweenPriorAndPrice
  SamplesAreFreshAndCounted
  ScenariosFollowTheWorldModel
  RiskFiguresAreRight
  JobDoneAndUndone
CHECK_DEADLOCK FALSE

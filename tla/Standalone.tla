----------------------------- MODULE Standalone -----------------------------
(***************************************************************************)
(* Components that share no state with the trading loop, nor with each     *)
(* other: meta_strategy, calibration, strategy_research, shock_detector,   *)
(* market_graph and the four agents.  They live side by side for the sake  *)
(* of the checks and the proofs: one is chosen at the start and runs, for  *)
(* any values of the parameters.                                           *)
(***************************************************************************)
EXTENDS Integers, Sequences, FiniteSets

CONSTANTS
  Markets, Scale, MaxEvents,
  \* meta_strategy
  Sources, Signals, Magnitudes, MetaMinConfidence, MinEdge, BoostFactor, ShockFreshness, Ttl,
  MinStrategies, MetaMaxClock,
  \* calibration
  CalMarkets, Predictions, CalPrices, Epsilon, NumBuckets, MinBucketSamples,
  \* strategy_research
  BatchSize, Outcomes, MinSharpe, MaxDrawdown, MinTrades, Capacity, MaxParallel, MaxCycles,
  \* bayesian_edge_agent
  Posteriors, Prices, Implied, Shocks, MinPrice, MaxPrice, MinConfidence, Cost, MinEv,
  DampNum, DampDen, Freshness, EdgeBoost, KellyDen, Cap, Unit, MaxClock,
  \* signal_agent
  SigBeliefs, SigPrices, Liquidities, Snapshots, FullLiquidity, TimeScale, SigMaxEvents,
  \* shock_detector
  ShockMarkets, ShockPrices, Scores, RelatedIds, ShockWindow, ZThreshold, SentimentThreshold,
  SentimentFreshness, MaxTracked, ShockMaxClock,
  \* temporal_agent
  TrendPrices, TrendWindow, MinHistory, TrendThreshold, Lo, Hi, MaxHist,
  \* graph_arb_agent
  ArbMarkets, Platform, Title, GraphUpdates, ArbPrices, ArbMinEdge, SimNum, SimDen,
  XMinSpread, XCost, XCap, Cooldown, ArbMaxClock,
  \* market_graph
  GraphMarkets, GraphScale, Probs, WeightScale, Alike, Opposed, ChangeThreshold,
  ConvergenceThreshold, MaxDepth, MaxEdges

VARIABLES
  which,             \* the component that runs, chosen at the start
  state, out, hist   \* its variables

vars == <<which, state, out, hist>>

Meta == INSTANCE MetaStrategy WITH MinConfidence <- MetaMinConfidence, MaxClock <- MetaMaxClock
Cal == INSTANCE Calibration WITH
         Markets <- CalMarkets, Posteriors <- Predictions, Prices <- CalPrices
Research == INSTANCE StrategyResearch
Edge == INSTANCE BayesianEdgeAgent WITH Boost <- EdgeBoost
Sig == INSTANCE SignalAgent WITH
         Beliefs <- SigBeliefs, Prices <- SigPrices, MaxEvents <- SigMaxEvents
Shock == INSTANCE ShockDetector WITH
           Markets <- ShockMarkets, Prices <- ShockPrices, Related <- RelatedIds, Window <- ShockWindow,
           Freshness <- SentimentFreshness, MaxClock <- ShockMaxClock
Trend == INSTANCE TemporalAgent WITH
           Prices <- TrendPrices, Window <- TrendWindow, ZThreshold <- TrendThreshold
Arb == INSTANCE GraphArbAgent WITH
         Markets <- ArbMarkets, Prices <- ArbPrices, MinEdge <- ArbMinEdge, MaxClock <- ArbMaxClock
Graph == INSTANCE MarketGraph WITH Markets <- GraphMarkets, Scale <- GraphScale

ASSUME StandaloneConstants ==
  /\ Meta!MetaConstants /\ Research!ResearchConstants /\ Edge!EdgeConstants
  /\ Sig!SignalConstants /\ Shock!ShockConstants /\ Trend!TemporalConstants /\ Arb!ArbConstants
  /\ Graph!GraphConstants

Init ==
  \/ which = "meta" /\ Meta!Init
  \/ which = "cal" /\ Cal!Init
  \/ which = "research" /\ Research!Init
  \/ which = "edge" /\ Edge!Init
  \/ which = "sig" /\ Sig!Init
  \/ which = "shock" /\ Shock!Init
  \/ which = "trend" /\ Trend!Init
  \/ which = "arb" /\ Arb!Init
  \/ which = "graph" /\ Graph!Init

Next ==
  \/ which = "meta" /\ Meta!Next /\ UNCHANGED which
  \/ which = "cal" /\ Cal!Next /\ UNCHANGED which
  \/ which = "research" /\ Research!Next /\ UNCHANGED which
  \/ which = "edge" /\ Edge!Next /\ UNCHANGED which
  \/ which = "sig" /\ Sig!Next /\ UNCHANGED which
  \/ which = "shock" /\ Shock!Next /\ UNCHANGED which
  \/ which = "trend" /\ Trend!Next /\ UNCHANGED which
  \/ which = "arb" /\ Arb!Next /\ UNCHANGED which
  \/ which = "graph" /\ Graph!Next /\ UNCHANGED which

Spec == Init /\ [][Next]_vars

----------------------------------------------------------------------------
(***************************************************************************)
(* Properties.  Each is that of the component's module.                    *)
(***************************************************************************)
\* A MetaSignal fuses exactly the strategies whose last signal is still
\* alive: the eviction timer takes none away.
FusesEveryLiveSignal ==
  which = "meta" => Meta!FusesEveryLiveSignal

\* A market is scored once, on the last posterior from before its price
\* became extreme.
ScoredOnWhatWasPredicted ==
  which = "cal" => Cal!ScoredOnWhatWasPredicted

\* The registry holds the best strategies that ever met the criteria,
\* whatever the order in which tasks ended.
RegistryKeepsTheBest ==
  which = "research" => Research!RegistryKeepsTheBest

\* A signal stands on the last belief and price, and only a fresh shock
\* raises its confidence.
BoostedByFreshShockOnly ==
  which = "edge" => Edge!BoostedByFreshShockOnly

\* A signal is the last belief against the last price of its market, neither
\* forgotten, and gains at the price it would trade at.
SignalIsCurrent ==
  which = "sig" => Sig!SignalIsCurrent

\* The moves a shock is judged by are those between the last prices
\* received, without a gap and without the placeholder of a market that
\* sentiment introduced.
WindowIsRecentMoves ==
  which = "shock" => Shock!WindowIsRecentMoves

\* A trend is published only when the price stands off the prices before
\* it, and is sized only on the side of what it is extrapolated to, a Sell of
\* a price below the bounds apart.
TrendIsAgainstThePast ==
  which = "trend" => Trend!TrendIsAgainstThePast

\* A pair of legs buys the cheaper and sells the dearer market with a gain
\* after costs, and is not repeated within its cooldown.
LegsArePairedAndRare ==
  which = "arb" => Arb!LegsArePairedAndRare

\* A GraphUpdate is right: within the graph, complete and true, and silent
\* about its source unless a cycle leads back to it.
UpdateIsRight ==
  /\ [](which = "graph" => Graph!TypeOK)
  /\ [][which = "graph" => Graph!UpdateIsComplete /\ Graph!SourceIsGroundTruth]_vars
=============================================================================

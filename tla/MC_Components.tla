--------------------------- MODULE MC_Components ---------------------------
(***************************************************************************)
(* Small instances of the components around the trading loop: those that   *)
(* turn events into beliefs, scenarios and figures, and the two ends of    *)
(* the event stream, the agents that read signals out of it and the        *)
(* ingestion that fills it.  They share no state, so one of them is chosen *)
(* at the start and explored; what they say to each other comes in from    *)
(* the sets of inputs.                                                     *)
(***************************************************************************)
EXTENDS Standalone, TLC

CONSTANT Components   \* those that a run explores

(***************************************************************************)
(* The instance of Standalone.                                             *)
(***************************************************************************)
StrategySignal(d, c, e) == [dir |-> d, conf |-> c, ev |-> e]
Outcome(s, d, n) == [sharpe |-> s, max_drawdown |-> d, trades |-> n]
Belief(p, c) == [posterior |-> p, confidence |-> c]
ShockEvent(g, a) == [magnitude |-> g, age |-> a]

\* Two strategies that agree, disagree and fall silent on one market.
MC_Signals == {StrategySignal("Buy", 16, 3), StrategySignal("Sell", 10, 2),
               StrategySignal("Arbitrage", 10, 2), StrategySignal("Sell", 10, 0)}

\* Three candidates a cycle, two evaluated at a time, with two places in the registry.
MC_Outcomes == {Outcome(1, 1, 2), Outcome(2, 1, 2), Outcome(3, 1, 2), Outcome(3, 3, 2)}

\* Two beliefs, and shocks stamped now, long ago and in the future.
MC_Beliefs == {Belief(16, 6), Belief(4, 2)}
MC_Shocks == {ShockEvent(10, 0), ShockEvent(30, 2), ShockEvent(10, -1)}

\* Beliefs of three kinds, valid, crossed and missing quotes, two eviction ticks apart.
Quotes(b, a, l, d) == [bid |-> b, ask |-> a, liquidity |-> l, date |-> d]
MC_SigBeliefs == {Belief(14, 5), Belief(5, 5), Belief(14, 1)}
MC_Snapshots == {Quotes(9, 11, 40, <<"near">>), Quotes(12, 10, 10, <<>>), Quotes(0, 0, 0, <<>>)}
MC_TimeScale == [near |-> 48]

\* Price moves, sentiment, news and evictions of three markets, two tracked.
MC_RelatedIds == {<<"a">>, <<"b", "c">>}
MC_Scores == {-2, 1}

\* Two markets of one question on two platforms, and a third one apart.
NodeImplied(m, i) == [market |-> m, implied |-> i]
MC_Platform == <<"poly", "kalshi", "">>
MC_Title == <<{"fed", "cut", "rates"}, {"fed", "cut"}, {"fed"}>>
MC_GraphUpdates == {<<NodeImplied(1, 16), NodeImplied(3, 21)>>}

(***************************************************************************)
(* The components that turn events into beliefs, scenarios and figures.    *)
(***************************************************************************)
Cond(f, o, t) == [feature |-> f, op |-> o, threshold |-> t]
ShockAgainst == {Cond("shock", "gt", 0), Cond("momentum", "lt", 0)}
Strategy(cs, o, r, z) == [conditions |-> cs, op |-> o, rule |-> r, sizing |-> z]
PricedSignal(d, p, q) == [market |-> "a", dir |-> d, price |-> p, posterior |-> q]
Position(d, e) == [market |-> "a", dir |-> d, size |-> 2, entry |-> e]
ProbabilityOf(lo) == <<1, 3, 5, 7, 9>>[lo + 3]
Dependency(p, c, w) == [parent |-> p, child |-> c, weight |-> w]
NodeMove(m, n, d) == [market |-> m, new |-> n, delta |-> d]
Together(pair) == pair.move[1] = pair.move[2]
Agreement(j) == IF Len(j.pairs) >= 2 /\ Together(j.pairs[Len(j.pairs)]) THEN 1 ELSE 0
Update(s, ns) == [source |-> s, nodes |-> ns]
Node(m, d) == [market |-> m, delta |-> d]
MarketState(p, i, q) == [prob |-> p, implied |-> i, posterior |-> q]
File(n, r, l) == [name |-> n, readable |-> r, lines |-> l]

\* One market, long and short positions, signals that come true, expire or are refused.
perf == INSTANCE PerformanceAnalytics WITH
  Markets <- {"a"}, Prices <- {0, 4, 7}, Scale <- 10, ResolveLow <- 0, ResolveHigh <- 10,
  MoveThreshold <- 2, PrecisionTtl <- 2, SampleAges <- {1, 2}, MaxDecaySamples <- 2,
  MaxPendingHalfLife <- 1,
  Portfolios <- {[positions |-> {}, pnl |-> 0],
                 [positions |-> {Position("Buy", 5)}, pnl |-> -5],
                 [positions |-> {Position("Sell", 5)}, pnl |-> -2]},
  Signals <- {PricedSignal("Buy", 4, 7), PricedSignal("Sell", 7, 4)},
  Executions <- {[market |-> "a", dir |-> "Buy", price |-> 5, posterior |-> 7, filled |-> TRUE]},
  InitialBankroll <- 10, HistoryWindow <- 2, MaxClock <- 2, MaxEvents <- 4

\* Five strategies, every rule, sizing and operator, on two markets over four ticks.
bt == INSTANCE Backtest WITH
  NumMarkets <- 2,
  Strategies <- {Strategy({Cond("edge", "abs", 0)}, "and", "posterior", 0),
                 Strategy(ShockAgainst, "or", "contrarian", 1),
                 Strategy({Cond("graph", "abs", 0)}, "and", "momentum", 1),
                 Strategy({Cond("edge", "gt", 0)}, "and", "sell", 2),
                 Strategy({}, "or", "buy", 2)},
  Moves <- {-1, 2}, Noises <- {-1, 1}, Scale <- 10, Ticks <- 4, HoldTicks <- 1,
  MinHistory <- 1, RollingWindow <- 2, ShockZ <- 1, KellyCap <- 2, InitialCapital <- 10

\* A diamond of three markets with a cycle and the three kinds of constraint.
world == INSTANCE WorldModel WITH
  Markets <- {"a", "b", "c"}, LogOdds <- {0, 2}, MaxLogOdds <- 2, Prob <- ProbabilityOf,
  Scale <- 10, WeightScale <- 2,
  Dependencies <- <<Dependency("a", "b", 2), Dependency("a", "c", -1),
                    Dependency("b", "c", 1), Dependency("c", "a", 1)>>,
  Constraints <- {[kind |-> "sum", markets |-> <<"a", "b">>, tolerance |-> 2],
                  [kind |-> "and", markets |-> <<"a", "b", "c">>, tolerance |-> 1],
                  [kind |-> "or", markets |-> <<"a", "c">>, tolerance |-> 1]},
  GraphUpdates <- {[source |-> "a", nodes |-> ("b" :> 2 @@ "c" :> -2)],
                   [source |-> "b", nodes |-> ("b" :> 0)]},
  MaxHops <- 2, Threshold <- 1, MinSignalEdge <- 2

\* Two markets and an edge, every kind of evidence, calibration errors and evictions.
bayes == INSTANCE BayesianModel WITH
  Markets <- {"a", "b"}, Prices <- {-10, 10},
  GraphUpdates <- {<<NodeMove("b", 0, -1), NodeMove("a", 10, 1)>>,
                   <<NodeMove("b", 0, 1), NodeMove("a", 0, 0)>>},
  Sentiments <- {[related |-> <<"a", "b">>, score |-> -1]}, Surprises <- {0, 1},
  CalErrors <- {3}, Edges <- <<[from |-> "a", to |-> "b", weight |-> 2]>>,
  Strength <- [graph |-> 1, downstream |-> 1, news |-> 1, macro |-> 1], PrecScale <- 10,
  DefaultPrecision <- 7, MinPrecision <- 4, MaxAdjustment <- 2, EvidenceCap <- 1,
  MinSurprise <- 1, MaxHistory <- 1

\* Three markets that move together or not, with expiring edges and evictions.
rel == INSTANCE RelationshipDiscovery WITH
  Markets <- {1, 2, 3}, Prices <- {1, 3}, Score <- Agreement, MinScore <- 1,
  DirectedNum <- 2, DirectedDen <- 3, MinChange <- 1, MoveThreshold <- 0, MinHistory <- 2,
  MaxHistory <- 2, EdgeTtl <- 1, MarketTtl <- 1, EvictionInterval <- 2, MaxClock <- 1,
  MaxEvents <- 8

\* Three markets, edges from two sources, certain and uncertain beliefs.
scen == INSTANCE ScenarioEngine WITH
  Markets <- {1, 2, 3}, Scale <- 10, Worlds <- {(1 :> 10), (2 :> 11 @@ 3 :> 0)},
  GraphUpdates <- {Update(1, <<Node(2, 2), Node(3, 1)>>),
                   Update(2, <<Node(2, 1), Node(3, -2)>>)},
  Prices <- {8}, Confidences <- {9}, SampleSize <- 2, MaxDeps <- 2, MaxJoint <- 1,
  Threshold <- 3

\* Two paths of four ticks in two markets, quiet and shaken; and twenty paths in one.
mc == INSTANCE MonteCarlo WITH
  Start <- <<MarketState(5, 5, 7), MarketState(5, 5, 7)>>, Scale <- 10, Noises <- {-1, 0},
  Drift <- 0, RevDen <- 7, Shocks <- {4}, Threshold <- 2, FracDen <- 1, InitialValue <- 10,
  Horizon <- 4, NumPaths <- 2, Permille <- 1000

mc20 == INSTANCE MonteCarlo WITH
  Start <- <<MarketState(4, 5, 7)>>, Scale <- 10, Noises <- {-1, 0},
  Drift <- 0, RevDen <- 3, Shocks <- {}, Threshold <- 2, FracDen <- 1, InitialValue <- 10,
  Horizon <- 5, NumPaths <- 20, Permille <- 1000

\* Each of the four modes, with an unreadable file and an unreadable line in the replay.
sim == INSTANCE SimulationEngine WITH
  Modes <- {"LiveObserver", "MonteCarlo", "ParameterSweep", "HistoricalReplay"},
  Initials <- <<5, 5>>, Scale <- 10, MinProb <- 1, MaxProb <- 9,
  Config <- [moves |-> {-1, 3}, runs |-> 1],
  SweepPoints <- <<[moves |-> {-1, 1}, runs |-> 1], [moves |-> {-3, 2}, runs |-> 1]>>,
  MaxTicks <- 3, Threshold <- 2, FracDen <- 1, InitialCapital <- 10,
  Directory <- {File(2, TRUE, <<<<3>>, <<0>>, <<4, 5>>>>), File(1, TRUE, <<<<1>>, <<2>>>>),
                File(3, FALSE, <<<<9>>>>)},
  Bad <- <<0>>, Pnls <- {-6, -2, 3}, Slippages <- {-1, 1}, MaxObserved <- 3,
  Permille <- 1000

(***************************************************************************)
(* The agents and the ingestion.                                           *)
(***************************************************************************)
PolyMarket(i, a, p, t) == [id |-> i, active |-> a, price |-> p, title |-> t]
KalshiMarket(i, b, a, l) ==
  [id |-> i, active |-> TRUE, bid |-> b, ask |-> a, last |-> l, title |-> {"cpi"}]
PolyPage ==
  <<PolyMarket("a", TRUE, <<6>>, {"news", "rates"}), PolyMarket("b", TRUE, <<>>, {}),
    PolyMarket("c", TRUE, <<20>>, {"x"})>>
Article(i, h) == [id |-> i, headline |-> h]
Headline(p, n) == [pos |-> p, neg |-> n]
Shared == Article(1, <<Headline(2, 1)>>)
Release(i, a, p) == [indicator |-> i, actual |-> a, previous |-> p]
Indicators == <<Release("US_CPI", <<3>>, <<>>), Release("US_GDP", <<>>, <<2>>)>>

\* Markets and news: an item that two connectors bring, a cache with room for one.
ing1 == INSTANCE DataIngestion WITH
  bus <- out, cache <- hist,
  Connectors <- [market |-> <<<<"polymarket", "">>>>,
                 news |-> <<<<"news_api", "">>, <<"alpha_vantage", "">>>>],
  Pages <- [polymarket |-> {PolyPage},
            news_api |-> {<<Shared, Article(0, <<Headline(0, 0)>>)>>},
            alpha_vantage |-> {<<Shared, Article(2, <<Headline(0, 0)>>)>>}],
  Calendar <- <<>>, Lookahead <- 1, Scale <- 20, MinProb <- 0, MaxProb <- 20, Spread <- 1,
  MaxNews <- 1, MaxTrends <- 1, MaxRetries <- 0, Interval <- 1, Rate <- 1, Capacity <- 2,
  TokenUnit <- 2, MaxPolls <- 2, MaxClock <- 2

\* Both market connectors, with crossed and missing quotes, retries and a slow limiter.
ing2 == INSTANCE DataIngestion WITH
  bus <- out, cache <- hist,
  Connectors <- [market |-> <<<<"polymarket", "">>, <<"kalshi", "">>>>],
  Pages <- [polymarket |-> {PolyPage, <<PolyMarket("a", TRUE, <<8>>, {"news", "rates"})>>},
            kalshi |-> {<<KalshiMarket("k", 12, 0, 0), KalshiMarket("l", 0, 0, 4)>>,
                        <<KalshiMarket("k", 4, 8, 0)>>}],
  Calendar <- <<>>, Lookahead <- 1, Scale <- 20, MinProb <- 0, MaxProb <- 20, Spread <- 1,
  MaxNews <- 1, MaxTrends <- 1, MaxRetries <- 1, Interval <- 1, Rate <- 1, Capacity <- 2,
  TokenUnit <- 2, MaxPolls <- 3, MaxClock <- 3

\* Social media with room for one topic, releases, and a calendar beyond the horizon.
ing3 == INSTANCE DataIngestion WITH
  bus <- out, cache <- hist,
  Connectors <- [social |-> <<<<"reddit", "r">>, <<"twitter", "t">>>>,
                 economic |-> <<<<"fred", "gdp">>, <<"trading_economics", "">>>>],
  Pages <- [reddit |-> {<<1, 1>>}, twitter |-> {<<1, 1>>},
            fred |-> {<<<<>>, <<3>>, <<2>>>>, <<<<4>>>>},
            trading_economics |-> {Indicators}],
  Calendar <- <<[event |-> 1, days |-> 15], [event |-> 2, days |-> 600]>>, Lookahead <- 90,
  Scale <- 20, MinProb <- 0, MaxProb <- 20, Spread <- 1, MaxNews <- 1, MaxTrends <- 1,
  MaxRetries <- 0, Interval <- 1, Rate <- 1, Capacity <- 2, TokenUnit <- 2, MaxPolls <- 1,
  MaxClock <- 1

----------------------------------------------------------------------------
MC_Init ==
  /\ which \in Components
  /\ \/ Init
     \/ which = "perf" /\ perf!Init
     \/ which = "bt" /\ bt!Init
     \/ which = "world" /\ world!Init
     \/ which = "bayes" /\ bayes!Init
     \/ which = "rel" /\ rel!Init
     \/ which = "scen" /\ scen!Init
     \/ which = "mc" /\ mc!Init
     \/ which = "mc20" /\ mc20!Init
     \/ which = "sim" /\ sim!Init
     \/ which = "ing1" /\ ing1!Init
     \/ which = "ing2" /\ ing2!Init
     \/ which = "ing3" /\ ing3!Init

MC_Next ==
  \/ Next
  \/ which = "perf" /\ perf!Next /\ UNCHANGED which
  \/ which = "bt" /\ bt!Next /\ UNCHANGED which
  \/ which = "world" /\ world!Next /\ UNCHANGED which
  \/ which = "bayes" /\ bayes!Next /\ UNCHANGED which
  \/ which = "rel" /\ rel!Next /\ UNCHANGED which
  \/ which = "scen" /\ scen!Next /\ UNCHANGED which
  \/ which = "mc" /\ mc!Next /\ UNCHANGED which
  \/ which = "mc20" /\ mc20!Next /\ UNCHANGED which
  \/ which = "sim" /\ sim!Next /\ UNCHANGED which
  \/ which = "ing1" /\ ing1!Next /\ UNCHANGED which
  \/ which = "ing2" /\ ing2!Next /\ UNCHANGED which
  \/ which = "ing3" /\ ing3!Next /\ UNCHANGED which

MC_Spec == MC_Init /\ [][MC_Next]_vars

----------------------------------------------------------------------------
(***************************************************************************)
(* Properties, beside those of Standalone.  Each is that of the            *)
(* component's module.                                                     *)
(***************************************************************************)
\* Every signal is judged exactly once, by a price, its age or the timer;
\* and the drawdown reported is the worst fall between any two equities
\* seen.
FiguresAreRight ==
  which = "perf" => perf!EverySignalJudgedOnce /\ perf!DrawdownIsWorstFall

\* The equity curve of a backtest ends with the money its trades made,
\* forced exits included, and trades of a market never overlap.
CurveAccountsForTrades ==
  which = "bt" => bt!CurveAccountsForTrades

\* Whoever reads the WorldProbabilities, the GraphUpdates and the first
\* prices knows every belief of the world model.
BeliefsArePublished ==
  which = "world" => world!BeliefsArePublished

\* Without its evidence a belief lies between its prior and its last
\* price, however often it was fused; and the last Posterior published is
\* the belief.
BeliefIsBetweenPriorAndPrice ==
  which = "bayes" => bayes!BeliefIsBetweenPriorAndPrice

\* No price is part of two samples of a pair, and the counts of a pair are
\* those of its window.
SamplesAreFreshAndCounted ==
  which = "rel" => rel!SamplesAreFreshAndCounted

\* What the world model is certain of is certain in every batch of
\* scenarios, and the edges stay one per ordered pair and bounded.
ScenariosFollowTheWorldModel ==
  which = "scen" => scen!ScenariosFollowTheWorldModel

\* A path is worth what its trades made, its drawdown is its worst fall, and
\* the value at risk is the least loss that at most one path in twenty exceeds.
RiskFiguresAreRight ==
  /\ which = "mc" => mc!RiskFiguresAreRight
  /\ which = "mc20" => mc20!RiskFiguresAreRight

\* When the engine goes over to observing, its job is done: every readable
\* tick published once in order, every path of every point run, the
\* configuration restored; and its drawdown is the worst fall since.
JobDoneAndUndone ==
  which = "sim" => sim!JobDoneAndUndone

\* News comes once and with its sentiment, prices follow their snapshots,
\* the cache agrees with what was published, and polls keep to their rate.
IngestedOnceInOrder ==
  /\ which = "ing1" => ing1!IngestedOnceInOrder
  /\ which = "ing2" => ing2!IngestedOnceInOrder
  /\ which = "ing3" => ing3!IngestedOnceInOrder
=============================================================================

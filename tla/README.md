# A TLA+ model of the Arbitrage Event Engine

The repository is a Rust workspace: some thirty crates that watch prediction
markets, derive trading signals, size and approve trades, execute them on paper
or on an exchange, and keep a portfolio. Every crate is a tokio task with a
`select!` loop; the tasks talk only through one broadcast channel, the event bus.

This directory holds TLA+ modules for all of the system that decides anything: the
way of a signal from the strategies to an order, a fill, the portfolio and back into
the risk limits; the agents that make the signals; and the components that turn
market data into beliefs, scenarios, shocks and figures. TLC checks small instances
of all of it, and TLAPS proves for every instance the ledger, the risk accounting, the
bus, the order manager, the closed loop they form, the market graph, and four of the
components around them.

Source paths below are relative to `src/crates` unless they start with `src/`.

## 1. Inventory

| component | state it keeps | operations | hard behaviour |
|---|---|---|---|
| event bus (`common/src/event_bus.rs`) | ring of the last *n* events, a cursor per receiver | subscribe, publish, recv | overflow (`Lagged`), late subscription, closing |
| `signal_priority_engine` | slow queue, batch timer | classify, buffer and evict, flush | ties, eviction against cut-off, biased select |
| `portfolio_optimizer` | pending signals, free capital, positions | buffer, dedup, rank, allocate, flush | three caps and a penalty in a greedy loop, stale portfolio |
| `risk_engine` (+ `cost_model`) | positions, total and cluster exposure, equity and watermark, counters, liquidity cache, latency | evaluate (7 gates), resync on Portfolio, latency and liquidity updates, eviction | release and rollback of exposure, approvals racing portfolio updates |
| `execution_sim` | counters | simulated fill | partial fills, two publications per fill |
| `oms` (+ `exchange_api`) | orders, links to exchange ids, counters | submit, poll, cancel stale, dry run | retries without idempotency, fills during awaits, biased select |
| `portfolio_engine` | cash, positions, PnL, PnL by source, throttle and TTL timers | apply execution, mark to market, trim, expire, publish | close and reopen in one handler, expiry against fills |
| `persistence` | SQLite journal, audit | record events, reconcile | late subscription, lag |
| `market_graph` | nodes with observed and implied probability, edges | add market, add edge, propagate | cycles and diamonds in a pass, thresholds |
| `bayesian_engine` | a belief per market: prior, evidence, pull of the price | fuse price, ingest evidence, calibrate, evict | the pull replaces and evidence adds; silent changes |
| `world_model` | current and market probability, dependencies, constraints | propagate, signal, check constraints | cycles, implied probabilities written over beliefs |
| `scenario_engine` | beliefs, prices, inferred dependencies | sample a batch, infer edges | seeds against the world model, bounded edges |
| `shock_detector` | a window of moves and a sentiment per market | detect price and sentiment shocks | placeholders, eviction at capacity |
| `relationship_discovery` | histories, joint windows, counts | pair fresh prices, score, publish, evict | which prices may be paired, counts against windows |
| `meta_strategy` | last signal of each strategy per market, shock boost | fuse, boost, evict | two expiries on two clocks |
| `strategy_research` | registry, running backtests | generate, backtest, promote | completion order, capacity, forced exits |
| `calibration` | pending predictions, scores, resolved markets | score at resolution | prices that come back |
| `performance_analytics` | snapshots, peak, pending signals, decay samples | mark, judge, expire | judged once by price, age or timer |
| `simulation_engine` | mode, paths, replay, observer metrics | Monte Carlo, sweep, replay, observe | restoring the configuration, unreadable input |
| `data_ingestion` | four pollers with token buckets, snapshot cache | poll, normalise, match, publish | retries, duplicates, rate, failures of one connector |
| `market_scanner` | polling state | poll, publish | none beyond the above |
| `signal_agent` | belief, price, spread, liquidity, date per market | price and size a signal, evict | five maps fed by different events |
| `graph_arb_agent` | implied probabilities, snapshots, cooldowns | graph signal, cross-platform pair | one pair seen from both sides |
| `temporal_agent` | a price history per market | judge a price by its past | judging before recording |
| `bayesian_edge_agent` | belief, price, implied, shock per market | damp, boost, signal | age of a shock |
| control panel, UI | views | HTTP, WebSocket | none on the trading path |
| `src/prediction-agent` | the wiring | spawn everything, shut down | which task consumes which event |

How they interact (an arrow is an event on the bus):

```
agents --Signal--> signal_priority_engine --FastSignal------------------+
                          |--TopSignalsBatch--> portfolio_optimizer     |
                                                   |--OptimizedSignal-> risk_engine
   portfolio_engine <--Execution-- execution_sim / oms <--ApprovedTrade--+
        |------Portfolio------> risk_engine, portfolio_optimizer
        execution_sim --EdgeDecayReport--> risk_engine
   market_scanner, data_ingestion --Market--> risk_engine, portfolio_engine, ...
  data_ingestion --MarketSnapshot, Sentiment, EconomicRelease--> agents, shock_detector, ...
  market_graph --Graph--> bayesian_engine, world_model, scenario_engine, agents
  bayesian_engine --Posterior--> world_model, calibration, agents
  world_model --WorldProbability, WorldSignal--> scenario_engine
  shock_detector --Shock--> bayesian_edge_agent, meta_strategy
```

What makes them correct:

* bus: what a receiver gets is in order and without duplicates, and it is told of
  everything it misses;
* priority engine and optimizer: a signal is passed over only for better ones, every
  cap of a batch holds, a signal goes one way and only once;
* risk engine: exposures are the sums over the positions whatever was released or
  rolled back, an approval leaves every limit respected, a rejection leaves no trace;
* execution simulator and OMS: an approval is executed once, what is published is
  what is recorded and never more than the exchange filled, a closed order stays so;
* portfolio engine: money is conserved through opens, closes, trims and expiries,
  totals are the sums over positions, subscribers know the positions it has;
* the loop: the risk engine's book and the portfolio agree whenever it rests;
* market graph: probabilities stay in range and an update tells all that changed;
* beliefs: a belief lies between its prior and its last price but for the evidence,
  however often it was fused, and whoever reads the events knows the belief; scenarios
  are certain where the world model is;
* windows and registries: a shock is judged by the real moves of its market, a pair by
  samples no two of which share a price, a market is scored once on what was predicted
  before it resolved, a signal judged once, the registry keeps the best whatever the
  order in which backtests end;
* figures: a drawdown is the worst fall between any two values seen, a curve ends with
  the money its trades made;
* agents: a signal stands on the last belief and price of its market and gains at the
  price it would trade at, the legs of a pair come together and at most once per
  cooldown;
* ingestion: an item comes once while the cache knows it, a price after its snapshot,
  polls keep to their rate.

The list of what is hard to test, with lines, is `hazards` in `PROJECT.json`.

## 2. Modules

| module | what it models |
|---|---|
| `RustStd` | the operations of `HashMap` and `f64` the others use |
| `LossyChannel` | what the bus promises: a queue for each receiver, cut to its `Capacity` newest events |
| `EventBus` | the broadcast channel: ring, cursors, `Lagged`, drop of receivers and senders |
| `CostModel` | costs, net edge, expected profit and position scaling |
| `RiskEngine` | the run loop of the risk engine; `Verdict` is `evaluate` |
| `PortfolioEngine` | the run loop of the portfolio engine |
| `ExecutionSim` | the outcomes of a simulated execution and what is published for it |
| `Oms` | the order manager and the exchange behind its connectors |
| `SignalPriorityEngine` | classification, bounded queue, flush |
| `PortfolioOptimizer` | buffering and the allocation algorithm |
| `Pipeline` | risk engine, execution simulator and portfolio engine composed over the bus |
| `SignalRouting` | priority engine and optimizer composed in front of the risk engine; each of the two by itself |
| `MarketGraph` | the dependency graph and a propagation pass, edge by edge |
| `BayesianModel` | `bayesian_engine`: beliefs in log-odds, and the task that feeds them |
| `WorldModel` | beliefs, propagation, signals, constraints |
| `ScenarioEngine` | inferred dependencies and both passes of the sampler |
| `ShockDetector` | windows, placeholders, eviction, both kinds of shock |
| `RelationshipDiscovery` | pairing of prices, joint windows, publication, eviction |
| `MetaStrategy` | expiry, boost and fusion of signals |
| `StrategyResearch`, `Backtest` | the research cycle and its registry; one backtest |
| `PerformanceAnalytics` | marks and drawdown; the diagnostics of signals |
| `Calibration` | scoring of resolved markets |
| `SimulationEngine`, `MonteCarlo` | the four modes and the observer; the paths |
| `SignalAgent`, `GraphArbAgent`, `TemporalAgent`, `BayesianEdgeAgent` | the four agents |
| `SignalMath` | arithmetic of which several components have a copy: windows and Kelly sizing |
| `DataIngestion` | pollers, connectors, normalisers, cache, rate limiter |
| `Standalone` | nine of the components above side by side, those with theorems; one is chosen at the start |
| `MC_Components` | `Standalone` and small instances of the other components, for the runs `analysis` and `edges` |
| `MC_Batches` | priority engine and optimizer each by itself, one chosen at the start, for the run `batches` |
| other `MC_*` | instances for TLC |
| `SumTheorems` | lemmas on sums over finite functions |
| `Standalone_proofs` | theorems about `MetaStrategy`, `Calibration`, `StrategyResearch`, `ShockDetector`, `MarketGraph` and the four agents |
| `SignalRouting_proofs` | theorems about `SignalRouting` and, in it, `PortfolioOptimizer` and `SignalPriorityEngine` |
| other `*_proofs` | theorems about the module of the same name |

Conventions. A component's module has the fields of its Rust state as variables,
one action per branch of its `select!` loop with everything the branch does
(trims, counters, publication), and pure functions as operators with the source's
names. Variables marked *history* are not in the code; the components instantiated
by `MC_Components` all have three variables: `state` (the fields of the
Rust state), `out` (what the last handler published) and `hist` (history), and
`DataIngestion` calls its own `state`, `bus` and `cache`. Definitions named
`X_Something` next to `X` are defective variants of `X`; they document what a
property would catch and nothing uses them. `map` in `PROJECT.json` gives the
lines of every definition.

Data. Fractions of the bankroll are whole dollars, prices are ticks of
`1/PriceScale`, so money times price is exact; where `f64` arithmetic would leave
a positive amount below one unit the model rounds up. Random draws
(`execution_sim`, the simulators, the sampler) are nondeterministic choices over
their range. Beliefs are integer log-odds, so that adding evidence and the pull of a
price is exact; a z-score is compared by multiplying both sides out. Strings are
members of small sets; `cluster_id`'s prefix is the constant function `Cluster`.

### How states and actions correspond to the code

* **PortfolioEngine**. `st` is `PortfolioState`; `ApplyExecution`,
  `RecalculateUnrealized`, `ApplyRiskAdjustments`, `ToPortfolioUpdate` are the
  methods of those names; `OnExecution`, `OnMarket` and `OnTtlTick` are the
  branches of `run`, each under one write lock and therefore one step. `wire` is
  the last update published. Time is a counter that `Advance` moves; the throttle
  and the TTL timer compare with it.
* **RiskEngine**. `book`, `equity`, `stats` and the rest are `RiskState`;
  `Verdict` goes through the gates in the order of `evaluate`, `BookAfter` says
  what each leaves behind (release, rollback, approval). `out` is what the step
  published.
* **Oms**. `task` says where the loop waits: at `select`, or at an exchange
  request of a placement, a poll round or a cancel round. The exchange moves
  between any two requests. `PlaceAttempt(accepted, reply)` is one attempt of
  `retry_request`: the request may have taken effect whatever the reply.
* **EventBus**. `log` is the history of events; the channel holds its last
  `Capacity`. Engines own a clone of the bus, so `Closed` reaches a loop only
  where no sender is left; the loops of the other modules therefore leave it out.
  `Channel` instantiates **LossyChannel**, the abstract specification, with `Waiting`
  and `Got` for its queues and inboxes.
* **SignalPriorityEngine**. The queue is a bag, because it is sorted (unstably)
  before every use; `Best(b, n)` is every way to keep the *n* best. `PrioritySpec` of
  `SignalRouting` runs the engine by itself.
* **PortfolioOptimizer**. The greedy loop is a recursive function over its rounds, along
  any ranking: `HashMap` order decides ties. `OptimizerSpec` of `SignalRouting` runs the
  optimizer by itself. A niche that is full, a budget that is gone and a size of zero are the
  only reasons to be passed over; `PassedOverForBetter` says so, with the signal of the same
  market that dedup prefers, even if it asks for nothing.
* **Pipeline**, **SignalRouting**. Each engine's own actions are used through
  `INSTANCE`; a step takes the next event from the bus, runs the handler and
  leaves publications in an outbox (Pipeline) or in the receivers (SignalRouting).
  The steps of different tasks interleave between publications.
* **MarketGraph**. `state` is the graph (`nodes`, `edges`) and `task`, which says how far
  a pass has got. The pass runs under the engine's write lock, one step per task taken from
  the queue and per edge followed; `hist`, the nodes before the pass, is history. Weights carry
  confidence and damping, and products are cut to whole ticks; `Alike` and `Opposed` are
  the strengths of positive and negative ones.
* **BayesianModel**, **WorldModel**, **ScenarioEngine**, **ShockDetector**,
  **MetaStrategy**, **Calibration**, **RelationshipDiscovery** and the agents: one
  action per event the task reads and one per timer. A handler collects its payloads
  under the lock and publishes after it; nothing else writes the state in between, so
  a handler is one step and `out` is the sequence it publishes. Loops inside a
  handler are folds over the code's order, or choices where a `HashMap` gives it.
* **RelationshipDiscovery** takes the score of a pair as a parameter; the instance
  scores a pair by whether its last moves were equal.
* **StrategyResearch**. A cycle spawns one task per hypothesis; `Acquire` and `Finish`
  are the semaphore, `Collect` awaits the tasks in the order spawned. **Backtest** is
  what one of them computes, a tick per step.
* **PerformanceAnalytics** owns the struct `EdgeMetrics`, whose operators take the
  struct and return it changed.
* **SimulationEngine** runs its job (`Run`, `NextPoint`, `Replay`) before it observes;
  **MonteCarlo** is one of its runs, path after path.
* **DataIngestion**. A poller goes through `idle`, `waiting`, `fetching` and
  `publishing`, the news poller through `reading` before it publishes, the economic one
  through `calendar` and `listing` after it; each wait, answer, lock and publication is a step, so the four pollers
  interleave as the tasks do. A connector's retry is `TransientFailure`.

## 3. Runs

| run | properties | shows |
|---|---|---|
| `portfolio_ledger` | `Ledger`, `AttributionComplete`, `ExpiresInTimeAtMarket` | conservation, totals, marks, attribution and publication under every order of fills, prices and timer ticks; expiry on time, and at the last price once one arrived |
| `risk_exposure` | `Accounting`, `ApprovalWithinLimits`, `RejectionIsJust`, `DrawdownSuspends` | exposure accounting, every limit of an approval, a rejection that takes nothing and has its reason, drawdown gate |
| `oms_orders` | `Bookkeeping`, `FillsPublished`, `TerminalIsFinal`, `OutcomesAreSeen` | order bookkeeping through retries, lost replies, polls and cancels; what became of an order at the exchange is seen in the end |
| `bus_delivery` | `DeliveredOrCounted`, `ImplementsChannel`, `EventuallyBehind` | order, no duplication, every loss reported; the one ring buffer is a lossy queue for each receiver; progress past lag |
| `pipeline_loop` | `ExecutionsFollowApprovals`, `LoopConsistent`, `SettledApprovalFits` | the closed loop: no approval lost, doubled or overtaken, every signal answered, books equal at rest, engine invariants under each other's inputs, the total limit where the books are settled |
| `batches` | `TopOfWindow`, `BatchIsFair` | a batch of the priority engine is the best of exactly its window; a batch of the optimizer keeps the caps and passes over nobody but for better signals |
| `routing` | `AtMostOnce`, `EveryGoodSignalProcessed`, `FlushedWhenQuiet` | a signal is processed at most once, and exactly once if no cap cuts it; the queue is published once the bus is quiet |
| `analysis` | one for each of twelve components | beliefs, scenarios, shocks, pairs, meta signals, research, scores and figures: what is published is what the state says, windows and registries lose only what they may, figures are those of the whole history |
| `edges` | one for each agent, one for ingestion, `UpdateIsRight` of the graph | signals are current, fair and rare; what comes in comes once, in order, at its rate; a GraphUpdate tells exactly what its pass changed, and the source keeps its price unless a cycle leads back to it |
| `pipeline_overexposed` (violation) | `DeployedWithinLimit` | signals in quick succession deploy more than `max_total_exposure` |
| `portfolio_expiry` (violation) | `ExpiresAtLastPrice` | a position that expires before the first Market event is closed at no gain or loss, whatever price it last traded at |
| `oms_starved` (violation) | `AgedOrdersEnd` | with every poll round as long as the poll interval, an order past its timeout is never cancelled |

The properties of `analysis` and `edges` are those of the components' modules, named
there: `WindowIsRecentMoves` (ShockDetector), `FusesEveryLiveSignal` (MetaStrategy),
`ScoredOnWhatWasPredicted` (Calibration), `FiguresAreRight` (PerformanceAnalytics:
`EverySignalJudgedOnce` and `DrawdownIsWorstFall`), `CurveAccountsForTrades`
(Backtest), `RegistryKeepsTheBest` (StrategyResearch), `BeliefsArePublished`
(WorldModel), `BeliefIsBetweenPriorAndPrice` (BayesianModel),
`SamplesAreFreshAndCounted` (RelationshipDiscovery), `ScenariosFollowTheWorldModel`
(ScenarioEngine), `RiskFiguresAreRight` (MonteCarlo), `JobDoneAndUndone`
(SimulationEngine); `SignalIsCurrent` (SignalAgent), `LegsArePairedAndRare`
(GraphArbAgent), `TrendIsAgainstThePast` (TemporalAgent), `BoostedByFreshShockOnly`
(BayesianEdgeAgent), `IngestedOnceInOrder` (DataIngestion, three instances);
`UpdateIsRight` (MarketGraph).

Properties that stand on the same run and say parts of one thing are conjoined:
`Ledger`, `Accounting`, `Bookkeeping`, `FillsPublished`, `RejectionIsJust`,
`LoopConsistent`, `BatchIsFair`, `UpdateIsRight` and `DeliveredOrCounted` name their
parts where they are defined.

Each of the three `violation` runs checks one sentence of a comment that the code does not
keep; `findings` in `PROJECT.json` quotes it. Every property of a passing run has a
defective variant of a mapped definition (`mutants`) under which TLC finds it
violated.

### Divergences met while modelling, without a run of their own

* `portfolio_engine/src/engine.rs:100` and `:108`: a loss never leaves cash, so later
  positions are opened with money that equity no longer has, against "Clamp to
  available cash so we never deploy money we don't have."
* `oms/src/manager.rs:338`: `cancel_stale_orders` ends an order without another look at
  it, so volume filled since the last poll is never published.
* `risk_engine/src/state.rs:89`: the latency before the first report is 50.0
  whatever `expected_latency_ms` says (`cost_model/src/config.rs:64-65`).
* `exchange_api/src/connectors/kalshi.rs:436`: a POST whose reply was lost is
  repeated without an idempotency key, and an order the exchange accepted can be
  unknown to the OMS.
* `oms/src/state.rs:59`: a poll without new volume takes an order from
  `PartiallyFilled` back to `Open`, against "Pending -> Open -> PartiallyFilled ->
  Filled" (`oms/src/lib.rs:12`).
* `src/prediction-agent/src/main.rs:410`: with `LIVE_TRADING` set `execution_sim`
  runs beside the OMS, which "replaces" it according to line 185.
* `signal_priority_engine/src/engine.rs:218`: `recv` comes before the batch timer in
  a biased select, so a bus that is never silent starves the flush.
* `portfolio_optimizer/src/allocator.rs:72` and `:110`, `engine.rs:150`: held
  positions do not count against the niche cap, the output is in RAEV order and not
  "allocation-descending", and closed positions stay in the map.
* `market_graph/src/engine.rs:257`: a pass needs a large step of the price, not only
  a large distance to the implied probability as `config.rs` has it, so a price that
  creeps is never propagated.
* `scenario_engine/src/sampler.rs:138`: "Use pass-1 parent outcomes so the result is
  ordering-independent", but the second pass reads the outcomes it is rewriting, so a
  chain of dependencies depends on the order of the markets.
* `performance_analytics/src/edge_metrics.rs:53`: "Oldest entries are evicted when this
  limit is reached", but at the limit new ones are refused (line 249) and the loop that
  would evict (line 577) never runs. `RiskMetrics.max_drawdown` is of all time, not "in
  the history window"; and the price of a market is forgotten when a portfolio update
  does not hold it, so a new position has no mark until its next price.
* `strategy_research/src/backtest.rs:186`: a position is closed `hold_ticks + 1` ticks
  after it was opened, against "Position force-closed after `hold_ticks` ticks." (line
  21) and "Ticks a position is held before forced close." (`config.rs:16`); no property
  takes either side. The engine reads no event while a cycle runs.
* `simulation_engine/src/monte_carlo.rs:565`: `((1.0 - 0.95) * n).ceil()` is 2 for 20
  paths and 6 for 100, since `1.0 - 0.95` is a little more than 0.05 in floating point; the CVaR is
  the mean of one path more than the worst 5% of the documentation (`:109-110`,
  `:549-552`). The VaR, the least loss that no more than 5% exceed, is right.
* `agents/signal_agent/src/engine.rs:172`: a Market event sets liquidity only once, while
  `state.rs` says "Populated on every `Event::Market`"; `:193`: an invalid spread leaves
  the old quotes. Posterior events do not keep a market from eviction.
* `agents/temporal_agent/src/config.rs`: the documented z-score is 1.5, the default 1.0.
  `engine.rs:241-258`: the extrapolation is clamped to 0.01..0.99 and `validate` admits
  prices outside; above, a Buy has its posterior below the price, a positive
  `expected_value` and size 0; below, a Sell has its posterior above the price and is sized.
* `agents/bayesian_edge_agent/src/engine.rs:226` and `:274`: an older shock replaces a
  newer one, and a shock stamped in the future counts as fresh.
* `bayesian_engine/src/lib.rs:304`: a market that gets evidence twice in one GraphUpdate
  is published before its second share; `:513`: a CalibrationUpdate publishes nothing.
* `world_model/src/engine.rs:277`: an implied probability is stored as market price too;
  an unknown source ends the handler with the writes done and nothing published.
* `meta_strategy/src/engine.rs:118`: a market known only by a fresh shock is evicted.
* `calibration/src/state.rs:58`: one extreme price resolves a market for ever.
* `simulation_engine/src/engine.rs:299`: the observer subscribes only after the offline
  job; replayed ticks go onto the live bus; positions open at the end of a path are not
  valued.
* `data_ingestion`: Kalshi liquidity is always 0.0 (`market_connectors.rs:401`), which
  `SignalAgent` discounts to nothing; with one quote missing the mid is half of the
  other (`:375`); headlines carry the topic "news" and no entities
  (`news_connectors.rs:174`), so only titles with that word match; an item evicted from
  the bounded cache is published again; a FRED observation is a new release at every
  poll (`economic_connectors.rs:172`).

### Bounds, and why they are enough

* Portfolio: two markets (a replacement needs one, independence a second), two
  prices, quantities below and above the cap, five dollars of bankroll so that cash
  runs out, three events in four units of time with a TTL of one and a timer of
  two: open, replace, mark, expire in every order. Markets and sources are
  interchangeable (symmetry; the run has no liveness). `portfolio_expiry` needs one market
  and one source.
* Risk: three markets in two clusters, so that the cluster limit and the total
  bind separately; sizes below and above the cap; four events.
* OMS: two orders of two dollars (partial fills), one retry, at most two orders
  open at the exchange (`MaxAccepted`). One live order is enough to be starved.
* Bus: capacity 2 and 4 events, of two kinds, give a receiver that lags twice and
  queues whose order shows.
* Pipeline: two external inputs on two markets, with one expiry: an approval can be
  in flight when a stale update arrives, which is where the books part; three inputs
  in `pipeline_overexposed`. The bus does not overflow here. A run ends in
  `Finished`; any other state without a step is reported as a deadlock.
* `batches`: priority engine with capacity 3, cut 2 and five arrivals per window:
  eviction, ties and the cut all happen. Optimizer with three signals over three markets,
  two of a niche. `routing`: one fast signal and two slow ones that tie.
* Market graph: three markets and three edges (`MaxEdges`) give chains, forks,
  diamonds and cycles; depth 2, five levels of probability, a positive and a
  negative weight. It is one of the components of `edges`.
* `analysis`: the components share no state, so an instance chooses one at the start;
  each has one to three markets and the few inputs that tell its branches apart (the
  comment over each instance says which). Windows and capacities of one to three make
  eviction happen; clocks stop one past the longest time-out. `Calibration`,
  `PerformanceAnalytics` and `RelationshipDiscovery` bound the events received
  (`MaxEvents`), whose history their properties look at. `MonteCarlo` has a second instance
  with twenty paths, the least number at which the tail is more than the worst path.
* `edges`: prices of the trend on both sides of the bounds 4..16 of its extrapolation, inside
  the prices 1..19 it may trade at; beliefs of three kinds, quotes valid, crossed and missing, one pair of
  platforms and a third market, two eviction ticks or cooldowns; ingestion in three
  instances, each with the pollers whose interleaving matters, two or three polls and a
  bucket of two tokens.

### Fairness

Liveness is checked under weak fairness of the run loops and timers: tokio polls
every ready task, and timers fire. `Oms` has strong fairness of its poll timer, which is not
ready while the select goes on to the stale branch, and of the successful answers to the
requests about an order (`PollOk`, `CancelOk`): the exchange does not fail every request
for one order for ever. The branches of the select are only weakly fair. Nothing makes the stale
branch be the first that is ready, so `oms_starved` finds it starved by `biased` and
the sequential rounds, and `OutcomesAreSeen` relies on polls alone.

## 4. Proofs

Each proof follows the scheme: an inductive invariant `IInv`, `Init => IInv`,
`IInv /\ [Next]_vars => IInv'` by one step per action, `IInv => property`.

* **PortfolioEngine_proofs**: the invariant joins `TypeOK` with finiteness of the
  book, `CashConservation`, `UnrealizedIsSum`, `PositionsCapped`, `MarkIsCurrent`
  and `WireIsCurrent`; `Ledger` joins all of these but the caps. Conservation alone
  is not inductive: a close refunds the size of a position, so sizes must be known
  non-negative (caps), and the refund must be the term the sum loses (`SumTheorems`).
  The marks need the cap: a trim after an open must find unrealised PnL zero.
  `AttributionComplete` needs the attributed PnL as a sum over all sources
  (`SumPartition`, for a close and an expiry share it out) and `Sources` finite.
  `ExpiresInTimeAtMarket` needs that the timer is never further away than its period
  (`TickIsNear`), that after a tick every position is younger than the TTL
  (`YoungAtTick`), and of the marks that the unrealised PnL of a position whose market had
  a price since it was opened (`priced`) is that at the last price (`MarkIsCurrent`).
* **RiskEngine_proofs**: `TypeOK`, `ExposureIsSum`, `CountersBalance`,
  `LiquidityFresh` and the equity ordering; `Accounting` joins the first four.
  `ExposureIsSum` is needed for the release: the `max(0.0)` there never bites because the released size is one term
  of the sum. The limits of an approval and the neutrality of a rejection are action
  properties that follow from it.
* **EventBus_proofs**: `TypeOK`, `InOrder`, `LossIsReported`; `DeliveredOrCounted`
  joins the last two; the action property
  `LossOnlyWhenBehind` follows. `BusImplementsChannel` shows the refinement for every
  capacity: under the mapping `queue[r] = SubSeq(log, cursor[r] + 1, Len(log))` and
  `inbox[r]` the events at the positions received, each action of the bus is one of
  `LossyChannel`. It rests on what appending, advancing and skipping do to the rest of
  the log (`RestAfterAppend`, `RestAfterOne`, `RestAfterSkip`), and on the fact that a
  receiver which is not behind the ring has at most `Capacity` events waiting.
* **Oms_proofs**: `Bookkeeping` and `FillsPublished` are not inductive. What the OMS
  holds of an order is what it last learnt, so the invariant has to say how the two
  sides can differ: the volume held is at most the volume at the exchange, and less
  than the size while the order is active, so that the poll which sees the last fill
  publishes it; an order of the exchange changes only while it is open; the rest of a
  poll or cancel round holds only ids of orders that were active and are not yet
  ended by this round; and the order whose placement is being retried is still
  `Pending` and has no exchange id, so that a late success finds it as it was.
  `TerminalIsFinal` follows for every action of the loop.
* **Pipeline_proofs**: the loop uses the engines' own actions, so the engines' proofs are
  instantiated (`RP`, `PP`): a step of the loop is a step of an engine whose input comes
  from the bus (*bridge* lemmas), and keeps that engine's invariant. What is proved anew
  is what joins them. `LastUpdate`: the last Portfolio event sent, or waiting in the
  outbox, is the portfolio's book. `Agreed`: once the risk engine has read it and no
  approval is under way, its book is the rebuilt one; a rejection restores it exactly and not
  only in its sums, which needs the rollback to put back the position that the release
  took. The counts (`SignalsCounted`, `TradesCounted`) make every signal answered, or its
  answer under way. `SettledApprovalFits` adds that no position of the portfolio is above
  `MaxPositionFraction`, for every execution is of an approval. `ExecutionsFollowApprovals`
  is proved by rank: the number of approvals that the simulator's cursor has passed is the
  number of executions sent or in its outbox, so the n-th answers the n-th. The bus's length and the inputs are arbitrary.
* **Standalone_proofs**: nine components of the runs `analysis` and
  `edges`, the instances of `Standalone`, for all values of their parameters.
  - `MetaStrategy`: an entry is the last signal of its strategy (`Remembered`), and what is
    at most twice the time to live old is kept (`Kept`), because the eviction takes only
    markets all of whose entries are older. A signal that counts is younger than that.
  - `Calibration`: per market, before the first resolving price the pending prediction is the
    last one and there is no score, and after it there is the one score of that prediction
    and nothing is pending.
  - `StrategyResearch`: ids are new and unique, the registry is in bijection with the
    candidates held, none outside is better than one held, and it is full or has them all.
    That the evicted one may be any of the worst, and that there is a worst (a finite
    set of scores, by well-foundedness), is why the order of completion does not matter.
  - `BayesianEdgeAgent`: the entry of a market is rebuilt from the last event of each kind
    (`FromHistory`), and the rest is arithmetic: a boost does not lower, damping stays
    between, sizing stays within the cap (`BoostRaises`, `DampingIsBetween`,
    `SizedWithinCap`).
  - `MarketGraph`: a pass is an arbitrary breadth-first walk of an arbitrary graph, cycles
    included. The invariant says of a pass under way that the queue holds only markets
    that `depth` hops lead to from the source (`Jobs`); that of every other market either
    nothing was noted and its probability is that before the pass, or the old value noted is
    that one and the new value the present one (`Told`): `node_probs` must keep the first old
    and the last new value, whatever path comes again; and that a source no path leads back
    to still has its price (`Ground`). `Within` is a recursive function over the hops; that it
    satisfies its equation for every depth (`ReachEquation`) and grows (`ReachGrows`) goes by
    induction in set form. `UpdateIsRight` is all three parts.
  - `ShockDetector`: the window of a market is the differences of the prices since it was
    last taken in anew (`ShockInv`). The placeholder of a market that sentiment introduced
    must be told from a price whatever its value, through evictions of others at capacity.
  - `TemporalAgent`: what is kept of a market is the end of the prices received, a window of
    them as soon as there were as many (`EndsWith`), and the history reaches one further back,
    so that what a price is judged by is the history before it. That a price within the
    bounds is extrapolated to the side it is traded on is arithmetic (`ScaledOrder`): scaling
    by the number of prices keeps the order of price and bound.
  - `GraphArbAgent`: signals published are right for the maps as they stood (`OneLeg`,
    `TwoLegs`), and the cooldown needs what the timer may forget: what `last` has lost of a
    pair is more than two cooldowns old (`Remembers`). The markets of a GraphUpdate are taken
    in one after the other by a recursive function; that it meets its equation goes by
    induction in set form.
  - `SignalAgent`: a market is in `seen` exactly while a price or a snapshot of it came after
    the last tick (`RecentOf`), so a tick silences exactly the markets it drops; what the five
    maps hold of a market is what its last event of the kind said, and no silence came since
    (`OfMarket`). A signal then gains at the last valid spread, whatever the rest.
* **SignalRouting_proofs**, the optimizer: the rounds of the greedy loop satisfy their
  equation (`RoundsEquation`), and one invariant goes from round to round (`RoundInv`): the
  loop's two counters are the sums over what it has given, in all and per niche, and within
  the caps; every signal ranked so far was given something once, or has an excuse
  (`Excused`), which later rounds do not take away. Rounding up after the penalty does not
  exceed a cap because the penalised size is at most a whole number (`ScaleFacts`).
  `BatchIsFair` follows for any signals, any budget and any order of ties.
* **SignalRouting_proofs**, the routing: `AtMostOnce` is far from inductive. With the
  priority engine in front and raw signals skipped (`WiredAsInMain`), the invariant is that a
  published signal is at one stage of its way at most (`Staged`): waiting for the priority
  engine, in its queue, in a batch on the bus, pending in the optimizer, in a fast or
  optimized event on the bus, or processed; each action moves signals forward, from one stage
  to a later one, or drops them. That a batch of the optimizer repeats no signal is the fact
  above.
* **SignalRouting_proofs**, the priority engine: `TopOfWindow`, of the engine by itself and on
  its place in the pipeline. The invariant (`PriorityInv`) is that the queue is a best
  selection of the window, as many as it has room for. A newcomer on a full queue keeps it
  (`BestWithOne`): what is evicted now is outranked by all that stays, and what was evicted
  before by something that stays, or by the newcomer if that took its place; this needs a
  count, for the newcomer only stays where somebody of the queue goes. A flush publishes a
  best selection of the queue, which is one of the window (`BestOfBest`). Bags are compared
  by their copies, and their sizes are sums (`SizeWithin`, `SizeWithOne`).
* **SumTheorems**: a sum over a finite function changes by the term inserted,
  replaced or removed. `SumFunctionOnSet` is a fold of the community modules; the
  lemmas are proved from its recursion on finite sets. Induction is in set form here: a
  *set* of naturals, or of subsets, that is closed under the step holds all of them
  (`NatSetInduction`, `SubsetInduction`), which follows from well-foundedness and needs no
  operator as parameter.

Assumptions are the named `ASSUME`s of the modules (signs of constants, the ranges
that `validate` enforces), which TLC evaluates on every run. Those of
`Standalone_proofs` are `StandaloneConstants`, the assumptions of its modules: signs and ranges
of the configurations, as `validate` has them where there is one (a shock window of at least
two moves) and of the history variables (`MaxHist > Window`); beliefs of `signal_agent` that are
probabilities; and GraphUpdates that name a market at most once, since
`market_graph/src/engine.rs:401` collects the changes of a pass in a `HashMap`. Those of `Pipeline_proofs` are the assumptions of the engines and `PipelineConstants`. Those of
`SignalRouting_proofs` are `RoutingConstants`: signs and types of the constants of the
priority engine (`PriorityConfig::validate`) and of the optimizer, numbers as values and
confidences, and a penalty of at most one (`PenaltyNum <= PenaltyDen`: `portfolio_optimizer/src/config.rs`
has all fractions in 0..1). `RoutedAtMostOnce` has the wiring of `main.rs` as its hypothesis,
because it is false without it: when raw signals are accepted as well, or the optimizer reads
them itself, a fast signal is evaluated twice.

Some properties are proved and not run on their own: `PositionsCapped`, `LossOnlyWhenBehind`,
the bus's `TypeOK`, and the inductive invariants above.

Only model-checked, and why:

* liveness: fairness and `ENABLED` are outside the prover;
* `RelationshipDiscovery`, `ScenarioEngine`, `BayesianModel`, `SimulationEngine`,
  `DataIngestion`, `MonteCarlo`, `Backtest`: their handlers are folds over the events or markets of a batch, or over a
  window: the induction theorems of the library take an operator, which the provers cannot
  instantiate, and the set form above is worked out for these folds only where a recursive
  function stands for them (the rounds of the optimizer, the GraphUpdates of `GraphArbAgent`); `WorldModel` has a recursive
  operator;
* `PerformanceAnalytics`: the worst fall is a comparison of ratios, products of three unknowns,
  which the arithmetic of the prover does not decide.

## 5. Not modelled

* `persistence`: SQLite rows written as events come; what it can lose is what the bus
  can (`EventBus`). The reconciler compares balances with a map that main.rs never
  fills.
* `market_scanner`: one polling loop over HTTP, the same pattern as the market poller
  of `DataIngestion` without cache or limiter.
* Sessions, signatures and token refresh of the exchange connectors, and their market
  data: the OMS sees an answer or an error.
* Correlation, mutual information and name likeness of `relationship_discovery` (a
  parameter); generation of hypotheses in `strategy_research` (any strategy may come);
  the regression behind the half-life in `performance_analytics`; the confidence two
  agents report: real numbers that no decision of the models depends on.
* The WebSocket client of `data_ingestion`: the address is `None` everywhere.
* Edge decay and the query, removal and batch methods of `market_graph`, which no task
  calls.
* HTTP views, the UI, logging, metrics, and the test harnesses.

`PROJECT.json` lists every component with its status.

## 6. Plan

Runs are few, each costs minutes and each property a few more, so new parts are
checked in compositions with what they talk to rather than one by one, and a property
that is proved gives way to one that is not.

1. (done) bus, risk engine, portfolio engine, execution simulator, OMS, the closed
   loop; priority engine, optimizer and signal routing; market graph; proofs of
   the first three.
2. (done) beliefs, world model, scenarios, shocks, relationships, meta strategy,
   research, calibration, analytics, simulation, the four agents, ingestion.
3. `BayesianModel` and `MarketGraph` composed over the bus.
4. Exchange sessions: token refresh, retry and back-off of the connectors, in front
   of `Oms`.
5. Abstract specifications, beside the channel that the bus implements: a ledger that
   the portfolio engine implements, an exposure account that the risk engine implements, an at-most-once order service
   that the OMS would have to implement.
6. (done) proofs of `Oms`, `Pipeline`, attribution and expiry of the portfolio, nine
   components of `analysis` and `edges`, the priority engine, the
   optimizer and the routing of signals.
7. Proofs: `BeliefIsBetweenPriorAndPrice`, as far as it can be said without induction over
   sequences; the abstract specifications of 5.

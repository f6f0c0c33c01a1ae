------------------------------ MODULE Pipeline ------------------------------
(***************************************************************************)
(* The trading loop of prediction-agent: risk_engine, execution_sim and    *)
(* portfolio_engine, composed over the event bus.                          *)
(*                                                                         *)
(*   signals -> risk_engine -> execution_sim -> portfolio_engine           *)
(*                  ^                                  |                   *)
(*                  +------- Event::Portfolio <--------+                   *)
(*                                                                         *)
(* The engines are the tasks of RiskEngine, ExecutionSim and               *)
(* PortfolioEngine, whose handlers are used as they stand.  A task takes   *)
(* the next event of the log, runs the handler and leaves what it will     *)
(* publish in its outbox; it takes no other event before the outbox is     *)
(* empty.  The other tasks interleave between any two publications.        *)
(*                                                                         *)
(* The channel never overflows here: receivers that lag are the subject of *)
(* EventBus.  Time stands still but for the ticks of the TTL.              *)
(***************************************************************************)
EXTENDS Integers, Sequences, FiniteSets, FiniteSetsExt, Functions, RustStd, ExecutionSim

CONSTANTS
  Markets, Bankroll, Signals,
  \* risk_engine
  FeeRate, Spread, Impact, Latencies, Decay, Cluster, MaxPositionFraction,
  MaxTotalExposure, MaxClusterExposure, MinExpectedValue, MaxDrawdown,
  MinExpectedProfit, ExpectedLatency, DefaultLatency, AcceptRawSignals, Updates,
  \* portfolio_engine
  Directions, Sources, NoSource, MaxPosition, Prices, PositionTtl,
  TtlPeriod, MtmInterval, MaxTime,
  \* composition
  MaxInputs       \* bound on the signals and prices that arrive

VARIABLES
  log,            \* the events on the bus
  cursor,         \* task -> position on the bus
  outbox,         \* task -> events it is about to publish
  inputs,         \* events arrived from outside
  book, equity, stats, avg_latency_ms, market_liquidity, seen_liquidity_ids,
  out, quiet, steps,                                   \* risk_engine
  st, last_mtm_publish, next_tick, now, wire, events   \* portfolio_engine

riskVars == <<book, equity, stats, avg_latency_ms, market_liquidity,
              seen_liquidity_ids, out, quiet, steps>>
portfolioVars == <<st, last_mtm_publish, next_tick, now, wire, events>>
vars == <<log, cursor, outbox, inputs, riskVars, sim, portfolioVars>>

Tasks == {"risk_engine", "execution_sim", "portfolio_engine"}

R == INSTANCE RiskEngine WITH MaxSteps <- 1000
P == INSTANCE PortfolioEngine WITH
       Quantities <- 0..Bankroll, MaxLag <- 0, MaxEvents <- 1000

ASSUME PipelineConstants ==
  /\ R!RiskConstants /\ R!CostConstants /\ P!PortfolioConstants
  /\ \A sig \in Signals : sig.direction \in Directions /\ sig.source \in Sources

----------------------------------------------------------------------------
(***************************************************************************)
(* The bus as the tasks use it.                                            *)
(***************************************************************************)

\* The kinds of events each run loop matches on.
Matched ==
  [risk_engine      |-> {"FastSignal", "Portfolio", "Market", "EdgeDecayReport"},
   execution_sim    |-> {"ApprovedTrade"},
   portfolio_engine |-> {"Execution", "Market"}]

\* Positions of the events the task has yet to handle; receiving any other
\* event has no effect, and is no step.
Unhandled(t) == {i \in (cursor[t] + 1)..Len(log) : log[i].kind \in Matched[t]}

\* The task is back at recv and the bus has an event for it.
Ready(t) == outbox[t] = <<>> /\ Unhandled(t) # {}

NextEvent(t) == log[Min(Unhandled(t))]

\* Take the next event, and publish evs for it.
Handle(t, evs) ==
  /\ cursor' = [cursor EXCEPT ![t] = Min(Unhandled(t))]
  /\ outbox' = [outbox EXCEPT ![t] = evs]
  /\ UNCHANGED <<log, inputs>>

\* bus.publish
Publish(t) ==
  /\ outbox[t] # <<>>
  /\ log' = Append(log, Head(outbox[t]))
  /\ outbox' = [outbox EXCEPT ![t] = Tail(@)]
  /\ UNCHANGED <<cursor, inputs, riskVars, sim, portfolioVars>>

AtRest == \A t \in Tasks : outbox[t] = <<>> /\ Unhandled(t) = {}

----------------------------------------------------------------------------
(***************************************************************************)
(* The tasks.                                                              *)
(***************************************************************************)

Init ==
  /\ log = <<>> /\ inputs = 0
  /\ cursor = [t \in Tasks |-> 0] /\ outbox = [t \in Tasks |-> <<>>]
  /\ R!Init /\ SimInit /\ P!Init

\* A signal or a price arrives on the bus from outside the loop.
Arrive(ev) ==
  /\ inputs < MaxInputs /\ inputs' = inputs + 1
  /\ log' = Append(log, ev)
  /\ UNCHANGED <<cursor, outbox, riskVars, sim, portfolioVars>>

\* risk_engine's run loop.
RiskHandles ==
  LET ev == NextEvent("risk_engine")
  IN  /\ Ready("risk_engine")
      /\ \/ /\ ev.kind = "FastSignal"
            /\ R!OnRoutedSignal(ev.signal)
            /\ Handle("risk_engine", <<out'>>)
         \/ /\ ev.kind = "Portfolio"
            /\ R!OnPortfolio(ev.update)
            /\ Handle("risk_engine", <<>>)
         \/ /\ ev.kind = "Market"
            /\ R!OnMarket(ev.market_id, TRUE)
            /\ Handle("risk_engine", <<>>)
         \/ /\ ev.kind = "EdgeDecayReport"
            /\ R!OnEdgeDecayReport(ev.latency)
            /\ Handle("risk_engine", <<>>)
      /\ UNCHANGED <<sim, portfolioVars>>

\* execution_sim's run loop.
SimHandles ==
  LET ev == NextEvent("execution_sim")
  IN  /\ Ready("execution_sim")
      /\ \E result \in Results(ev), latency \in Reports :
            /\ OnApprovedTrade(result)
            /\ Handle("execution_sim", Sent(result, latency))
      /\ UNCHANGED <<riskVars, portfolioVars>>

\* The Execution of a result as the portfolio engine sees it.
AsExecution(result) ==
  [filled |-> result.filled, market_id |-> result.trade.signal.market_id,
   direction |-> result.trade.signal.direction,
   executed_quantity |-> result.executed_quantity, avg_price |-> result.avg_price,
   market_prob |-> result.trade.signal.market_prob,
   source |-> result.trade.signal.source, timestamp |-> now]

PortfolioEvent == [kind |-> "Portfolio", update |-> wire']

\* portfolio_engine's run loop.
PortfolioHandles ==
  LET ev == NextEvent("portfolio_engine")
  IN  /\ Ready("portfolio_engine")
      /\ \/ /\ ev.kind = "Execution"
            /\ P!OnExecution(AsExecution(ev.result))
            /\ Handle("portfolio_engine", IF ev.result.filled THEN <<PortfolioEvent>> ELSE <<>>)
         \/ /\ ev.kind = "Market"
            /\ P!OnMarket(ev.market_id, ev.price)
            /\ Handle("portfolio_engine",
                      IF now - last_mtm_publish >= MtmInterval THEN <<PortfolioEvent>> ELSE <<>>)
      /\ UNCHANGED <<riskVars, sim>>

\* The TTL branch of portfolio_engine's select.
PortfolioTick ==
  /\ outbox["portfolio_engine"] = <<>>
  /\ P!OnTtlTick
  /\ outbox' = [outbox EXCEPT !["portfolio_engine"] =
                  IF P!Expired(st, now) = {} THEN <<>> ELSE <<PortfolioEvent>>]
  /\ UNCHANGED <<log, cursor, inputs, riskVars, sim>>

Advance ==
  /\ P!Advance
  /\ UNCHANGED <<log, cursor, outbox, inputs, riskVars, sim>>

Inputs ==
  [kind : {"FastSignal"}, signal : Signals]
  \cup [kind : {"Market"}, market_id : Markets, price : Prices]

\* All the inputs are used up and worked off: the only state in which the loop
\* may have nothing left to do.
Finished ==
  /\ inputs = MaxInputs /\ AtRest /\ now = MaxTime
  /\ UNCHANGED vars

Next ==
  \/ \E ev \in Inputs : Arrive(ev)
  \/ RiskHandles \/ SimHandles \/ PortfolioHandles
  \/ PortfolioTick \/ Advance
  \/ \E t \in Tasks : Publish(t)
  \/ Finished

Spec == Init /\ [][Next]_vars

----------------------------------------------------------------------------
(***************************************************************************)
(* Properties.                                                             *)
(***************************************************************************)

OfKind(kind) == {i \in DOMAIN log : log[i].kind = kind}

\* How many events of a kind the bus had carried when the i-th was published.
UpTo(kind, i) == Cardinality({k \in OfKind(kind) : k <= i})

\* The n-th Execution on the bus is that of the n-th approval, and comes after
\* it: no trade is skipped, executed twice or overtaken by another.
ExecutionsFollowApprovals ==
  \A i \in OfKind("Execution") :
    \E j \in OfKind("ApprovedTrade") :
      /\ j < i /\ log[i].result.trade = log[j]
      /\ UpTo("ApprovedTrade", j) = UpTo("Execution", i)

\* Whenever the loop comes to rest, the risk engine's book is the portfolio's:
\* no interleaving of approvals, fills, expiries and updates leaves the two
\* apart for good.
AgreeAtRest ==
  AtRest => book = R!Synced(P!ToPortfolioUpdate(st))

\* The types and the invariants of the engines hold for the inputs they give
\* each other.
EnginesConsistent ==
  /\ R!Accounting
  /\ P!Ledger

\* RiskConfig::max_total_exposure: "Maximum total capital deployed across all
\* open positions".
DeployedWithinLimit == P!TotalDeployed(st) <= MaxTotalExposure

\* The one signal that the risk engine has yet to handle is all that is going on.
OnlySignal ==
  /\ \A t \in Tasks : outbox[t] = <<>>
  /\ \A t \in Tasks \ {"risk_engine"} : Unhandled(t) = {}
  /\ Cardinality(Unhandled("risk_engine")) = 1

\* The same limit where it does hold: an approval given when every earlier one
\* has been executed and reported back fits in what the portfolio engine has
\* left, its own market's position excepted, which the new one replaces.
SettledApprovalFits ==
  [][OnlySignal /\ RiskHandles /\ out'.kind = "ApprovedTrade" =>
       P!TotalDeployed([positions |-> RemoveAll(st.positions, {out'.signal.market_id})])
         + out'.approved_fraction <= MaxTotalExposure]_vars

\* No signal and no approval is forgotten: when the loop comes to rest every
\* routed signal has an approval or a rejection, and every approval a result.
AnsweredAtRest ==
  AtRest =>
    /\ Cardinality(OfKind("ApprovedTrade")) + Cardinality(OfKind("TradeRejected"))
         = Cardinality(OfKind("FastSignal"))
    /\ Cardinality(OfKind("Execution")) = Cardinality(OfKind("ApprovedTrade"))

\* The loop is consistent: the engines keep their own books under each other's
\* inputs, and at rest the books agree and nothing is left unanswered.
LoopConsistent ==
  /\ EnginesConsistent
  /\ AgreeAtRest
  /\ AnsweredAtRest
=============================================================================

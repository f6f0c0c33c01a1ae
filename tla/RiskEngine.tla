----------------------------- MODULE RiskEngine -----------------------------
(***************************************************************************)
(* crates/risk_engine: the gate between signals and trades.                *)
(*                                                                         *)
(* One task owns the RiskState and evaluates every signal under a single   *)
(* write lock: expected value, cost model, drawdown, then the exposure     *)
(* limits, for which the position the market already has is released first *)
(* and put back when the signal is rejected.  Portfolio updates overwrite  *)
(* the exposure book; Market events feed a liquidity cache that a ticker   *)
(* cleans; EdgeDecayReports move the latency estimate.                     *)
(*                                                                         *)
(* Units.  Position fractions are whole dollars of bankroll, probabilities *)
(* and edges are ticks, equity is in dollar-ticks.  Floating-point         *)
(* rounding is not modelled.                                               *)
(*                                                                         *)
(* Left out, because nothing reads them: entry_price and direction of a    *)
(* Position, the value of a liquidity entry, and the diagnostic sums of    *)
(* edges and costs.                                                        *)
(***************************************************************************)
EXTENDS Integers, FiniteSets, Functions, RustStd, CostModel

CONSTANTS
  Markets,             \* market ids
  Cluster,             \* market -> cluster_id(market)
  Bankroll,            \* config.bankroll
  MaxPositionFraction, \* the limits of RiskConfig, in dollars
  MaxTotalExposure,
  MaxClusterExposure,
  MinExpectedValue,
  MaxDrawdown,         \* in percent
  MinExpectedProfit,   \* min_expected_profit_usd, in dollar-ticks
  ExpectedLatency,     \* config.cost.expected_latency_ms
  DefaultLatency,      \* avg_latency_ms of RiskState::default
  AcceptRawSignals,
  Signals,             \* TradeSignals that arrive
  Updates,             \* PortfolioUpdates that arrive
  Reports,             \* latencies that EdgeDecayReports carry
  MaxSteps             \* bound on events and ticks handled

ASSUME RiskConstants ==
  /\ IsFiniteSet(Markets) /\ Cluster \in [Markets -> STRING]
  /\ Bankroll \in Nat \ {0}
  /\ MaxPositionFraction \in Nat /\ MaxTotalExposure \in Nat /\ MaxClusterExposure \in Nat
  /\ MaxDrawdown \in Nat /\ MinExpectedProfit \in Nat
  /\ DefaultLatency \in Latencies
  /\ Reports \subseteq Latencies
  /\ \A a \in Latencies, b \in Reports : (9 * a + b) \div 10 \in Latencies
  /\ \A sig \in Signals : /\ sig.market_id \in Markets
                          /\ sig.position_fraction \in Nat
                          /\ sig.posterior_prob \in Nat /\ sig.market_prob \in Nat
  /\ \A pu \in Updates : /\ pu.pnl \in Int
                         /\ DOMAIN pu.positions \subseteq Markets
                         /\ \A m \in DOMAIN pu.positions : pu.positions[m].size \in Nat

VARIABLES
  book,               \* positions, total_exposure and cluster_exposure
  equity,             \* peak_equity and current_equity
  stats,              \* the counters
  avg_latency_ms,
  market_liquidity,   \* keys of the liquidity cache
  seen_liquidity_ids, \* local of run: markets seen since the last tick
  out,                \* the last event published
  quiet,              \* history: ticks since the market's last Market event
  steps               \* events and ticks handled so far

vars == <<book, equity, stats, avg_latency_ms, market_liquidity,
          seen_liquidity_ids, out, quiet, steps>>

----------------------------------------------------------------------------
(***************************************************************************)
(* The exposure book.                                                      *)
(***************************************************************************)

Book(positions, total, clusters) ==
  [positions |-> positions, total_exposure |-> total, cluster_exposure |-> clusters]

Clusters == {Cluster[m] : m \in Markets}

InCluster(positions, c) == {m \in DOMAIN positions : Cluster[m] = c}

\* Take the position of market, if there is one, out of the two counters.
Release(b, market) ==
  LET c  == Cluster[market]
      sz == b.positions[market]
  IN  IF market \notin DOMAIN b.positions THEN b
      ELSE Book(b.positions,
                MaxOf(b.total_exposure - sz, 0),
                Insert(b.cluster_exposure, c, MaxOf(GetOr(b.cluster_exposure, c, 0) - sz, 0)))

\* Mutant: the cluster counter is not restored.
Rollback_TotalOnly(b, market) ==
  Book(b.positions, b.total_exposure + GetOr(b.positions, market, 0), b.cluster_exposure)

\* rollback_release!: put a released position back into the counters.
Rollback(b, market) ==
  LET c  == Cluster[market]
      sz == GetOr(b.positions, market, 0)
  IN  IF sz <= 0 THEN b
      ELSE Book(b.positions,
                b.total_exposure + sz,
                Insert(b.cluster_exposure, c, GetOr(b.cluster_exposure, c, 0) + sz))

\* Step 8: book the approved size as the market's position.
Approve(b, market, size) ==
  LET c == Cluster[market]
  IN  Book(Insert(b.positions, market, size),
           b.total_exposure + size,
           Insert(b.cluster_exposure, c, GetOr(b.cluster_exposure, c, 0) + size))

\* The book rebuilt from a portfolio update.
Synced(pu) ==
  LET positions == [m \in DOMAIN pu.positions |->
                      MinOf(pu.positions[m].size, MaxPositionFraction)]
  IN  Book(positions,
           SumFunction(positions),
           [c \in {Cluster[m] : m \in DOMAIN positions} |->
              SumFunctionOnSet(positions, InCluster(positions, c))])

----------------------------------------------------------------------------
(***************************************************************************)
(* Evaluation of a signal.                                                 *)
(***************************************************************************)

GrossEdge(sig) == MaxOf(sig.posterior_prob - sig.market_prob, sig.market_prob - sig.posterior_prob)

NetEdge(sig, latency) ==
  ComputeNetEdge(GrossEdge(sig), TotalCost(GrossEdge(sig), sig.position_fraction, latency))

\* Drawdown from the peak above max_drawdown; none when the peak is not positive.
InDrawdown(eq) ==
  /\ eq.peak > 0
  /\ (eq.peak - eq.current) * 100 > MaxDrawdown * eq.peak

RemainingTotal(b) == MaxTotalExposure - b.total_exposure

RemainingCluster(b, c) == MaxClusterExposure - GetOr(b.cluster_exposure, c, 0)

\* Mutant: the cluster limit is not applied to the size.
ApprovedSize_NoCluster(b, sig, latency) ==
  ComputeNetEdgePositionSize(
    MinOf(MinOf(sig.position_fraction, MaxPositionFraction), RemainingTotal(b)),
    NetEdge(sig, latency), GrossEdge(sig))

\* Mutant: the total limit is not applied to the size.
ApprovedSize_NoTotal(b, sig, latency) ==
  ComputeNetEdgePositionSize(
    MinOf(MinOf(sig.position_fraction, MaxPositionFraction),
          RemainingCluster(b, Cluster[sig.market_id])),
    NetEdge(sig, latency), GrossEdge(sig))

\* Steps 4 to 6.5: the size granted on a book from which the old position is released.
ApprovedSize(b, sig, latency) ==
  ComputeNetEdgePositionSize(
    MinOf(MinOf(MinOf(sig.position_fraction, MaxPositionFraction), RemainingTotal(b)),
          RemainingCluster(b, Cluster[sig.market_id])),
    NetEdge(sig, latency), GrossEdge(sig))

\* Mutant: no drawdown gate.
Verdict_NoDrawdown(b, eq, latency, sig) ==
  LET net      == NetEdge(sig, latency)
      released == Release(b, sig.market_id)
  IN  IF sig.expected_value < MinExpectedValue THEN "LowExpectedValue"
      ELSE IF net <= 0 THEN "NegativeNetEdge"
      ELSE IF ComputeExpectedProfit(net, sig.position_fraction) < MinExpectedProfit
           THEN "InsufficientExpectedProfit"
      ELSE IF RemainingTotal(released) <= 0 THEN "TotalExposureFull"
      ELSE IF RemainingCluster(released, Cluster[sig.market_id]) <= 0 THEN "ClusterExposureFull"
      ELSE IF ApprovedSize(released, sig, latency) <= 0 THEN "ZeroApprovedSize"
      ELSE "Approved"

\* The first gate that fails, in the order of evaluate.
Verdict(b, eq, latency, sig) ==
  LET net      == NetEdge(sig, latency)
      released == Release(b, sig.market_id)
  IN  IF sig.expected_value < MinExpectedValue THEN "LowExpectedValue"
      ELSE IF net <= 0 THEN "NegativeNetEdge"
      ELSE IF ComputeExpectedProfit(net, sig.position_fraction) < MinExpectedProfit
           THEN "InsufficientExpectedProfit"
      ELSE IF InDrawdown(eq) THEN "DrawdownProtection"
      ELSE IF RemainingTotal(released) <= 0 THEN "TotalExposureFull"
      ELSE IF RemainingCluster(released, Cluster[sig.market_id]) <= 0 THEN "ClusterExposureFull"
      ELSE IF ApprovedSize(released, sig, latency) <= 0 THEN "ZeroApprovedSize"
      ELSE "Approved"

ExposureReasons == {"TotalExposureFull", "ClusterExposureFull", "ZeroApprovedSize"}

Reasons == ExposureReasons \cup
           {"LowExpectedValue", "NegativeNetEdge", "InsufficientExpectedProfit", "DrawdownProtection"}

\* The book after a verdict: rejections past the release roll it back.
BookAfter(b, sig, latency, verdict) ==
  LET released == Release(b, sig.market_id)
  IN  IF verdict = "Approved"
      THEN Approve(released, sig.market_id, ApprovedSize(released, sig, latency))
      ELSE IF verdict \in ExposureReasons THEN Rollback(released, sig.market_id)
      ELSE b

\* The counters after a verdict.
Counted(s, verdict) ==
  [signals_seen    |-> s.signals_seen + 1,
   trades_approved |-> s.trades_approved + (IF verdict = "Approved" THEN 1 ELSE 0),
   trades_rejected |-> s.trades_rejected + (IF verdict = "Approved" THEN 0 ELSE 1),
   cost_trades_count |-> s.cost_trades_count + (IF verdict = "LowExpectedValue" THEN 0 ELSE 1),
   rejected_negative_edge |-> s.rejected_negative_edge
                              + (IF verdict = "NegativeNetEdge" THEN 1 ELSE 0),
   rejected_insufficient_profit |-> s.rejected_insufficient_profit
                              + (IF verdict = "InsufficientExpectedProfit" THEN 1 ELSE 0)]

\* Event::ApprovedTrade or Event::TradeRejected.
Published(sig, verdict, size) ==
  IF verdict = "Approved"
  THEN [kind |-> "ApprovedTrade", signal |-> sig, approved_fraction |-> size]
  ELSE [kind |-> "TradeRejected", signal |-> sig, reason |-> verdict]

----------------------------------------------------------------------------
(***************************************************************************)
(* The task.                                                               *)
(***************************************************************************)

Nothing == [kind |-> "None"]

Init ==
  /\ book = Book(EmptyMap, 0, EmptyMap)
  /\ equity = [peak |-> Bankroll * PriceScale, current |-> Bankroll * PriceScale]
  /\ stats = [signals_seen |-> 0, trades_approved |-> 0, trades_rejected |-> 0,
              cost_trades_count |-> 0, rejected_negative_edge |-> 0,
              rejected_insufficient_profit |-> 0]
  /\ avg_latency_ms = DefaultLatency
  /\ market_liquidity = {} /\ seen_liquidity_ids = {}
  /\ out = Nothing
  /\ quiet = [m \in Markets |-> 0]
  /\ steps = 0

Step == steps < MaxSteps /\ steps' = steps + 1

\* process_signal: evaluate and publish the outcome.
ProcessSignal(sig) ==
  LET verdict == Verdict(book, equity, avg_latency_ms, sig)
  IN  /\ Step
      /\ book' = BookAfter(book, sig, avg_latency_ms, verdict)
      /\ stats' = Counted(stats, verdict)
      /\ out' = Published(sig, verdict,
                          ApprovedSize(Release(book, sig.market_id), sig, avg_latency_ms))
      /\ UNCHANGED <<equity, avg_latency_ms, market_liquidity, seen_liquidity_ids, quiet>>

\* Event::Signal, evaluated only when there is no priority engine.
OnSignal(sig) == AcceptRawSignals /\ ProcessSignal(sig)

\* Event::FastSignal and Event::OptimizedSignal.
OnRoutedSignal(sig) == ProcessSignal(sig)

\* Mutant: counters accumulate over the old ones instead of starting from zero.
OnPortfolio_NoClear(pu) ==
  /\ Step
  /\ book' = [Synced(pu) EXCEPT !.total_exposure = @ + book.total_exposure]
  /\ equity' = [peak    |-> MaxOf(equity.peak, Bankroll * PriceScale + pu.pnl),
                current |-> Bankroll * PriceScale + pu.pnl]
  /\ out' = Nothing
  /\ UNCHANGED <<stats, avg_latency_ms, market_liquidity, seen_liquidity_ids, quiet>>

\* Event::Portfolio: take over equity and positions.
OnPortfolio(pu) ==
  /\ Step
  /\ book' = Synced(pu)
  /\ equity' = [peak    |-> MaxOf(equity.peak, Bankroll * PriceScale + pu.pnl),
                current |-> Bankroll * PriceScale + pu.pnl]
  /\ out' = Nothing
  /\ UNCHANGED <<stats, avg_latency_ms, market_liquidity, seen_liquidity_ids, quiet>>

\* Event::Market, with or without a positive liquidity.
OnMarket(market, liquid) ==
  /\ Step
  /\ seen_liquidity_ids' = seen_liquidity_ids \cup {market}
  /\ market_liquidity' = market_liquidity \cup (IF liquid THEN {market} ELSE {})
  /\ quiet' = [quiet EXCEPT ![market] = 0]
  /\ out' = Nothing
  /\ UNCHANGED <<book, equity, stats, avg_latency_ms>>

\* Event::EdgeDecayReport: exponential moving average with ALPHA = 0.1.
OnEdgeDecayReport(latency) ==
  /\ Step
  /\ avg_latency_ms' = (9 * avg_latency_ms + latency) \div 10
  /\ out' = Nothing
  /\ UNCHANGED <<book, equity, stats, market_liquidity, seen_liquidity_ids, quiet>>

\* liquidity_eviction_tick: drop the markets that were not seen since the last one.
OnEvictionTick ==
  /\ Step
  /\ market_liquidity' = market_liquidity \cap seen_liquidity_ids
  /\ seen_liquidity_ids' = {}
  /\ quiet' = [m \in Markets |-> quiet[m] + 1]
  /\ out' = Nothing
  /\ UNCHANGED <<book, equity, stats, avg_latency_ms>>

Next ==
  \/ \E sig \in Signals : OnSignal(sig) \/ OnRoutedSignal(sig)
  \/ \E pu \in Updates : OnPortfolio(pu)
  \/ \E market \in Markets, liquid \in BOOLEAN : OnMarket(market, liquid)
  \/ \E latency \in Reports : OnEdgeDecayReport(latency)
  \/ OnEvictionTick

Spec == Init /\ [][Next]_vars

----------------------------------------------------------------------------
(***************************************************************************)
(* Properties.                                                             *)
(***************************************************************************)

Counters == [signals_seen : Nat, trades_approved : Nat, trades_rejected : Nat,
             cost_trades_count : Nat, rejected_negative_edge : Nat,
             rejected_insufficient_profit : Nat]

\* The state of the engine (RiskState and the locals of run) has its types.
TypeOK ==
  /\ book = Book(book.positions, book.total_exposure, book.cluster_exposure)
  /\ IsMap(book.positions, Markets, Nat)
  /\ book.total_exposure \in Nat
  /\ IsMap(book.cluster_exposure, Clusters, Nat)
  /\ equity \in [peak : Int, current : Int]
  /\ stats \in Counters
  /\ avg_latency_ms \in Latencies
  /\ market_liquidity \subseteq Markets /\ seen_liquidity_ids \subseteq Markets
  /\ quiet \in [Markets -> Nat] /\ steps \in Nat

\* total_exposure and every cluster_exposure entry, incremented, released,
\* rolled back and rebuilt by different handlers, are always the sums over the
\* positions they stand for; so the max(0.0) of the release never bites.
ExposureIsSum ==
  /\ book.total_exposure = SumFunction(book.positions)
  /\ \A c \in Clusters : GetOr(book.cluster_exposure, c, 0) =
                         SumFunctionOnSet(book.positions, InCluster(book.positions, c))

\* Every signal is counted once as approved or rejected, and the two cost
\* rejections only among those that reached the cost gate.
CountersBalance ==
  /\ stats.signals_seen = stats.trades_approved + stats.trades_rejected
  /\ stats.rejected_negative_edge + stats.rejected_insufficient_profit <= stats.trades_rejected
  /\ stats.trades_approved + stats.rejected_negative_edge + stats.rejected_insufficient_profit
     <= stats.cost_trades_count

\* No liquidity entry survives two ticks without a Market event of its market.
LiquidityFresh == \A m \in market_liquidity : quiet[m] <= 1

\* An approval, whatever the book held before, leaves the market's position
\* within its cap and both exposures within their limits.
ApprovalWithinLimits ==
  [][out'.kind = "ApprovedTrade" =>
       LET m == out'.signal.market_id
       IN  /\ out'.approved_fraction = book'.positions[m]
           /\ book'.positions[m] \in 1..MinOf(MaxPositionFraction, out'.signal.position_fraction)
           /\ book'.total_exposure <= MaxTotalExposure
           /\ book'.cluster_exposure[Cluster[m]] <= MaxClusterExposure]_vars

\* A rejected signal leaves the exposure of every cluster and of the whole as
\* it was, whichever gate rejected it (rollback_release).
RejectionKeepsExposure ==
  [][out'.kind = "TradeRejected" =>
       /\ book'.positions = book.positions
       /\ book'.total_exposure = book.total_exposure
       /\ \A c \in Clusters :
            GetOr(book'.cluster_exposure, c, 0) = GetOr(book.cluster_exposure, c, 0)]_vars

\* A signal is turned away for a full book only if the positions of the other
\* markets fill the limit: its own old position never counts against it.
FullWithoutOwn ==
  [][out'.kind = "TradeRejected" =>
       LET m      == out'.signal.market_id
           others == DOMAIN book.positions \ {m}
       IN  /\ out'.reason = "TotalExposureFull" =>
                SumFunctionOnSet(book.positions, others) >= MaxTotalExposure
           /\ out'.reason = "ClusterExposureFull" =>
                SumFunctionOnSet(book.positions, others \cap InCluster(book.positions, Cluster[m]))
                >= MaxClusterExposure]_vars

\* Trading is suspended while equity is more than max_drawdown below its
\* highest value so far, and the watermark never falls.
DrawdownSuspends ==
  [][/\ equity'.peak >= equity.peak /\ equity'.peak >= equity'.current
     /\ out'.kind = "ApprovedTrade" => ~InDrawdown(equity)]_vars

\* The books of the engine are sound after every handler: types, exposures,
\* counters and the liquidity entries kept.
Accounting ==
  /\ TypeOK
  /\ ExposureIsSum
  /\ CountersBalance
  /\ LiquidityFresh

\* A rejection takes nothing and gives nothing, and one for a full book is for
\* a book that others fill.
RejectionIsJust == RejectionKeepsExposure /\ FullWithoutOwn
=============================================================================

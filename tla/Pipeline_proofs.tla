-------------------------- MODULE Pipeline_proofs --------------------------
(***************************************************************************)
(* Proofs about Pipeline: under the inputs that the engines give each      *)
(* other their own invariants hold, at rest the book of the risk engine is *)
(* the portfolio's and nothing is unanswered, and an approval given to a   *)
(* settled loop fits in what the portfolio has left.                       *)
(*                                                                         *)
(* What the handlers do is not proved again: the lemmas of                 *)
(* RiskEngine_proofs and PortfolioEngine_proofs are instantiated here, and *)
(* the first section shows that the handlers of these instances are the    *)
(* ones that Pipeline composes.                                            *)
(***************************************************************************)
EXTENDS Pipeline, SumTheorems

\* The updates that the portfolio engine can publish.
AllUpdates ==
  [positions : UNION {[D -> [direction : Directions, size : Nat, entry_probability : Int]] :
                        D \in SUBSET Markets},
   pnl : Int, exposure : Int]

RP == INSTANCE RiskEngine_proofs WITH MaxSteps <- 1000, Updates <- AllUpdates
PP == INSTANCE PortfolioEngine_proofs WITH
        Quantities <- Nat, Prices <- Int, MaxLag <- 0, MaxEvents <- 1000

----------------------------------------------------------------------------
(***************************************************************************)
(* The instances.                                                          *)
(***************************************************************************)

\* The assumptions of the risk engine hold for its instance: every update the
\* portfolio engine can publish is one that the risk engine may get.
LEMMA RiskOK == RP!RiskConstants /\ RP!CostConstants
<1>1. \A pu \in AllUpdates :
        /\ pu.pnl \in Int
        /\ DOMAIN pu.positions \subseteq Markets
        /\ \A m \in DOMAIN pu.positions : pu.positions[m].size \in Nat
  BY DEF AllUpdates
<1> QED
  BY <1>1, PipelineConstants DEF R!RiskConstants, RP!RiskConstants, R!CostConstants,
     RP!CostConstants, R!IsFiniteSet, RP!IsFiniteSet

\* The assumptions of the portfolio engine hold for its instance.
LEMMA PortfolioOK == PP!PortfolioConstants
BY PipelineConstants DEF P!PortfolioConstants, PP!PortfolioConstants, P!IsFiniteSet,
   PP!IsFiniteSet

\* The sums of the two instances of the risk engine.
LEMMA SameRiskSums ==
  ASSUME NEW f, NEW S
  PROVE  R!SumFunctionOnSet(f, S) = RP!SumFunctionOnSet(f, S)
BY DEF R!SumFunctionOnSet, R!FoldFunctionOnSet, R!MapThenFoldSet, RP!SumFunctionOnSet,
   RP!FoldFunctionOnSet, RP!MapThenFoldSet

\* Its initial state,
LEMMA SameRiskInit == R!Init = RP!Init
BY DEF R!Init, RP!Init, R!Book, RP!Book, R!EmptyMap, RP!EmptyMap, R!Nothing,
   RP!Nothing

\* what it promises,
LEMMA SameAccounting == R!Accounting = RP!Accounting
BY SameRiskSums DEF R!Accounting, RP!Accounting, R!TypeOK, RP!TypeOK, R!ExposureIsSum,
   RP!ExposureIsSum, R!CountersBalance, RP!CountersBalance, R!LiquidityFresh,
   RP!LiquidityFresh, R!Book, RP!Book, R!IsMap, RP!IsMap, R!Clusters, RP!Clusters,
   R!Counters, RP!Counters, R!GetOr, RP!GetOr, R!InCluster, RP!InCluster,
   R!SumFunction, RP!SumFunction

\* the book it rebuilds from an update (the handler of Event::Portfolio),
LEMMA SameSynced ==
  ASSUME NEW pu
  PROVE  R!Synced(pu) = RP!Synced(pu)
BY SameRiskSums DEF R!Synced, RP!Synced, R!Book, RP!Book, R!MinOf, RP!MinOf,
   R!InCluster, RP!InCluster, R!SumFunction, RP!SumFunction

\* and its handlers: process_signal,
LEMMA SameSignal ==
  ASSUME NEW sig
  PROVE  R!OnRoutedSignal(sig) = RP!ProcessSignal(sig)
BY DEF R!OnRoutedSignal, RP!OnRoutedSignal, R!ProcessSignal, RP!ProcessSignal, R!Step,
   RP!Step, R!Verdict, RP!Verdict, R!BookAfter, RP!BookAfter, R!Counted, RP!Counted,
   R!Published, RP!Published, R!ApprovedSize, RP!ApprovedSize, R!Release, RP!Release,
   R!Rollback, RP!Rollback, R!Approve, RP!Approve, R!Book, RP!Book, R!NetEdge,
   RP!NetEdge, R!GrossEdge, RP!GrossEdge, R!TotalCost, RP!TotalCost, R!ComputeNetEdge,
   RP!ComputeNetEdge, R!ComputeExpectedProfit, RP!ComputeExpectedProfit,
   R!ComputeNetEdgePositionSize, RP!ComputeNetEdgePositionSize, R!CeilDiv, RP!CeilDiv,
   R!Clamp, RP!Clamp, R!MinOf, RP!MinOf, R!MaxOf, RP!MaxOf, R!GetOr, RP!GetOr,
   R!Insert, RP!Insert, R!InDrawdown, RP!InDrawdown, R!RemainingTotal,
   RP!RemainingTotal, R!RemainingCluster, RP!RemainingCluster, R!ExposureReasons,
   RP!ExposureReasons

\* Event::Portfolio,
LEMMA SameOnPortfolio ==
  ASSUME NEW pu
  PROVE  R!OnPortfolio(pu) = RP!OnPortfolio(pu)
BY SameSynced DEF R!OnPortfolio, RP!OnPortfolio, R!Step, RP!Step, R!MaxOf, RP!MaxOf,
   R!Nothing, RP!Nothing

\* Event::Market,
LEMMA SameRiskMarket ==
  ASSUME NEW m, NEW l
  PROVE  R!OnMarket(m, l) = RP!OnMarket(m, l)
BY DEF R!OnMarket, RP!OnMarket, R!Step, RP!Step, R!Nothing, RP!Nothing

\* and Event::EdgeDecayReport.
LEMMA SameReport ==
  ASSUME NEW m
  PROVE  R!OnEdgeDecayReport(m) = RP!OnEdgeDecayReport(m)
BY DEF R!OnEdgeDecayReport, RP!OnEdgeDecayReport, R!Step, RP!Step, R!Nothing,
   RP!Nothing

\* The sums of the two instances of the portfolio engine.
LEMMA SamePortfolioSums ==
  ASSUME NEW f, NEW S
  PROVE  P!SumFunctionOnSet(f, S) = PP!SumFunctionOnSet(f, S)
BY DEF P!SumFunctionOnSet, P!FoldFunctionOnSet, P!MapThenFoldSet, PP!SumFunctionOnSet,
   PP!FoldFunctionOnSet, PP!MapThenFoldSet

\* What it publishes,
LEMMA SameUpdate ==
  ASSUME NEW s
  PROVE  /\ P!ToPortfolioUpdate(s) = PP!ToPortfolioUpdate(s)
         /\ P!TotalDeployed(s) = PP!TotalDeployed(s)
BY SamePortfolioSums DEF P!ToPortfolioUpdate, PP!ToPortfolioUpdate, P!TotalPnl,
   PP!TotalPnl, P!TotalDeployed, PP!TotalDeployed, P!SumFunction, PP!SumFunction,
   P!SizeOf, PP!SizeOf

\* its initial state,
LEMMA SamePortfolioInit == P!Init = PP!Init
BY SameUpdate DEF P!Init, PP!Init, P!NewState, PP!NewState, P!EmptyMap, PP!EmptyMap

\* the closing of positions,
LEMMA SameCloseAll ==
  ASSUME NEW s, NEW closing, NEW pnl
  PROVE  P!CloseAll(s, closing, pnl) = PP!CloseAll(s, closing, pnl)
BY SamePortfolioSums DEF P!CloseAll, PP!CloseAll, P!SizeOf, PP!SizeOf, P!UnrealizedOf,
   PP!UnrealizedOf, P!RemoveAll, PP!RemoveAll, P!Restrict, PP!Restrict

\* that of a replaced position,
LEMMA SameCloseReplaced ==
  ASSUME NEW s, NEW ex
  PROVE  P!CloseReplaced(s, ex) = PP!CloseReplaced(s, ex)
BY SameCloseAll DEF P!CloseReplaced, PP!CloseReplaced, P!PnlAt, PP!PnlAt

\* apply_execution,
LEMMA SameApply ==
  ASSUME NEW s, NEW ex
  PROVE  P!ApplyExecution(s, ex) = PP!ApplyExecution(s, ex)
<1>1. \A size : P!NewPosition(ex, size, 0) = PP!NewPosition(ex, size, 0)
  BY DEF P!NewPosition, PP!NewPosition
<1>2. \A c : P!OpenSize(c, ex) = PP!OpenSize(c, ex)
  BY DEF P!OpenSize, PP!OpenSize, P!MinOf, PP!MinOf, P!MaxOf, PP!MaxOf
<1>3. \A f, k, v : P!Insert(f, k, v) = PP!Insert(f, k, v)
  BY DEF P!Insert, PP!Insert
<1>4. P!CloseReplaced(s, ex) = PP!CloseReplaced(s, ex)
  BY SameCloseReplaced
<1> QED
  BY <1>1, <1>2, <1>3, <1>4 DEF P!ApplyExecution, PP!ApplyExecution

\* apply_risk_adjustments,
LEMMA SameTrim ==
  ASSUME NEW s
  PROVE  P!ApplyRiskAdjustments(s) = PP!ApplyRiskAdjustments(s)
BY SamePortfolioSums DEF P!ApplyRiskAdjustments, PP!ApplyRiskAdjustments, P!Trimmed,
   PP!Trimmed, P!TrimmedBook, PP!TrimmedBook, P!MinOf, PP!MinOf, P!SumFunction,
   PP!SumFunction

\* and its handlers: Event::Execution,
LEMMA SameOnExecution ==
  ASSUME NEW ex
  PROVE  P!OnExecution(ex) = PP!OnExecution(ex)
BY SameUpdate, SameApply, SameTrim DEF P!OnExecution, PP!OnExecution

\* Event::Market,
LEMMA SamePortfolioMarket ==
  ASSUME NEW m, NEW p
  PROVE  P!OnMarket(m, p) = PP!OnMarket(m, p)
<1>1. \A pos : P!PnlAt(pos, p) = PP!PnlAt(pos, p)
  BY DEF P!PnlAt, PP!PnlAt
<1>2. \A f : P!SumFunction(P!UnrealizedOf(f)) = PP!SumFunction(PP!UnrealizedOf(f))
  BY SamePortfolioSums DEF P!SumFunction, PP!SumFunction, P!UnrealizedOf,
     PP!UnrealizedOf
<1>3. \A s : P!RecalculateUnrealized(s, m, p) = PP!RecalculateUnrealized(s, m, p)
  BY <1>1, <1>2 DEF P!RecalculateUnrealized, PP!RecalculateUnrealized
<1> QED
  BY SameUpdate, <1>3 DEF P!OnMarket, PP!OnMarket

\* ttl_tick,
LEMMA SameTick == P!OnTtlTick = PP!OnTtlTick
BY SamePortfolioSums, SameUpdate DEF P!OnTtlTick, PP!OnTtlTick, P!TtlEnabled,
   PP!TtlEnabled, P!Expired, PP!Expired, P!ExpiryPnl, PP!ExpiryPnl, P!CloseAll,
   PP!CloseAll, P!SizeOf, PP!SizeOf, P!UnrealizedOf, PP!UnrealizedOf, P!RemoveAll,
   PP!RemoveAll, P!Restrict, PP!Restrict

\* and the passing of time;
LEMMA SameAdvance == P!Advance = PP!Advance
BY DEF P!Advance, PP!Advance, P!TtlEnabled, PP!TtlEnabled

\* and what it promises.
LEMMA SameLedger == P!Ledger = PP!Ledger
BY SamePortfolioSums, SameUpdate DEF P!Ledger, PP!Ledger, P!TypeOK, PP!TypeOK,
   P!IsState, PP!IsState, P!IsMap, PP!IsMap, P!Positions, PP!Positions,
   P!WirePositions, PP!WirePositions, P!CashConservation, PP!CashConservation,
   P!UnrealizedIsSum, PP!UnrealizedIsSum, P!UnrealizedOf, PP!UnrealizedOf,
   P!SumFunction, PP!SumFunction, P!MarkIsCurrent, PP!MarkIsCurrent, P!AtLastPrice,
   PP!AtLastPrice, P!PnlAt, PP!PnlAt, P!WireIsCurrent, PP!WireIsCurrent

----------------------------------------------------------------------------
(***************************************************************************)
(* The events.                                                             *)
(***************************************************************************)

Approvals == [kind : {"ApprovedTrade"}, signal : Signals, approved_fraction : 1..MaxPositionFraction]
Rejections == [kind : {"TradeRejected"}, signal : Signals, reason : RP!Reasons]
DecayReports == [kind : {"EdgeDecayReport"}, latency : Reports]

\* An approved trade is filled in part at least: MinFill is positive.  No position
\* is larger than the limit of the engine that approved it.
Fills == [trade : Approvals, filled : {TRUE}, executed_quantity : 0..MaxPositionFraction,
          avg_price : Nat]
Executed == [kind : {"Execution"}, result : Fills]

PortfolioEvents == [kind : {"Portfolio"}, update : AllUpdates]

Event == Inputs \cup Approvals \cup Rejections \cup DecayReports \cup Executed \cup PortfolioEvents

\* What a task may be about to publish.
OutboxOK ==
  /\ outbox \in [Tasks -> Seq(Event)]
  /\ \/ outbox["risk_engine"] = <<>>
     \/ \E ev \in Approvals \cup Rejections : outbox["risk_engine"] = <<ev>>
  /\ \/ outbox["execution_sim"] = <<>>
     \/ \E ev \in Executed : outbox["execution_sim"] = <<ev>>
     \/ \E ev \in Executed, report \in DecayReports : outbox["execution_sim"] = <<report, ev>>
  /\ \/ outbox["portfolio_engine"] = <<>>
     \/ outbox["portfolio_engine"] = <<[kind |-> "Portfolio", update |-> wire]>>

LogOK ==
  /\ log \in Seq(Event)
  /\ cursor \in [Tasks -> Nat]
  /\ \A t \in Tasks : cursor[t] <= Len(log)

----------------------------------------------------------------------------
(***************************************************************************)
(* The steps of the engines, as the loop sees them.                        *)
(***************************************************************************)

\* A signal is approved within the limits, or rejected with the book unchanged.
LEMMA SignalStep ==
  ASSUME RP!IInv, RP!Covered(book), NEW sig \in Signals, R!OnRoutedSignal(sig)
  PROVE  /\ RP!IInv' /\ RP!Covered(book')
         /\ \/ /\ out' \in Approvals /\ out'.signal = sig
               /\ book'.positions = RP!Insert(book.positions, sig.market_id, out'.approved_fraction)
               /\ book'.total_exposure <= MaxTotalExposure
            \/ out' \in Rejections /\ book' = book
<1> DEFINE v == RP!Verdict(book, equity, avg_latency_ms, sig)
           g == RP!BookAfter(book, sig, avg_latency_ms, v)
           size == RP!ApprovedSize(RP!Release(book, sig.market_id), sig, avg_latency_ms)
<1>1. RP!ProcessSignal(sig)
  BY SameSignal
<1>2. RP!IInv'
  BY <1>1, RiskOK, RP!SignalIInv
<1>3. book' = g /\ out' = RP!Published(sig, v, size)
  BY <1>1 DEF RP!ProcessSignal
<1>4. avg_latency_ms \in Latencies /\ RP!GoodBook(book)
  BY DEF RP!IInv, RP!TypeOK
<1>5. /\ v = "Approved" => /\ g.positions = RP!Insert(book.positions, sig.market_id, size)
                           /\ size \in Nat /\ size > 0 /\ size <= MaxPositionFraction
                           /\ g.total_exposure <= MaxTotalExposure
  BY <1>4, RiskOK, RP!EvaluateGood
<1>6. RP!Covered(g) /\ (v # "Approved" => g = book)
  BY <1>4, RiskOK, RP!EvaluateExact
<1>7. v \in RP!Reasons \cup {"Approved"}
  BY RP!VerdictType, RiskOK
<1> HIDE DEF v, g, size
<1>8. CASE v = "Approved"
  <2>1. out' = [kind |-> "ApprovedTrade", signal |-> sig, approved_fraction |-> size]
    BY <1>3, <1>8 DEF RP!Published
  <2>2. size \in 1..MaxPositionFraction
    BY <1>5, <1>8, RiskOK DEF RP!RiskConstants
  <2> QED
    BY <1>2, <1>3, <1>5, <1>6, <1>8, <2>1, <2>2 DEF Approvals
<1>9. CASE v # "Approved"
  <2>1. out' = [kind |-> "TradeRejected", signal |-> sig, reason |-> v]
    BY <1>3, <1>9 DEF RP!Published
  <2> QED
    BY <1>2, <1>3, <1>6, <1>7, <1>9, <2>1 DEF Rejections
<1> QED
  BY <1>8, <1>9

\* A portfolio update replaces the book.
LEMMA UpdateStep ==
  ASSUME RP!IInv, NEW pu \in AllUpdates, R!OnPortfolio(pu)
  PROVE  RP!IInv' /\ RP!Covered(book') /\ book' = R!Synced(pu) /\ out'.kind = "None"
<1>1. RP!OnPortfolio(pu)
  BY SameOnPortfolio
<1>2. RP!IInv'
  BY <1>1, RiskOK, RP!PortfolioIInv
<1>3. book' = RP!Synced(pu) /\ out' = RP!Nothing
  BY <1>1 DEF RP!OnPortfolio
<1>4. RP!Covered(RP!Synced(pu))
  BY RiskOK, RP!SyncedCovered
<1> QED
  BY <1>2, <1>3, <1>4, SameSynced DEF RP!Nothing

\* Prices and decay reports leave the book alone.
LEMMA OtherStep ==
  ASSUME RP!IInv,
         \/ \E m \in Markets : R!OnMarket(m, TRUE)
         \/ \E latency \in Reports : R!OnEdgeDecayReport(latency)
  PROVE  RP!IInv' /\ book' = book /\ out'.kind = "None"
<1>1. ASSUME NEW m \in Markets, R!OnMarket(m, TRUE)
      PROVE  RP!IInv' /\ book' = book /\ out'.kind = "None"
  <2>1. RP!OnMarket(m, TRUE)
    BY <1>1, SameRiskMarket
  <2>2. RP!IInv'
    BY <2>1, RiskOK, RP!MarketIInv
  <2> QED
    BY <2>1, <2>2 DEF RP!OnMarket, RP!Nothing
<1>2. ASSUME NEW latency \in Reports, R!OnEdgeDecayReport(latency)
      PROVE  RP!IInv' /\ book' = book /\ out'.kind = "None"
  <2>1. RP!OnEdgeDecayReport(latency)
    BY <1>2, SameReport
  <2>2. RP!IInv'
    BY <2>1, RiskOK, RP!ReportIInv
  <2> QED
    BY <2>1, <2>2 DEF RP!OnEdgeDecayReport, RP!Nothing
<1> QED
  BY <1>1, <1>2

\* The invariant of the portfolio engine, fed with approved trades only.
PortfolioInv == PP!IInv /\ PP!WithinSize(st, MaxPositionFraction)

\* The update of a balanced portfolio is one of AllUpdates.
LEMMA UpdateIsGood ==
  ASSUME NEW s, PP!Balanced(s)
  PROVE  PP!ToPortfolioUpdate(s) \in AllUpdates
<1> DEFINE D == DOMAIN s.positions
           w == [m \in D |-> [direction         |-> s.positions[m].direction,
                              size              |-> s.positions[m].size,
                              entry_probability |-> s.positions[m].avg_price]]
<1>1. D \subseteq Markets /\ \A m \in D : s.positions[m] \in PP!Positions
  BY DEF PP!Balanced, PP!IsState, PP!IsMap
<1>2. \A m \in D : s.positions[m].size \in Nat
  BY <1>1 DEF PP!Balanced, PP!Positions
<1>3. w \in [D -> [direction : Directions, size : Nat, entry_probability : Int]]
  BY <1>1, <1>2 DEF PP!Positions
<1>4. PP!ToPortfolioUpdate(s) = [positions |-> w, pnl |-> PP!TotalPnl(s),
                                 exposure |-> PP!TotalDeployed(s)]
  BY DEF PP!ToPortfolioUpdate
<1>5. PP!ToPortfolioUpdate(s).pnl \in Int /\ PP!ToPortfolioUpdate(s).exposure \in Int
  BY PortfolioOK, PP!UpdateType
<1> HIDE DEF w
<1>6. PP!TotalPnl(s) \in Int /\ PP!TotalDeployed(s) \in Int
  BY <1>4, <1>5
<1> QED
  BY <1>1, <1>3, <1>4, <1>6 DEF AllUpdates

\* A fill is booked and published,
LEMMA FillStep ==
  ASSUME PortfolioInv, NEW result \in Fills, P!OnExecution(AsExecution(result))
  PROVE  PortfolioInv' /\ wire' \in AllUpdates
<1> DEFINE ex == AsExecution(result)
<1>1. PP!OnExecution(ex)
  BY SameOnExecution
<1>2. ex \in PP!Executions(now)
  <2>1. now \in now - 0..now
    BY DEF PortfolioInv, PP!IInv, PP!TypeOK
  <2>2. /\ result.trade.signal \in Signals
        /\ result.executed_quantity \in Nat /\ result.avg_price \in Int
    BY DEF Fills, Approvals
  <2>4. result.filled \in BOOLEAN
    <3>1. result.filled = TRUE
      BY DEF Fills
    <3> QED
      BY <3>1
  <2>3. \A sig \in Signals : sig.market_id \in Markets /\ sig.market_prob \in Int
    BY PipelineConstants DEF R!RiskConstants
  <2> QED
    BY <2>1, <2>2, <2>3, <2>4, PipelineConstants DEF AsExecution, PP!Executions
<1>3. PP!IInv'
  <2> HIDE DEF ex
  <2> QED
    BY <1>1, <1>2, PortfolioOK, PP!ExecutionIInv DEF PortfolioInv
<1>8. PP!WithinSize(st', MaxPositionFraction)
  <2>1. ex.executed_quantity <= MaxPositionFraction
    <3>1. result.executed_quantity \in 0..MaxPositionFraction
      BY DEF Fills
    <3> QED
      BY <3>1, RiskOK DEF AsExecution, RP!RiskConstants
  <2>2. MaxPositionFraction \in Int
    BY RiskOK DEF RP!RiskConstants
  <2> HIDE DEF ex
  <2> QED
    BY <1>1, <1>2, <2>1, <2>2, PortfolioOK, PP!ExecutionSizes DEF PortfolioInv
<1>4. result.filled
  BY DEF Fills
<1>5. wire' = PP!ToPortfolioUpdate(st')
  BY <1>1, <1>4 DEF PP!OnExecution, AsExecution
<1>6. PP!Balanced(st')
  BY <1>3 DEF PP!IInv
<1>7. \A s : PP!Balanced(s) => PP!ToPortfolioUpdate(s) \in AllUpdates
  BY UpdateIsGood
<1> QED
  BY <1>3, <1>5, <1>6, <1>7, <1>8 DEF PortfolioInv

\* a price is marked, and published when it is due,
LEMMA PriceStep ==
  ASSUME PortfolioInv, wire \in AllUpdates, NEW m \in Markets, NEW price \in Prices,
         P!OnMarket(m, price)
  PROVE  /\ PortfolioInv' /\ wire' \in AllUpdates
         /\ ~(now - last_mtm_publish >= MtmInterval) => wire' = wire
<1>1. PP!OnMarket(m, price)
  BY SamePortfolioMarket
<1>2. price \in Int
  BY PipelineConstants DEF P!PortfolioConstants
<1>3. PP!IInv'
  BY <1>1, <1>2, PortfolioOK, PP!MarketIInv DEF PortfolioInv
<1>7. PP!WithinSize(st', MaxPositionFraction)
  <2>1. MaxPositionFraction \in Int
    BY RiskOK DEF RP!RiskConstants
  <2> QED
    BY <1>1, <1>2, <2>1, PortfolioOK, PP!MarketSizes DEF PortfolioInv
<1>4. /\ wire' = IF now - last_mtm_publish >= MtmInterval THEN PP!ToPortfolioUpdate(st') ELSE wire
  BY <1>1 DEF PP!OnMarket
<1>5. PP!Balanced(st')
  BY <1>3 DEF PP!IInv
<1>6. \A s : PP!Balanced(s) => PP!ToPortfolioUpdate(s) \in AllUpdates
  BY UpdateIsGood
<1> QED
  BY <1>3, <1>4, <1>5, <1>6, <1>7 DEF PortfolioInv

\* and expired positions are closed, and published when there are any.
LEMMA TickStep ==
  ASSUME PortfolioInv, wire \in AllUpdates, P!OnTtlTick
  PROVE  /\ PortfolioInv' /\ wire' \in AllUpdates
         /\ P!Expired(st, now) = {} => wire' = wire
<1>1. PP!OnTtlTick
  BY SameTick
<1>2. PP!IInv'
  BY <1>1, PortfolioOK, PP!TtlIInv DEF PortfolioInv
<1>7. PP!WithinSize(st', MaxPositionFraction)
  <2>1. MaxPositionFraction \in Int
    BY RiskOK DEF RP!RiskConstants
  <2> QED
    BY <1>1, <2>1, PortfolioOK, PP!TtlSizes DEF PortfolioInv
<1>3. P!Expired(st, now) = PP!Expired(st, now)
  BY DEF P!Expired, PP!Expired
<1>4. wire' = IF PP!Expired(st, now) = {} THEN wire ELSE PP!ToPortfolioUpdate(st')
  BY <1>1 DEF PP!OnTtlTick
<1>5. PP!Balanced(st')
  BY <1>2 DEF PP!IInv
<1>6. \A s : PP!Balanced(s) => PP!ToPortfolioUpdate(s) \in AllUpdates
  BY UpdateIsGood
<1> QED
  BY <1>2, <1>3, <1>4, <1>5, <1>6, <1>7 DEF PortfolioInv

\* Time passes.
LEMMA TimeStep ==
  ASSUME PortfolioInv, P!Advance
  PROVE  PortfolioInv' /\ wire' = wire
<1>1. PP!Advance
  BY SameAdvance
<1> QED
  BY <1>1 DEF PortfolioInv, PP!WithinSize, PP!Advance, PP!IInv, PP!TypeOK, PP!Capped, PP!MarkIsCurrent, PP!WireIsCurrent

\* An engine whose variables do not change keeps its invariant.
LEMMA RiskStutter ==
  ASSUME RP!IInv, RP!Covered(book), UNCHANGED riskVars
  PROVE  RP!IInv' /\ RP!Covered(book')
BY DEF riskVars, RP!IInv, RP!TypeOK, RP!CountersBalance, RP!LiquidityFresh, RP!SeenIsRecent

LEMMA PortfolioStutter ==
  ASSUME PortfolioInv, UNCHANGED portfolioVars
  PROVE  PortfolioInv' /\ wire' = wire
BY DEF portfolioVars, PortfolioInv, PP!WithinSize, PP!IInv, PP!TypeOK, PP!Capped, PP!MarkIsCurrent, PP!WireIsCurrent

----------------------------------------------------------------------------
(***************************************************************************)
(* The bus.                                                                *)
(***************************************************************************)

\* The events of a kind that a task has yet to handle, and how many there are.
Pending(t, kind) == {i \in Unhandled(t) : log[i].kind = kind}

Waiting(t, kind) == Cardinality(Pending(t, kind))
OnBus(kind) == Cardinality(OfKind(kind))

\* Min returns the least element.
LEMMA LeastOf ==
  ASSUME NEW S \in SUBSET Nat, S # {}
  PROVE  Min(S) \in S /\ \A y \in S : Min(S) <= y
<1>1. PICK x \in S : \A k \in S : ~(<<k, x>> \in OpToRel(<, Nat))
  BY NatLessThanWellFounded, WFMin
<1>2. ASSUME NEW y \in S, ~(x <= y) PROVE FALSE
  <2>1. y \in Nat /\ x \in Nat /\ y < x
    BY <1>2
  <2>2. <<y, x>> \in OpToRel(<, Nat)
    BY <2>1 DEF OpToRel
  <2> QED
    BY <1>1, <2>2
<1> QED
  BY <1>2 DEF Min

\* What waits is on the bus, and is finite.
LEMMA PendingFinite ==
  ASSUME LogOK, NEW t \in Tasks, NEW kind
  PROVE  /\ IsFiniteSet(Pending(t, kind)) /\ Waiting(t, kind) \in Nat
         /\ IsFiniteSet(OfKind(kind)) /\ OnBus(kind) \in Nat
         /\ Pending(t, kind) \subseteq Unhandled(t)
         /\ Unhandled(t) \subseteq 1..Len(log) /\ OfKind(kind) \subseteq 1..Len(log)
<1>1. Len(log) \in Nat /\ DOMAIN log = 1..Len(log) /\ cursor[t] \in Nat
  BY DEF LogOK
<1>2. Unhandled(t) \subseteq 1..Len(log)
  BY <1>1 DEF Unhandled
<1>3. Pending(t, kind) \subseteq Unhandled(t)
  BY DEF Pending
<1>4. OfKind(kind) \subseteq 1..Len(log)
  BY <1>1 DEF OfKind
<1>5. IsFiniteSet(1..Len(log))
  BY <1>1, FS_Interval
<1>6. IsFiniteSet(Pending(t, kind)) /\ IsFiniteSet(OfKind(kind))
  BY <1>2, <1>3, <1>4, <1>5, FS_Subset
<1> QED
  BY <1>2, <1>3, <1>4, <1>6, FS_CardinalityType DEF Waiting, OnBus

\* The next event is the first that the task matches on.
LEMMA NextIs ==
  ASSUME LogOK, NEW t \in Tasks, Unhandled(t) # {}
  PROVE  LET i == Min(Unhandled(t))
         IN  /\ i \in Unhandled(t) /\ i \in 1..Len(log)
             /\ \A j \in Unhandled(t) : i <= j
             /\ log[i] \in Event /\ log[i].kind \in Matched[t]
             /\ NextEvent(t) = log[i]
<1>1. Unhandled(t) \subseteq 1..Len(log)
  BY PendingFinite
<1>2. Unhandled(t) \in SUBSET Nat
  BY <1>1
<1>3. Min(Unhandled(t)) \in Unhandled(t) /\ \A j \in Unhandled(t) : Min(Unhandled(t)) <= j
  BY <1>2, LeastOf
<1>4. \A i \in Unhandled(t) : log[i].kind \in Matched[t]
  BY DEF Unhandled
<1>5. \A i \in 1..Len(log) : log[i] \in Event
  BY DEF LogOK
<1> QED
  BY <1>1, <1>3, <1>4, <1>5 DEF NextEvent

\* Handling an event takes it, and nothing else, out of what waits for the task.
LEMMA HandleTakes ==
  ASSUME LogOK, NEW t \in Tasks, Unhandled(t) # {}, NEW evs, Handle(t, evs)
  PROVE  LET i == Min(Unhandled(t))
         IN  /\ LogOK'
             /\ \A u \in Tasks : Unhandled(u)' = Unhandled(u) \ (IF u = t THEN {i} ELSE {})
             /\ \A kind : \A u \in Tasks : Pending(u, kind)' = Pending(u, kind) \ (IF u = t THEN {i} ELSE {})
             /\ \A kind : OfKind(kind)' = OfKind(kind)
<1> DEFINE i == Min(Unhandled(t))
<1>1. /\ i \in Unhandled(t) /\ i \in 1..Len(log)
      /\ \A j \in Unhandled(t) : i <= j
  BY NextIs
<1>2. log' = log /\ cursor' = [cursor EXCEPT ![t] = i]
  BY DEF Handle
<1>3. /\ Len(log) \in Nat /\ cursor \in [Tasks -> Nat]
      /\ \A u \in Tasks : cursor[u] \in Nat /\ cursor[u] <= Len(log)
  BY DEF LogOK
<1> HIDE DEF i
<1>4. LogOK'
  BY <1>1, <1>2, <1>3 DEF LogOK
<1>5. cursor'[t] = i /\ \A u \in Tasks \ {t} : cursor'[u] = cursor[u]
  BY <1>2, <1>3
<1>6. \A u \in Tasks : Unhandled(u)' = {j \in (cursor'[u] + 1)..Len(log) : log[j].kind \in Matched[u]}
  BY <1>2 DEF Unhandled
<1>7. Unhandled(t)' = Unhandled(t) \ {i}
  <2>1. i >= cursor[t] + 1
    BY <1>1 DEF Unhandled
  <2>2. ASSUME NEW j \in Unhandled(t) \ {i} PROVE j \in Unhandled(t)'
    <3>1. i <= j /\ j # i /\ j \in (cursor[t] + 1)..Len(log) /\ log[j].kind \in Matched[t]
      BY <1>1, <2>2 DEF Unhandled
    <3>2. j \in (i + 1)..Len(log)
      BY <1>1, <1>3, <3>1
    <3> QED
      BY <1>5, <1>6, <3>1, <3>2
  <2>3. ASSUME NEW j \in Unhandled(t)' PROVE j \in Unhandled(t) \ {i}
    <3>1. j \in (i + 1)..Len(log) /\ log[j].kind \in Matched[t]
      BY <1>5, <1>6
    <3>2. j \in (cursor[t] + 1)..Len(log) /\ j # i
      BY <1>1, <1>3, <2>1, <3>1
    <3> QED
      BY <3>1, <3>2 DEF Unhandled
  <2> QED
    BY <2>2, <2>3
<1>8. \A u \in Tasks \ {t} : Unhandled(u)' = Unhandled(u)
  BY <1>5, <1>6 DEF Unhandled
<1>9. \A u \in Tasks : Unhandled(u)' = Unhandled(u) \ (IF u = t THEN {i} ELSE {})
  BY <1>7, <1>8
<1>10. \A kind : \A u \in Tasks : Pending(u, kind)' = Pending(u, kind) \ (IF u = t THEN {i} ELSE {})
  BY <1>2, <1>9 DEF Pending
<1>11. \A kind : OfKind(kind)' = OfKind(kind)
  BY <1>2 DEF OfKind
<1> QED
  BY <1>4, <1>9, <1>10, <1>11 DEF i

\* Publishing an event adds it to what waits for the tasks that match on it.
LEMMA AppendAdds ==
  ASSUME LogOK, NEW ev \in Event, log' = Append(log, ev), cursor' = cursor
  PROVE  LET n == Len(log) + 1
         IN  /\ LogOK'
             /\ n \in Nat /\ \A i \in 1..Len(log) : log'[i] = log[i] /\ i < n
             /\ log'[n] = ev
             /\ \A u \in Tasks : Unhandled(u)' = Unhandled(u) \cup (IF ev.kind \in Matched[u] THEN {n} ELSE {})
             /\ \A kind : \A u \in Tasks :
                   Pending(u, kind)' = Pending(u, kind)
                      \cup (IF ev.kind = kind /\ ev.kind \in Matched[u] THEN {n} ELSE {})
             /\ \A kind : OfKind(kind)' = OfKind(kind) \cup (IF ev.kind = kind THEN {n} ELSE {})
<1> DEFINE n == Len(log) + 1
<1>1. /\ Len(log) \in Nat /\ log \in Seq(Event)
      /\ \A u \in Tasks : cursor[u] \in Nat /\ cursor[u] <= Len(log)
  BY DEF LogOK
<1>2. /\ log' \in Seq(Event) /\ Len(log') = n /\ log'[n] = ev
      /\ \A i \in 1..Len(log) : log'[i] = log[i]
  BY <1>1
<1>3. LogOK'
  BY <1>1, <1>2 DEF LogOK
<1>4. \A u \in Tasks : Unhandled(u)' = {j \in (cursor[u] + 1)..n : log'[j].kind \in Matched[u]}
  BY <1>2 DEF Unhandled
<1>5. \A u \in Tasks : (cursor[u] + 1)..n = ((cursor[u] + 1)..Len(log)) \cup {n}
  BY <1>1
<1>6. \A u \in Tasks : \A j \in (cursor[u] + 1)..Len(log) : j \in 1..Len(log) /\ j # n
  BY <1>1
<1> HIDE DEF n
<1>7. \A u \in Tasks : Unhandled(u)' = Unhandled(u) \cup (IF ev.kind \in Matched[u] THEN {n} ELSE {})
  BY <1>2, <1>4, <1>5, <1>6 DEF Unhandled
<1>8. \A u \in Tasks : \A j \in Unhandled(u) : log'[j] = log[j]
  BY <1>2, <1>6 DEF Unhandled
<1>9. \A kind : \A u \in Tasks : Pending(u, kind)' = {j \in Unhandled(u)' : log'[j].kind = kind}
  BY DEF Pending
<1>10. \A kind : \A u \in Tasks :
         Pending(u, kind)' = Pending(u, kind)
            \cup (IF ev.kind = kind /\ ev.kind \in Matched[u] THEN {n} ELSE {})
  BY <1>2, <1>7, <1>8, <1>9 DEF Pending
<1>11. DOMAIN log = 1..Len(log) /\ DOMAIN log' = (1..Len(log)) \cup {n}
  BY <1>1, <1>2 DEF n
<1>12. \A kind : OfKind(kind)' = OfKind(kind) \cup (IF ev.kind = kind THEN {n} ELSE {})
  BY <1>2, <1>11 DEF OfKind
<1>13. n \in Nat /\ \A i \in 1..Len(log) : i < n
  BY <1>1 DEF n
<1> QED
  BY <1>2, <1>3, <1>7, <1>10, <1>12, <1>13 DEF n

\* The counts after a handler has taken an event ...
LEMMA HandleCounts ==
  ASSUME LogOK, NEW t \in Tasks, Unhandled(t) # {}, NEW evs, Handle(t, evs)
  PROVE  /\ \A kind : OnBus(kind) \in Nat /\ OnBus(kind)' = OnBus(kind)
         /\ \A kind : \A u \in Tasks :
               /\ Waiting(u, kind) \in Nat
               /\ Waiting(u, kind)' = Waiting(u, kind)
                                      - (IF u = t /\ kind = NextEvent(t).kind THEN 1 ELSE 0)
<1> DEFINE i == Min(Unhandled(t))
<1>1. /\ i \in Unhandled(t) /\ NextEvent(t) = log[i]
  BY NextIs
<1>2. /\ \A kind : \A u \in Tasks : Pending(u, kind)' = Pending(u, kind) \ (IF u = t THEN {i} ELSE {})
      /\ \A kind : OfKind(kind)' = OfKind(kind)
  BY HandleTakes
<1> HIDE DEF i
<1>3. \A kind : OnBus(kind) \in Nat /\ OnBus(kind)' = OnBus(kind)
  BY <1>2, PendingFinite DEF OnBus
<1>4. ASSUME NEW kind, NEW u \in Tasks
      PROVE  /\ Waiting(u, kind) \in Nat
             /\ Waiting(u, kind)' = Waiting(u, kind)
                                    - (IF u = t /\ kind = NextEvent(t).kind THEN 1 ELSE 0)
  <2>1. IsFiniteSet(Pending(u, kind)) /\ Waiting(u, kind) \in Nat
    BY PendingFinite
  <2>2. i \in Pending(t, kind) <=> kind = NextEvent(t).kind
    BY <1>1 DEF Pending
  <2>3. Cardinality(Pending(u, kind) \ {i})
          = IF i \in Pending(u, kind) THEN Cardinality(Pending(u, kind)) - 1
            ELSE Cardinality(Pending(u, kind))
    BY <2>1, FS_RemoveElement
  <2>4. CASE u = t
    BY <1>2, <2>1, <2>2, <2>3, <2>4, SMTT(40) DEF Waiting
  <2>5. CASE u # t
    <3>1. Pending(u, kind)' = Pending(u, kind)
      BY <1>2, <2>5
    <3> QED
      BY <2>1, <2>5, <3>1 DEF Waiting
  <2> QED
    BY <2>4, <2>5
<1> QED
  BY <1>3, <1>4

\* ... and after an event has been published.
LEMMA AppendCounts ==
  ASSUME LogOK, NEW ev \in Event, log' = Append(log, ev), cursor' = cursor
  PROVE  /\ \A kind : /\ OnBus(kind) \in Nat
                      /\ OnBus(kind)' = OnBus(kind) + (IF ev.kind = kind THEN 1 ELSE 0)
         /\ \A kind : \A u \in Tasks :
               /\ Waiting(u, kind) \in Nat
               /\ Waiting(u, kind)' = Waiting(u, kind)
                     + (IF ev.kind = kind /\ ev.kind \in Matched[u] THEN 1 ELSE 0)
<1> DEFINE n == Len(log) + 1
<1>1. /\ n \in Nat /\ \A i \in 1..Len(log) : i < n
      /\ \A kind : \A u \in Tasks :
            Pending(u, kind)' = Pending(u, kind)
               \cup (IF ev.kind = kind /\ ev.kind \in Matched[u] THEN {n} ELSE {})
      /\ \A kind : OfKind(kind)' = OfKind(kind) \cup (IF ev.kind = kind THEN {n} ELSE {})
  BY AppendAdds
<1> HIDE DEF n
<1>2. n \notin 1..Len(log)
  BY <1>1
<1>3. ASSUME NEW S, IsFiniteSet(S), S \subseteq 1..Len(log)
      PROVE  Cardinality(S) \in Nat /\ Cardinality(S \cup {n}) = Cardinality(S) + 1
  BY <1>2, <1>3, FS_AddElement, FS_CardinalityType
<1>4. ASSUME NEW kind
      PROVE  /\ OnBus(kind) \in Nat
             /\ OnBus(kind)' = OnBus(kind) + (IF ev.kind = kind THEN 1 ELSE 0)
  <2>1. /\ IsFiniteSet(OfKind(kind)) /\ OfKind(kind) \subseteq 1..Len(log)
        /\ OnBus(kind) \in Nat
    <3>1. "risk_engine" \in Tasks
      BY DEF Tasks
    <3> QED
      BY <3>1, PendingFinite
  <2>2. Cardinality(OfKind(kind) \cup {n}) = Cardinality(OfKind(kind)) + 1
    BY <1>3, <2>1
  <2>3. OfKind(kind)' = OfKind(kind) \cup (IF ev.kind = kind THEN {n} ELSE {})
    BY <1>1
  <2>4. CASE ev.kind = kind
    <3>1. OfKind(kind)' = OfKind(kind) \cup {n}
      BY <2>3, <2>4
    <3> QED
      BY <2>1, <2>2, <2>4, <3>1 DEF OnBus
  <2>5. CASE ev.kind # kind
    <3>1. OfKind(kind)' = OfKind(kind)
      BY <2>3, <2>5
    <3> QED
      BY <2>1, <2>5, <3>1 DEF OnBus
  <2> QED
    BY <2>4, <2>5
<1>5. ASSUME NEW kind, NEW u \in Tasks
      PROVE  /\ Waiting(u, kind) \in Nat
             /\ Waiting(u, kind)' = Waiting(u, kind)
                   + (IF ev.kind = kind /\ ev.kind \in Matched[u] THEN 1 ELSE 0)
  <2>1. /\ IsFiniteSet(Pending(u, kind)) /\ Pending(u, kind) \subseteq 1..Len(log)
        /\ Waiting(u, kind) \in Nat
    <3>1. Pending(u, kind) \subseteq Unhandled(u) /\ Unhandled(u) \subseteq 1..Len(log)
      BY PendingFinite
    <3> QED
      BY <3>1, PendingFinite
  <2>2. Cardinality(Pending(u, kind) \cup {n}) = Cardinality(Pending(u, kind)) + 1
    BY <1>3, <2>1
  <2>3. Pending(u, kind)' = Pending(u, kind)
           \cup (IF ev.kind = kind /\ ev.kind \in Matched[u] THEN {n} ELSE {})
    BY <1>1
  <2>4. CASE ev.kind = kind /\ ev.kind \in Matched[u]
    <3>1. Pending(u, kind)' = Pending(u, kind) \cup {n}
      BY <2>3, <2>4
    <3> QED
      BY <2>1, <2>2, <2>4, <3>1 DEF Waiting
  <2>5. CASE ~(ev.kind = kind /\ ev.kind \in Matched[u])
    <3>1. Pending(u, kind)' = Pending(u, kind)
      BY <2>3, <2>5
    <3> QED
      BY <2>1, <2>5, <3>1 DEF Waiting
  <2> QED
    BY <2>4, <2>5
<1> QED
  BY <1>4, <1>5

\* The tasks and what they match on, spelled out.
LEMMA TaskFacts ==
  /\ "risk_engine" \in Tasks /\ "execution_sim" \in Tasks /\ "portfolio_engine" \in Tasks
  /\ Matched["risk_engine"] = {"FastSignal", "Portfolio", "Market", "EdgeDecayReport"}
  /\ Matched["execution_sim"] = {"ApprovedTrade"}
  /\ Matched["portfolio_engine"] = {"Execution", "Market"}
BY DEF Tasks, Matched

\* The counts are natural numbers.
LEMMA CountTypes ==
  ASSUME LogOK
  PROVE  /\ \A kind : OnBus(kind) \in Nat
         /\ \A kind : \A u \in Tasks : Waiting(u, kind) \in Nat
BY PendingFinite, TaskFacts

\* The effects of a publication on what the invariant speaks of ...
LEMMA AppendEffect ==
  ASSUME LogOK, NEW ev \in Event, log' = Append(log, ev), cursor' = cursor
  PROVE  LET n == Len(log) + 1
             ApprovalsLeft == Pending("execution_sim", "ApprovedTrade")
             FillsLeft == Pending("portfolio_engine", "Execution")
             UpdatesLeft == Pending("risk_engine", "Portfolio")
         IN  /\ LogOK'
             /\ log'[n] = ev /\ \A i \in UpdatesLeft : log'[i] = log[i] /\ ~(n <= i)
             /\ ApprovalsLeft' = IF ev.kind = "ApprovedTrade" THEN ApprovalsLeft \cup {n} ELSE ApprovalsLeft
             /\ FillsLeft' = IF ev.kind = "Execution" THEN FillsLeft \cup {n} ELSE FillsLeft
             /\ UpdatesLeft' = IF ev.kind = "Portfolio" THEN UpdatesLeft \cup {n} ELSE UpdatesLeft
<1> DEFINE n == Len(log) + 1
<1>1. /\ LogOK'
      /\ n \in Nat /\ \A i \in 1..Len(log) : log'[i] = log[i] /\ i < n
      /\ log'[n] = ev
      /\ \A kind : \A u \in Tasks :
            Pending(u, kind)' = Pending(u, kind)
               \cup (IF ev.kind = kind /\ ev.kind \in Matched[u] THEN {n} ELSE {})
  BY AppendAdds
<1>2. Pending("risk_engine", "Portfolio") \subseteq 1..Len(log)
  BY PendingFinite, TaskFacts
<1>3. Len(log) \in Nat
  BY DEF LogOK
<1> HIDE DEF n
<1>4. \A i \in Pending("risk_engine", "Portfolio") : log'[i] = log[i] /\ ~(n <= i)
  BY <1>1, <1>2, <1>3
<1>5. ASSUME NEW u \in Tasks, NEW kind, kind \in Matched[u]
      PROVE  Pending(u, kind)' = IF ev.kind = kind THEN Pending(u, kind) \cup {n} ELSE Pending(u, kind)
  BY <1>1, <1>5
<1>6. /\ "ApprovedTrade" \in Matched["execution_sim"]
      /\ "Execution" \in Matched["portfolio_engine"]
      /\ "Portfolio" \in Matched["risk_engine"]
  BY TaskFacts
<1>7. Pending("execution_sim", "ApprovedTrade")' =
        IF ev.kind = "ApprovedTrade" THEN Pending("execution_sim", "ApprovedTrade") \cup {n}
        ELSE Pending("execution_sim", "ApprovedTrade")
  BY <1>5, <1>6, TaskFacts
<1>8. Pending("portfolio_engine", "Execution")' =
        IF ev.kind = "Execution" THEN Pending("portfolio_engine", "Execution") \cup {n}
        ELSE Pending("portfolio_engine", "Execution")
  BY <1>5, <1>6, TaskFacts
<1>9. Pending("risk_engine", "Portfolio")' =
        IF ev.kind = "Portfolio" THEN Pending("risk_engine", "Portfolio") \cup {n}
        ELSE Pending("risk_engine", "Portfolio")
  BY <1>5, <1>6, TaskFacts
<1> QED
  BY <1>1, <1>4, <1>7, <1>8, <1>9 DEF n

\* ... and on the counts.
LEMMA AppendTally ==
  ASSUME LogOK, NEW ev \in Event, log' = Append(log, ev), cursor' = cursor
  PROVE  /\ \A kind : OnBus(kind)' = OnBus(kind) + (IF ev.kind = kind THEN 1 ELSE 0)
         /\ Waiting("risk_engine", "FastSignal")' =
              Waiting("risk_engine", "FastSignal") + (IF ev.kind = "FastSignal" THEN 1 ELSE 0)
         /\ Waiting("execution_sim", "ApprovedTrade")' =
              Waiting("execution_sim", "ApprovedTrade") + (IF ev.kind = "ApprovedTrade" THEN 1 ELSE 0)
<1>1. ASSUME NEW u \in Tasks, NEW kind, kind \in Matched[u]
      PROVE  Waiting(u, kind)' = Waiting(u, kind) + (IF ev.kind = kind THEN 1 ELSE 0)
  <2>1. Waiting(u, kind)' = Waiting(u, kind)
                     + (IF ev.kind = kind /\ ev.kind \in Matched[u] THEN 1 ELSE 0)
    BY AppendCounts
  <2> QED
    BY <1>1, <2>1
<1>2. "ApprovedTrade" \in Matched["execution_sim"] /\ "FastSignal" \in Matched["risk_engine"]
  BY TaskFacts
<1>3. Waiting("risk_engine", "FastSignal")' =
        Waiting("risk_engine", "FastSignal") + (IF ev.kind = "FastSignal" THEN 1 ELSE 0)
  BY <1>1, <1>2, TaskFacts
<1>4. Waiting("execution_sim", "ApprovedTrade")' =
        Waiting("execution_sim", "ApprovedTrade") + (IF ev.kind = "ApprovedTrade" THEN 1 ELSE 0)
  BY <1>1, <1>2, TaskFacts
<1>5. \A kind : OnBus(kind)' = OnBus(kind) + (IF ev.kind = kind THEN 1 ELSE 0)
  BY AppendCounts
<1> QED
  BY <1>3, <1>4, <1>5

----------------------------------------------------------------------------
(***************************************************************************)
(* The invariant.                                                          *)
(*                                                                         *)
(* The books of the two engines differ while an approval, a fill or an     *)
(* update is under way; Settled says that none is.  That the last update   *)
(* on the bus is the last one published (LastUpdate) makes them agree once *)
(* it has been handled, and that a rejection restores the book exactly     *)
(* keeps them so.  The counts say where each signal and each approval is:  *)
(* waiting, in an outbox, or answered.                                     *)
(***************************************************************************)

Settled ==
  /\ Pending("execution_sim", "ApprovedTrade") = {}
  /\ Pending("portfolio_engine", "Execution") = {}
  /\ Pending("risk_engine", "Portfolio") = {}
  /\ outbox["execution_sim"] = <<>> /\ outbox["portfolio_engine"] = <<>>
  /\ ~(\E ev \in Approvals : outbox["risk_engine"] = <<ev>>)

Agreed == Settled => book = R!Synced(wire)

LastUpdate ==
  outbox["portfolio_engine"] = <<>> =>
    \A i \in Pending("risk_engine", "Portfolio") :
       (\A j \in Pending("risk_engine", "Portfolio") : j <= i) => log[i].update = wire

\* Every signal waits for the risk engine, is answered by what it is about to
\* publish, or has been answered.
SignalsCounted ==
  OnBus("FastSignal") = OnBus("ApprovedTrade") + OnBus("TradeRejected")
                        + Waiting("risk_engine", "FastSignal") + Len(outbox["risk_engine"])

\* Every approval waits for the simulator, is being executed, or has been executed.
TradesCounted ==
  OnBus("ApprovedTrade") = OnBus("Execution") + Waiting("execution_sim", "ApprovedTrade")
                           + (IF outbox["execution_sim"] = <<>> THEN 0 ELSE 1)

Engines ==
  /\ RP!IInv /\ RP!Covered(book)
  /\ PortfolioInv /\ wire \in AllUpdates

LoopInv ==
  /\ Engines
  /\ LogOK /\ OutboxOK
  /\ LastUpdate /\ Agreed
  /\ SignalsCounted /\ TradesCounted

\* The kind of an event tells what it carries.
LEMMA EventByKind ==
  ASSUME NEW ev \in Event
  PROVE  /\ ev.kind = "FastSignal" => ev.signal \in Signals
         /\ ev.kind = "Market" => ev.market_id \in Markets /\ ev.price \in Prices
         /\ ev.kind = "ApprovedTrade" => ev \in Approvals
         /\ ev.kind = "EdgeDecayReport" => ev.latency \in Reports
         /\ ev.kind = "Execution" => ev.result \in Fills
         /\ ev.kind = "Portfolio" => ev.update \in AllUpdates
BY DEF Event, Inputs, Approvals, Rejections, DecayReports, Executed, PortfolioEvents

\* Initially nothing has happened and the books are empty.
LEMMA LoopInit == Init => LoopInv
<1> SUFFICES ASSUME Init PROVE LoopInv
  OBVIOUS
<1>1. RP!IInv
  BY RiskOK, SameRiskInit, RP!InitIInv DEF Init
<1>2. PP!IInv
  BY PortfolioOK, SamePortfolioInit, PP!InitIInv DEF Init
<1>3. book = RP!Book(RP!EmptyMap, 0, RP!EmptyMap)
  BY SameRiskInit DEF Init, RP!Init
<1>4. wire = PP!ToPortfolioUpdate(st)
  BY SamePortfolioInit DEF Init, PP!Init
<1>5. wire \in AllUpdates
  <2>1. \A s : PP!Balanced(s) => PP!ToPortfolioUpdate(s) \in AllUpdates
    BY UpdateIsGood
  <2> QED
    BY <1>2, <1>4, <2>1 DEF PP!IInv
<1>6. RP!Covered(book)
  BY <1>3 DEF RP!Covered, RP!Book, RP!EmptyMap
<1>7. /\ log = <<>> /\ Len(log) = 0 /\ DOMAIN log = {}
      /\ cursor = [t \in Tasks |-> 0] /\ outbox = [t \in Tasks |-> <<>>]
  BY DEF Init
<1>8. LogOK
  BY <1>7 DEF LogOK
<1>9. OutboxOK
  BY <1>7, TaskFacts DEF OutboxOK
<1>10. \A kind : OfKind(kind) = {} /\ OnBus(kind) = 0
  BY <1>7, FS_EmptySet DEF OfKind, OnBus
<1>11. \A t \in Tasks : Unhandled(t) = {}
  BY <1>7 DEF Unhandled
<1>12. \A kind : \A t \in Tasks : Pending(t, kind) = {} /\ Waiting(t, kind) = 0
  BY <1>11, FS_EmptySet DEF Pending, Waiting
<1>13. SignalsCounted /\ TradesCounted
  BY <1>7, <1>10, <1>12, TaskFacts DEF SignalsCounted, TradesCounted
<1>14. LastUpdate
  BY <1>12, TaskFacts DEF LastUpdate
<1>15. book = R!Synced(wire)
  <2>1. DOMAIN wire.positions = {}
    <3>1. st = PP!NewState
      BY SamePortfolioInit DEF Init, PP!Init
    <3>2. DOMAIN st.positions = {}
      BY <3>1 DEF PP!NewState, PP!EmptyMap
    <3>3. DOMAIN wire.positions = DOMAIN st.positions
      BY <1>4 DEF PP!ToPortfolioUpdate
    <3> QED
      BY <3>2, <3>3
  <2> DEFINE p == [m \in DOMAIN wire.positions |->
                     RP!MinOf(wire.positions[m].size, MaxPositionFraction)]
             e == [c \in {Cluster[m] : m \in DOMAIN p} |->
                     RP!SumFunctionOnSet(p, RP!InCluster(p, c))]
  <2>2. p = RP!EmptyMap /\ e = RP!EmptyMap
    BY <2>1 DEF RP!EmptyMap
  <2>3. RP!SumFunction(RP!EmptyMap) = 0
    <3>1. RP!IInv
      BY <1>1
    <3>2. book.total_exposure = RP!SumFunction(book.positions)
      BY <1>1 DEF RP!IInv, RP!GoodBook
    <3> QED
      BY <1>3, <3>2 DEF RP!Book
  <2>4. RP!Synced(wire) = RP!Book(p, RP!SumFunction(p), e)
    BY DEF RP!Synced
  <2> QED
    BY <1>3, <2>2, <2>3, <2>4, SameSynced
<1>16. PP!WithinSize(st, MaxPositionFraction)
  <2>1. st = PP!NewState
    BY SamePortfolioInit DEF Init, PP!Init
  <2> QED
    BY <2>1 DEF PP!WithinSize, PP!NewState, PP!EmptyMap
<1> QED
  BY <1>1, <1>2, <1>5, <1>6, <1>8, <1>9, <1>13, <1>14, <1>15, <1>16 DEF LoopInv, Engines, PortfolioInv, Agreed

----------------------------------------------------------------------------
(***************************************************************************)
(* The steps.                                                              *)
(***************************************************************************)

\* Books that agree go on agreeing while neither changes and nothing settles.
LEMMA AgreedKept ==
  ASSUME Agreed, book' = book, wire' = wire, Settled' => Settled
  PROVE  Agreed'
BY DEF Agreed

\* Nothing is settled while the simulator or the portfolio engine has something
\* to publish.
LEMMA BusyAgrees ==
  ASSUME outbox'["execution_sim"] # <<>> \/ outbox'["portfolio_engine"] # <<>>
  PROVE  Agreed'
BY DEF Agreed, Settled

\* A signal or a price arrives.
LEMMA ArriveInv ==
  ASSUME LoopInv, NEW ev \in Inputs, Arrive(ev)
  PROVE  LoopInv'
<1>1. ev \in Event /\ ev.kind \in {"FastSignal", "Market"}
  BY DEF Event, Inputs
<1>2. /\ log' = Append(log, ev) /\ cursor' = cursor /\ outbox' = outbox
      /\ UNCHANGED riskVars /\ UNCHANGED portfolioVars
  BY DEF Arrive
<1>3. LogOK /\ OutboxOK /\ LastUpdate /\ Agreed /\ SignalsCounted /\ TradesCounted /\ Engines
  BY DEF LoopInv
<1>4. Engines' /\ book' = book /\ wire' = wire
  BY <1>2, <1>3, RiskStutter, PortfolioStutter DEF Engines, riskVars
<1>5. /\ LogOK'
      /\ \A i \in Pending("risk_engine", "Portfolio") : log'[i] = log[i]
      /\ Pending("execution_sim", "ApprovedTrade")' = Pending("execution_sim", "ApprovedTrade")
      /\ Pending("portfolio_engine", "Execution")' = Pending("portfolio_engine", "Execution")
      /\ Pending("risk_engine", "Portfolio")' = Pending("risk_engine", "Portfolio")
  <2>1. LET n == Len(log) + 1
            ApprovalsLeft == Pending("execution_sim", "ApprovedTrade")
            FillsLeft == Pending("portfolio_engine", "Execution")
            UpdatesLeft == Pending("risk_engine", "Portfolio")
        IN  /\ LogOK'
            /\ log'[n] = ev /\ \A i \in UpdatesLeft : log'[i] = log[i] /\ ~(n <= i)
            /\ ApprovalsLeft' = IF ev.kind = "ApprovedTrade" THEN ApprovalsLeft \cup {n} ELSE ApprovalsLeft
            /\ FillsLeft' = IF ev.kind = "Execution" THEN FillsLeft \cup {n} ELSE FillsLeft
            /\ UpdatesLeft' = IF ev.kind = "Portfolio" THEN UpdatesLeft \cup {n} ELSE UpdatesLeft
    BY <1>1, <1>2, <1>3, AppendEffect
  <2> QED
    BY <1>1, <2>1
<1>6. OutboxOK'
  BY <1>2, <1>3, <1>4 DEF OutboxOK
<1>7. LastUpdate'
  BY <1>2, <1>3, <1>4, <1>5 DEF LastUpdate
<1>8. Settled' => Settled
  BY <1>2, <1>5 DEF Settled
<1>9. Agreed'
  BY <1>3, <1>4, <1>8, AgreedKept
<1>10. SignalsCounted' /\ TradesCounted'
  <2>1. /\ \A kind : OnBus(kind) \in Nat
        /\ Waiting("risk_engine", "FastSignal") \in Nat
        /\ Waiting("execution_sim", "ApprovedTrade") \in Nat
        /\ Len(outbox["risk_engine"]) \in Nat
    BY <1>3, CountTypes, TaskFacts DEF OutboxOK
  <2>2. /\ \A kind : OnBus(kind)' = OnBus(kind) + (IF ev.kind = kind THEN 1 ELSE 0)
        /\ Waiting("risk_engine", "FastSignal")' =
             Waiting("risk_engine", "FastSignal") + (IF ev.kind = "FastSignal" THEN 1 ELSE 0)
        /\ Waiting("execution_sim", "ApprovedTrade")' =
             Waiting("execution_sim", "ApprovedTrade") + (IF ev.kind = "ApprovedTrade" THEN 1 ELSE 0)
    BY <1>1, <1>2, <1>3, AppendTally
  <2>3. PICK one \in Nat : one = IF ev.kind = "FastSignal" THEN 1 ELSE 0
    OBVIOUS
  <2>4. ev.kind # "ApprovedTrade" /\ ev.kind # "TradeRejected" /\ ev.kind # "Execution"
    BY <1>1
  <2>5. /\ OnBus("ApprovedTrade")' = OnBus("ApprovedTrade") + 0
        /\ OnBus("TradeRejected")' = OnBus("TradeRejected") + 0
        /\ OnBus("Execution")' = OnBus("Execution") + 0
        /\ OnBus("FastSignal")' = OnBus("FastSignal") + one
        /\ Waiting("risk_engine", "FastSignal")' = Waiting("risk_engine", "FastSignal") + one
        /\ Waiting("execution_sim", "ApprovedTrade")' = Waiting("execution_sim", "ApprovedTrade") + 0
    BY <2>2, <2>3, <2>4, Zenon
  <2>6. outbox' = outbox /\ SignalsCounted /\ TradesCounted
    BY <1>2, <1>3
  <2>7. SignalsCounted'
    <3>1. PICK left \in Nat : left = Len(outbox["risk_engine"])
      BY <2>1
    <3>2. /\ left = Len(outbox'["risk_engine"])
          /\ OnBus("FastSignal") = OnBus("ApprovedTrade") + OnBus("TradeRejected")
                                     + Waiting("risk_engine", "FastSignal") + left
      BY <2>6, <3>1, Zenon DEF SignalsCounted
    <3>3. OnBus("FastSignal")' = OnBus("ApprovedTrade")' + OnBus("TradeRejected")'
                                  + Waiting("risk_engine", "FastSignal")' + left
      BY <2>1, <2>5, <3>2, SMTT(40)
    <3> QED
      BY <3>2, <3>3, Zenon DEF SignalsCounted
  <2>8. TradesCounted'
    <3>1. PICK busy \in Nat : busy = IF outbox["execution_sim"] = <<>> THEN 0 ELSE 1
      OBVIOUS
    <3>2. /\ busy = (IF outbox["execution_sim"] = <<>> THEN 0 ELSE 1)'
          /\ OnBus("ApprovedTrade") =
               OnBus("Execution") + Waiting("execution_sim", "ApprovedTrade") + busy
      BY <2>6, <3>1, Zenon DEF TradesCounted
    <3>3. OnBus("ApprovedTrade")' =
            OnBus("Execution")' + Waiting("execution_sim", "ApprovedTrade")' + busy
      BY <2>1, <2>5, <3>2
    <3> QED
      BY <3>2, <3>3, Zenon DEF TradesCounted
  <2> QED
    BY <2>7, <2>8
<1> QED
  BY <1>4, <1>5, <1>6, <1>7, <1>9, <1>10 DEF LoopInv

\* What a publication by a task leaves as it is, and what it adds to the log.
LEMMA PublishEffect ==
  ASSUME LoopInv, NEW t \in Tasks, NEW ev \in Event, NEW rest \in Seq(Event),
         outbox[t] = <<ev>> \o rest, Publish(t)
  PROVE  /\ log' = Append(log, ev) /\ cursor' = cursor
         /\ outbox' = [outbox EXCEPT ![t] = rest] /\ outbox'[t] = rest
         /\ \A u \in Tasks \ {t} : outbox'[u] = outbox[u]
         /\ outbox' \in [Tasks -> Seq(Event)]
         /\ Engines' /\ book' = book /\ wire' = wire /\ LogOK'
<1>1. OutboxOK /\ LogOK /\ Engines
  BY DEF LoopInv
<1>2. outbox \in [Tasks -> Seq(Event)]
  BY <1>1 DEF OutboxOK
<1>3. Head(outbox[t]) = ev /\ Tail(outbox[t]) = rest
  OBVIOUS
<1>4. /\ log' = Append(log, ev) /\ cursor' = cursor
      /\ outbox' = [outbox EXCEPT ![t] = rest]
      /\ UNCHANGED riskVars /\ UNCHANGED portfolioVars
  BY <1>3 DEF Publish
<1>5. Engines' /\ book' = book /\ wire' = wire
  BY <1>1, <1>4, RiskStutter, PortfolioStutter DEF Engines, riskVars
<1>6. LogOK'
  BY <1>1, <1>4, AppendAdds
<1> QED
  BY <1>2, <1>4, <1>5, <1>6

\* The risk engine publishes its answer to a signal.
LEMMA RiskPublishes ==
  ASSUME LoopInv, Publish("risk_engine")
  PROVE  LoopInv'
<1>1. LogOK /\ OutboxOK /\ LastUpdate /\ Agreed /\ SignalsCounted /\ TradesCounted
  BY DEF LoopInv
<1>2. PICK ev \in Approvals \cup Rejections : outbox["risk_engine"] = <<ev>>
  BY <1>1 DEF OutboxOK, Publish
<1>3. ev \in Event /\ ev.kind = (IF ev \in Approvals THEN "ApprovedTrade" ELSE "TradeRejected")
  BY DEF Event, Approvals, Rejections
<1>4. outbox["risk_engine"] = <<ev>> \o <<>> /\ <<>> \in Seq(Event)
  BY <1>2, <1>3
<1>5. /\ log' = Append(log, ev) /\ cursor' = cursor
      /\ outbox'["risk_engine"] = <<>>
      /\ outbox'["execution_sim"] = outbox["execution_sim"]
      /\ outbox'["portfolio_engine"] = outbox["portfolio_engine"]
      /\ outbox' \in [Tasks -> Seq(Event)]
      /\ Engines' /\ book' = book /\ wire' = wire /\ LogOK'
  <2>1. "risk_engine" \in Tasks
    BY TaskFacts
  <2>2. /\ log' = Append(log, ev) /\ cursor' = cursor
        /\ outbox'["risk_engine"] = <<>>
        /\ \A u \in Tasks \ {"risk_engine"} : outbox'[u] = outbox[u]
        /\ outbox' \in [Tasks -> Seq(Event)]
        /\ Engines' /\ book' = book /\ wire' = wire /\ LogOK'
    BY <1>3, <1>4, <2>1, PublishEffect
  <2> QED
    BY <2>2, TaskFacts
<1>6. LET n == Len(log) + 1
          ApprovalsLeft == Pending("execution_sim", "ApprovedTrade")
          FillsLeft == Pending("portfolio_engine", "Execution")
          UpdatesLeft == Pending("risk_engine", "Portfolio")
      IN  /\ LogOK'
          /\ log'[n] = ev /\ \A i \in UpdatesLeft : log'[i] = log[i] /\ ~(n <= i)
          /\ ApprovalsLeft' = IF ev.kind = "ApprovedTrade" THEN ApprovalsLeft \cup {n} ELSE ApprovalsLeft
          /\ FillsLeft' = IF ev.kind = "Execution" THEN FillsLeft \cup {n} ELSE FillsLeft
          /\ UpdatesLeft' = IF ev.kind = "Portfolio" THEN UpdatesLeft \cup {n} ELSE UpdatesLeft
  BY <1>1, <1>3, <1>5, AppendEffect
<1>7. OutboxOK'
  BY <1>1, <1>5 DEF OutboxOK
<1>8. LastUpdate'
  BY <1>1, <1>3, <1>5, <1>6 DEF LastUpdate
<1>9. Agreed'
  <2>1. CASE ev \in Approvals
    <3>1. ~Settled'
      BY <1>3, <1>6, <2>1 DEF Settled
    <3> QED
      BY <3>1 DEF Agreed
  <2>2. CASE ev \notin Approvals
    <3>1. ~(\E a \in Approvals : outbox["risk_engine"] = <<a>>)
      BY <1>2, <2>2
    <3>2. Settled' => Settled
      BY <1>3, <1>5, <1>6, <2>2, <3>1 DEF Settled
    <3> QED
      BY <1>1, <1>5, <3>2, AgreedKept
  <2> QED
    BY <2>1, <2>2
<1>10. SignalsCounted' /\ TradesCounted'
  <2>1. /\ \A kind : OnBus(kind) \in Nat
        /\ Waiting("risk_engine", "FastSignal") \in Nat
        /\ Waiting("execution_sim", "ApprovedTrade") \in Nat
        /\ Len(outbox["risk_engine"]) = 1 /\ Len(outbox'["risk_engine"]) = 0
    BY <1>1, <1>2, <1>5, CountTypes, TaskFacts
  <2>2. /\ \A kind : OnBus(kind)' = OnBus(kind) + (IF ev.kind = kind THEN 1 ELSE 0)
        /\ Waiting("risk_engine", "FastSignal")' =
             Waiting("risk_engine", "FastSignal") + (IF ev.kind = "FastSignal" THEN 1 ELSE 0)
        /\ Waiting("execution_sim", "ApprovedTrade")' =
             Waiting("execution_sim", "ApprovedTrade") + (IF ev.kind = "ApprovedTrade" THEN 1 ELSE 0)
    BY <1>1, <1>3, <1>5, AppendTally
  <2>3. SignalsCounted'
    BY <1>1, <1>3, <2>1, <2>2 DEF SignalsCounted
  <2>4. TradesCounted'
    <3>1. outbox'["execution_sim"] = outbox["execution_sim"]
      BY <1>5
    <3>2. TradesCounted
      BY <1>1
    <3> QED
      BY <1>3, <2>1, <2>2, <3>1, <3>2 DEF TradesCounted
  <2> QED
    BY <2>3, <2>4
<1> QED
  BY <1>5, <1>7, <1>8, <1>9, <1>10 DEF LoopInv

\* The simulator publishes the next of what it has to publish for a trade.
LEMMA SimPublishes ==
  ASSUME LoopInv, Publish("execution_sim")
  PROVE  LoopInv'
<1>1. LogOK /\ OutboxOK /\ LastUpdate /\ Agreed /\ SignalsCounted /\ TradesCounted
  BY DEF LoopInv
<1>2. PICK ev \in Executed \cup DecayReports, rest \in Seq(Executed) :
        /\ outbox["execution_sim"] = <<ev>> \o rest
        /\ rest = <<>> \/ \E x \in Executed : rest = <<x>>
        /\ rest = <<>> <=> ev \in Executed
  <2>1. ASSUME NEW x \in Executed
        PROVE  <<x>> = <<x>> \o <<>> /\ <<>> \in Seq(Executed) /\ <<x>> \in Seq(Executed) /\ <<x>> # <<>>
    OBVIOUS
  <2>2. ASSUME NEW x \in Executed, NEW r \in DecayReports
        PROVE  <<r, x>> = <<r>> \o <<x>> /\ r \notin Executed
    <3>1. r.kind = "EdgeDecayReport" /\ \A y \in Executed : y.kind = "Execution"
      BY DEF Executed, DecayReports
    <3> QED
      BY <3>1
  <2>3. CASE \E x \in Executed : outbox["execution_sim"] = <<x>>
    BY <2>1, <2>3
  <2>4. CASE \E x \in Executed, r \in DecayReports : outbox["execution_sim"] = <<r, x>>
    BY <2>1, <2>2, <2>4
  <2> QED
    BY <1>1, <2>3, <2>4 DEF OutboxOK, Publish
<1>3. /\ ev \in Event
      /\ ev.kind = (IF ev \in Executed THEN "Execution" ELSE "EdgeDecayReport")
      /\ rest \in Seq(Event)
  <2>1. Executed \subseteq Event /\ DecayReports \subseteq Event
    BY DEF Event
  <2>2. ev.kind = (IF ev \in Executed THEN "Execution" ELSE "EdgeDecayReport")
    BY DEF Executed, DecayReports
  <2>3. ASSUME NEW S, NEW T, S \subseteq T, NEW q \in Seq(S) PROVE q \in Seq(T)
    <3>1. q = [i \in 1..Len(q) |-> q[i]] /\ Len(q) \in Nat /\ \A i \in 1..Len(q) : q[i] \in T
      BY <2>3
    <3> QED
      BY <3>1
  <2> QED
    BY <2>1, <2>2, <2>3
<1>4. /\ log' = Append(log, ev) /\ cursor' = cursor
      /\ outbox'["execution_sim"] = rest
      /\ outbox'["risk_engine"] = outbox["risk_engine"]
      /\ outbox'["portfolio_engine"] = outbox["portfolio_engine"]
      /\ outbox' \in [Tasks -> Seq(Event)]
      /\ Engines' /\ book' = book /\ wire' = wire /\ LogOK'
  <2>1. "execution_sim" \in Tasks
    BY TaskFacts
  <2>2. /\ log' = Append(log, ev) /\ cursor' = cursor
        /\ outbox'["execution_sim"] = rest
        /\ \A u \in Tasks \ {"execution_sim"} : outbox'[u] = outbox[u]
        /\ outbox' \in [Tasks -> Seq(Event)]
        /\ Engines' /\ book' = book /\ wire' = wire /\ LogOK'
    BY <1>2, <1>3, <2>1, PublishEffect
  <2> QED
    BY <2>2, TaskFacts
<1>5. LET n == Len(log) + 1
          ApprovalsLeft == Pending("execution_sim", "ApprovedTrade")
          FillsLeft == Pending("portfolio_engine", "Execution")
          UpdatesLeft == Pending("risk_engine", "Portfolio")
      IN  /\ LogOK'
          /\ log'[n] = ev /\ \A i \in UpdatesLeft : log'[i] = log[i] /\ ~(n <= i)
          /\ ApprovalsLeft' = IF ev.kind = "ApprovedTrade" THEN ApprovalsLeft \cup {n} ELSE ApprovalsLeft
          /\ FillsLeft' = IF ev.kind = "Execution" THEN FillsLeft \cup {n} ELSE FillsLeft
          /\ UpdatesLeft' = IF ev.kind = "Portfolio" THEN UpdatesLeft \cup {n} ELSE UpdatesLeft
  BY <1>1, <1>3, <1>4, AppendEffect
<1>6. OutboxOK'
  BY <1>1, <1>2, <1>4 DEF OutboxOK
<1>7. LastUpdate'
  BY <1>1, <1>3, <1>4, <1>5 DEF LastUpdate
<1>8. Agreed'
  <2>1. CASE ev \in Executed
    <3>1. ~Settled'
      BY <1>3, <1>5, <2>1 DEF Settled
    <3> QED
      BY <3>1 DEF Agreed
  <2>2. CASE ev \notin Executed
    BY <1>2, <1>4, <2>2, BusyAgrees
  <2> QED
    BY <2>1, <2>2
<1>9. SignalsCounted' /\ TradesCounted'
  <2>1. /\ \A kind : OnBus(kind) \in Nat
        /\ Waiting("risk_engine", "FastSignal") \in Nat
        /\ Waiting("execution_sim", "ApprovedTrade") \in Nat
        /\ Len(outbox["risk_engine"]) \in Nat
    BY <1>1, CountTypes, TaskFacts DEF OutboxOK
  <2>2. /\ \A kind : OnBus(kind)' = OnBus(kind) + (IF ev.kind = kind THEN 1 ELSE 0)
        /\ Waiting("risk_engine", "FastSignal")' =
             Waiting("risk_engine", "FastSignal") + (IF ev.kind = "FastSignal" THEN 1 ELSE 0)
        /\ Waiting("execution_sim", "ApprovedTrade")' =
             Waiting("execution_sim", "ApprovedTrade") + (IF ev.kind = "ApprovedTrade" THEN 1 ELSE 0)
    BY <1>1, <1>3, <1>4, AppendTally
  <2>3. SignalsCounted'
    <3>1. outbox'["risk_engine"] = outbox["risk_engine"]
      BY <1>4
    <3>2. SignalsCounted
      BY <1>1
    <3> QED
      BY <1>3, <2>1, <2>2, <3>1, <3>2 DEF SignalsCounted
  <2>4. TradesCounted'
    <3>1. outbox["execution_sim"] # <<>>
      BY DEF Publish
    <3>2. outbox'["execution_sim"] = <<>> <=> ev.kind = "Execution"
      BY <1>2, <1>3, <1>4
    <3>3. TradesCounted
      BY <1>1
    <3>4. ev.kind \in {"Execution", "EdgeDecayReport"}
      BY <1>3
    <3> QED
      BY <2>1, <2>2, <3>1, <3>2, <3>3, <3>4 DEF TradesCounted
  <2> QED
    BY <2>3, <2>4
<1> QED
  BY <1>4, <1>6, <1>7, <1>8, <1>9 DEF LoopInv

\* The portfolio engine publishes its update, which becomes the last one.
LEMMA PortfolioPublishes ==
  ASSUME LoopInv, Publish("portfolio_engine")
  PROVE  LoopInv'
<1>1. /\ LogOK /\ OutboxOK /\ LastUpdate /\ Agreed /\ SignalsCounted /\ TradesCounted
      /\ wire \in AllUpdates
  BY DEF LoopInv, Engines
<1>2. PICK ev : ev = [kind |-> "Portfolio", update |-> wire]
  OBVIOUS
<1>3. /\ ev \in Event /\ ev.kind = "Portfolio" /\ ev.update = wire
      /\ outbox["portfolio_engine"] = <<ev>>
  BY <1>1, <1>2 DEF Event, PortfolioEvents, OutboxOK, Publish
<1>4. /\ log' = Append(log, ev) /\ cursor' = cursor
      /\ outbox'["portfolio_engine"] = <<>>
      /\ outbox'["risk_engine"] = outbox["risk_engine"]
      /\ outbox'["execution_sim"] = outbox["execution_sim"]
      /\ outbox' \in [Tasks -> Seq(Event)]
      /\ Engines' /\ book' = book /\ wire' = wire /\ LogOK'
  <2>1. "portfolio_engine" \in Tasks
    BY TaskFacts
  <2>2. /\ outbox["portfolio_engine"] = <<ev>> \o <<>>
        /\ ev \in Event /\ <<>> \in Seq(Event)
    BY <1>3
  <2>3. /\ log' = Append(log, ev) /\ cursor' = cursor
        /\ outbox'["portfolio_engine"] = <<>>
        /\ \A u \in Tasks \ {"portfolio_engine"} : outbox'[u] = outbox[u]
        /\ outbox' \in [Tasks -> Seq(Event)]
        /\ Engines' /\ book' = book /\ wire' = wire /\ LogOK'
    BY <2>1, <2>2, PublishEffect
  <2> QED
    BY <2>3, TaskFacts
<1>5. LET n == Len(log) + 1
          ApprovalsLeft == Pending("execution_sim", "ApprovedTrade")
          FillsLeft == Pending("portfolio_engine", "Execution")
          UpdatesLeft == Pending("risk_engine", "Portfolio")
      IN  /\ LogOK'
          /\ log'[n] = ev /\ \A i \in UpdatesLeft : log'[i] = log[i] /\ ~(n <= i)
          /\ ApprovalsLeft' = IF ev.kind = "ApprovedTrade" THEN ApprovalsLeft \cup {n} ELSE ApprovalsLeft
          /\ FillsLeft' = IF ev.kind = "Execution" THEN FillsLeft \cup {n} ELSE FillsLeft
          /\ UpdatesLeft' = IF ev.kind = "Portfolio" THEN UpdatesLeft \cup {n} ELSE UpdatesLeft
  BY <1>1, <1>3, <1>4, AppendEffect
<1>6. OutboxOK'
  BY <1>1, <1>4 DEF OutboxOK
<1>7. LastUpdate'
  <2> DEFINE n == Len(log) + 1
             UpdatesLeft == Pending("risk_engine", "Portfolio")
  <2>1. UpdatesLeft' = UpdatesLeft \cup {n} /\ log'[n].update = wire /\ \A i \in UpdatesLeft : ~(n <= i)
    BY <1>3, <1>5
  <2>2. ASSUME NEW i \in UpdatesLeft', \A j \in UpdatesLeft' : j <= i PROVE log'[i].update = wire'
    <3>1. n <= i
      BY <2>1, <2>2
    <3> QED
      BY <1>4, <2>1, <2>2, <3>1
  <2> QED
    BY <2>2 DEF LastUpdate
<1>8. Agreed'
  <2>1. ~Settled'
    BY <1>3, <1>5 DEF Settled
  <2> QED
    BY <2>1 DEF Agreed
<1>9. SignalsCounted' /\ TradesCounted'
  <2>1. /\ \A kind : OnBus(kind) \in Nat
        /\ Waiting("risk_engine", "FastSignal") \in Nat
        /\ Waiting("execution_sim", "ApprovedTrade") \in Nat
        /\ Len(outbox["risk_engine"]) \in Nat
    BY <1>1, CountTypes, TaskFacts DEF OutboxOK
  <2>2. /\ \A kind : OnBus(kind)' = OnBus(kind) + (IF ev.kind = kind THEN 1 ELSE 0)
        /\ Waiting("risk_engine", "FastSignal")' =
             Waiting("risk_engine", "FastSignal") + (IF ev.kind = "FastSignal" THEN 1 ELSE 0)
        /\ Waiting("execution_sim", "ApprovedTrade")' =
             Waiting("execution_sim", "ApprovedTrade") + (IF ev.kind = "ApprovedTrade" THEN 1 ELSE 0)
    BY <1>1, <1>3, <1>4, AppendTally
  <2>3. /\ outbox'["risk_engine"] = outbox["risk_engine"]
        /\ outbox'["execution_sim"] = outbox["execution_sim"]
    BY <1>4
  <2>4. SignalsCounted /\ TradesCounted
    BY <1>1
  <2>5. SignalsCounted'
    BY <1>3, <2>1, <2>2, <2>3, <2>4 DEF SignalsCounted
  <2>6. TradesCounted'
    BY <1>3, <2>1, <2>2, <2>3, <2>4 DEF TradesCounted
  <2> QED
    BY <2>5, <2>6
<1> QED
  BY <1>4, <1>6, <1>7, <1>8, <1>9 DEF LoopInv

\* What a handler leaves of what the invariant speaks of ...
LEMMA TaskTakes ==
  ASSUME LogOK, NEW t \in Tasks, Unhandled(t) # {}, \E evs : Handle(t, evs)
  PROVE  LET i == Min(Unhandled(t))
             ApprovalsLeft == Pending("execution_sim", "ApprovedTrade")
             FillsLeft == Pending("portfolio_engine", "Execution")
             UpdatesLeft == Pending("risk_engine", "Portfolio")
         IN  /\ LogOK' /\ log' = log
             /\ NextEvent(t) = log[i] /\ log[i] \in Event /\ log[i].kind \in Matched[t]
             /\ ApprovalsLeft' = ApprovalsLeft \ (IF t = "execution_sim" THEN {i} ELSE {})
             /\ FillsLeft' = FillsLeft \ (IF t = "portfolio_engine" THEN {i} ELSE {})
             /\ UpdatesLeft' = UpdatesLeft \ (IF t = "risk_engine" THEN {i} ELSE {})
             /\ t = "risk_engine" => /\ \A j \in UpdatesLeft : i <= j
                                     /\ log[i].kind # "Portfolio" => i \notin UpdatesLeft
             /\ t = "portfolio_engine" /\ log[i].kind # "Execution" => i \notin FillsLeft
<1> DEFINE i == Min(Unhandled(t))
<1>1. PICK evs : Handle(t, evs)
  OBVIOUS
<1>2. /\ LogOK'
      /\ \A kind : \A u \in Tasks : Pending(u, kind)' = Pending(u, kind) \ (IF u = t THEN {i} ELSE {})
  BY <1>1, HandleTakes
<1>3. /\ NextEvent(t) = log[i] /\ log[i] \in Event /\ log[i].kind \in Matched[t]
      /\ \A j \in Unhandled(t) : i <= j
  BY NextIs
<1>4. log' = log
  BY <1>1 DEF Handle
<1> HIDE DEF i
<1>5. ASSUME NEW u \in Tasks, NEW kind
      PROVE  Pending(u, kind)' = Pending(u, kind) \ (IF t = u THEN {i} ELSE {})
  BY <1>2
<1>6. /\ Pending("execution_sim", "ApprovedTrade")' =
           Pending("execution_sim", "ApprovedTrade") \ (IF t = "execution_sim" THEN {i} ELSE {})
      /\ Pending("portfolio_engine", "Execution")' =
           Pending("portfolio_engine", "Execution") \ (IF t = "portfolio_engine" THEN {i} ELSE {})
      /\ Pending("risk_engine", "Portfolio")' =
           Pending("risk_engine", "Portfolio") \ (IF t = "risk_engine" THEN {i} ELSE {})
  BY <1>5, TaskFacts
<1>7. \A u \in Tasks : \A kind : \A j \in Pending(u, kind) : j \in Unhandled(u) /\ log[j].kind = kind
  BY DEF Pending
<1>8. t = "risk_engine" => /\ \A j \in Pending("risk_engine", "Portfolio") : i <= j
                           /\ log[i].kind # "Portfolio" => i \notin Pending("risk_engine", "Portfolio")
  BY <1>3, <1>7
<1>9. t = "portfolio_engine" /\ log[i].kind # "Execution" => i \notin Pending("portfolio_engine", "Execution")
  BY <1>7
<1> QED
  BY <1>2, <1>3, <1>4, <1>6, <1>8, <1>9 DEF i

\* ... and of the counts.
LEMMA TaskTally ==
  ASSUME LogOK, NEW t \in Tasks, Unhandled(t) # {}, \E evs : Handle(t, evs)
  PROVE  /\ \A kind : OnBus(kind)' = OnBus(kind)
         /\ Waiting("risk_engine", "FastSignal")' =
              Waiting("risk_engine", "FastSignal")
                - (IF t = "risk_engine" /\ NextEvent(t).kind = "FastSignal" THEN 1 ELSE 0)
         /\ Waiting("execution_sim", "ApprovedTrade")' =
              Waiting("execution_sim", "ApprovedTrade")
                - (IF t = "execution_sim" /\ NextEvent(t).kind = "ApprovedTrade" THEN 1 ELSE 0)
<1>1. PICK evs : Handle(t, evs)
  OBVIOUS
<1>2. ASSUME NEW u \in Tasks, NEW kind
      PROVE  Waiting(u, kind)' = Waiting(u, kind)
                                 - (IF t = u /\ NextEvent(t).kind = kind THEN 1 ELSE 0)
  <2>1. Waiting(u, kind)' = Waiting(u, kind)
                            - (IF u = t /\ kind = NextEvent(t).kind THEN 1 ELSE 0)
    BY <1>1, HandleCounts
  <2> QED
    BY <2>1
<1>3. \A kind : OnBus(kind)' = OnBus(kind)
  BY <1>1, HandleCounts
<1>4. Waiting("risk_engine", "FastSignal")' =
        Waiting("risk_engine", "FastSignal")
          - (IF t = "risk_engine" /\ NextEvent(t).kind = "FastSignal" THEN 1 ELSE 0)
  BY <1>2, TaskFacts
<1>5. Waiting("execution_sim", "ApprovedTrade")' =
        Waiting("execution_sim", "ApprovedTrade")
          - (IF t = "execution_sim" /\ NextEvent(t).kind = "ApprovedTrade" THEN 1 ELSE 0)
  BY <1>2, TaskFacts
<1> QED
  BY <1>3, <1>4, <1>5

\* The last update waiting stays the last, whatever is handled.
LEMMA LastUpdateKept ==
  ASSUME LogOK, LastUpdate, NEW t \in Tasks, Unhandled(t) # {}, \E evs : Handle(t, evs),
         outbox'["portfolio_engine"] = <<>> => outbox["portfolio_engine"] = <<>> /\ wire' = wire
  PROVE  LastUpdate'
<1> DEFINE i == Min(Unhandled(t))
           UpdatesLeft == Pending("risk_engine", "Portfolio")
<1>1. /\ log' = log
      /\ UpdatesLeft' = UpdatesLeft \ (IF t = "risk_engine" THEN {i} ELSE {})
      /\ t = "risk_engine" => \A j \in UpdatesLeft : i <= j
  <2>1. LET n == Min(Unhandled(t))
            ApprovalsLeft == Pending("execution_sim", "ApprovedTrade")
            FillsLeft == Pending("portfolio_engine", "Execution")
            Left == Pending("risk_engine", "Portfolio")
        IN  /\ LogOK' /\ log' = log
            /\ NextEvent(t) = log[n] /\ log[n] \in Event /\ log[n].kind \in Matched[t]
            /\ ApprovalsLeft' = ApprovalsLeft \ (IF t = "execution_sim" THEN {n} ELSE {})
            /\ FillsLeft' = FillsLeft \ (IF t = "portfolio_engine" THEN {n} ELSE {})
            /\ Left' = Left \ (IF t = "risk_engine" THEN {n} ELSE {})
            /\ t = "risk_engine" => /\ \A j \in Left : n <= j
                                    /\ log[n].kind # "Portfolio" => n \notin Left
            /\ t = "portfolio_engine" /\ log[n].kind # "Execution" => n \notin FillsLeft
    BY TaskTakes
  <2> QED
    BY <2>1
<1> HIDE DEF i
<1>2. ASSUME outbox'["portfolio_engine"] = <<>>, NEW k \in UpdatesLeft', \A j \in UpdatesLeft' : j <= k
      PROVE  log'[k].update = wire'
  <2>1. k \in UpdatesLeft /\ \A j \in UpdatesLeft : j <= k
    BY <1>1, <1>2
  <2>2. outbox["portfolio_engine"] = <<>> /\ wire' = wire
    BY <1>2
  <2>3. log[k].update = wire
    BY <2>1, <2>2 DEF LastUpdate
  <2> QED
    BY <1>1, <2>2, <2>3
<1> QED
  BY <1>2 DEF LastUpdate

\* The risk engine handles an event: it answers a signal, takes over an update,
\* or notes a price or a delay.
LEMMA RiskHandlesInv ==
  ASSUME LoopInv, RiskHandles
  PROVE  LoopInv'
<1> DEFINE i == Min(Unhandled("risk_engine"))
           ev == log[i]
           UpdatesLeft == Pending("risk_engine", "Portfolio")
<1>1. /\ LogOK /\ OutboxOK /\ LastUpdate /\ Agreed /\ SignalsCounted /\ TradesCounted
      /\ Engines /\ RP!IInv /\ RP!Covered(book)
  BY DEF LoopInv, Engines
<1>2. /\ Unhandled("risk_engine") # {} /\ outbox["risk_engine"] = <<>>
      /\ \E evs : Handle("risk_engine", evs)
      /\ UNCHANGED portfolioVars
  BY DEF RiskHandles, Ready
<1>3. /\ LogOK' /\ log' = log
      /\ NextEvent("risk_engine") = ev /\ ev \in Event
      /\ ev.kind \in {"FastSignal", "Portfolio", "Market", "EdgeDecayReport"}
      /\ Pending("execution_sim", "ApprovedTrade")' = Pending("execution_sim", "ApprovedTrade")
      /\ Pending("portfolio_engine", "Execution")' = Pending("portfolio_engine", "Execution")
      /\ UpdatesLeft' = UpdatesLeft \ {i}
      /\ \A j \in UpdatesLeft : i <= j
      /\ ev.kind # "Portfolio" => i \notin UpdatesLeft
  <2>1. LET t == "risk_engine"
            n == Min(Unhandled(t))
            ApprovalsLeft == Pending("execution_sim", "ApprovedTrade")
            FillsLeft == Pending("portfolio_engine", "Execution")
            Left == Pending("risk_engine", "Portfolio")
        IN  /\ LogOK' /\ log' = log
            /\ NextEvent(t) = log[n] /\ log[n] \in Event /\ log[n].kind \in Matched[t]
            /\ ApprovalsLeft' = ApprovalsLeft \ (IF t = "execution_sim" THEN {n} ELSE {})
            /\ FillsLeft' = FillsLeft \ (IF t = "portfolio_engine" THEN {n} ELSE {})
            /\ Left' = Left \ (IF t = "risk_engine" THEN {n} ELSE {})
            /\ t = "risk_engine" => /\ \A j \in Left : n <= j
                                    /\ log[n].kind # "Portfolio" => n \notin Left
            /\ t = "portfolio_engine" /\ log[n].kind # "Execution" => n \notin FillsLeft
    BY <1>1, <1>2, TaskTakes, TaskFacts
  <2> QED
    BY <2>1, TaskFacts
<1>4. PICK evs :
        /\ Handle("risk_engine", evs)
        /\ \/ ev.kind = "FastSignal" /\ R!OnRoutedSignal(ev.signal) /\ evs = <<out'>>
           \/ ev.kind = "Portfolio" /\ R!OnPortfolio(ev.update) /\ evs = <<>>
           \/ ev.kind = "Market" /\ R!OnMarket(ev.market_id, TRUE) /\ evs = <<>>
           \/ ev.kind = "EdgeDecayReport" /\ R!OnEdgeDecayReport(ev.latency) /\ evs = <<>>
  BY <1>3 DEF RiskHandles
<1>5. /\ ev.kind = "FastSignal" => ev.signal \in Signals
      /\ ev.kind = "Market" => ev.market_id \in Markets
      /\ ev.kind = "EdgeDecayReport" => ev.latency \in Reports
      /\ ev.kind = "Portfolio" => ev.update \in AllUpdates
  BY <1>3, EventByKind
<1> HIDE DEF ev
<1>6. /\ outbox' = [outbox EXCEPT !["risk_engine"] = evs]
      /\ outbox'["risk_engine"] = evs
      /\ outbox'["execution_sim"] = outbox["execution_sim"]
      /\ outbox'["portfolio_engine"] = outbox["portfolio_engine"]
  BY <1>1, <1>4, TaskFacts DEF Handle, OutboxOK
<1>7. PortfolioInv' /\ wire' = wire /\ wire' \in AllUpdates
  BY <1>1, <1>2, PortfolioStutter DEF Engines
<1>8. /\ RP!IInv' /\ RP!Covered(book')
      /\ \/ /\ ev.kind = "FastSignal"
            /\ \/ \E a \in Approvals : evs = <<a>>
               \/ (\E r \in Rejections : evs = <<r>>) /\ book' = book
         \/ ev.kind = "Portfolio" /\ evs = <<>> /\ book' = R!Synced(ev.update)
         \/ ev.kind \in {"Market", "EdgeDecayReport"} /\ evs = <<>> /\ book' = book
  <2>1. CASE ev.kind = "FastSignal" /\ R!OnRoutedSignal(ev.signal) /\ evs = <<out'>>
    <3>1. PICK sig \in Signals : sig = ev.signal
      BY <1>5, <2>1
    <3>2. R!OnRoutedSignal(sig)
      BY <2>1, <3>1
    <3>3. /\ RP!IInv' /\ RP!Covered(book')
          /\ out' \in Approvals \/ (out' \in Rejections /\ book' = book)
      BY <1>1, <3>2, SignalStep
    <3> QED
      BY <2>1, <3>3
  <2>2. CASE ev.kind = "Portfolio" /\ R!OnPortfolio(ev.update) /\ evs = <<>>
    <3>1. PICK pu \in AllUpdates : pu = ev.update
      BY <1>5, <2>2
    <3>2. R!OnPortfolio(pu)
      BY <2>2, <3>1
    <3>3. RP!IInv' /\ RP!Covered(book') /\ book' = R!Synced(pu)
      BY <1>1, <3>2, UpdateStep
    <3> QED
      BY <2>2, <3>1, <3>3
  <2>3. CASE \/ ev.kind = "Market" /\ R!OnMarket(ev.market_id, TRUE) /\ evs = <<>>
             \/ ev.kind = "EdgeDecayReport" /\ R!OnEdgeDecayReport(ev.latency) /\ evs = <<>>
    <3>1. \/ \E m \in Markets : R!OnMarket(m, TRUE)
          \/ \E latency \in Reports : R!OnEdgeDecayReport(latency)
      BY <1>5, <2>3
    <3>2. RP!IInv' /\ book' = book
      BY <1>1, <3>1, OtherStep
    <3> QED
      BY <1>1, <2>3, <3>2
  <2> QED
    BY <1>4, <2>1, <2>2, <2>3
<1>9. Engines'
  BY <1>7, <1>8 DEF Engines
<1>10. OutboxOK'
  <2>1. evs = <<>> \/ \E x \in Approvals \cup Rejections : evs = <<x>>
    BY <1>8
  <2>2. evs \in Seq(Event)
    <3>1. Approvals \cup Rejections \subseteq Event
      BY DEF Event
    <3>2. <<>> \in Seq(Event) /\ \A x \in Event : <<x>> \in Seq(Event)
      OBVIOUS
    <3> QED
      BY <2>1, <3>1, <3>2
  <2>3. outbox' \in [Tasks -> Seq(Event)]
    BY <1>1, <1>6, <2>2 DEF OutboxOK
  <2> QED
    BY <1>1, <1>6, <1>7, <2>1, <2>3 DEF OutboxOK
<1>11. LastUpdate'
  BY <1>1, <1>2, <1>6, <1>7, LastUpdateKept, TaskFacts
<1>12. Agreed'
  <2>1. CASE \E a \in Approvals : evs = <<a>>
    BY <1>6, <2>1 DEF Agreed, Settled
  <2>2. CASE ev.kind # "Portfolio" /\ book' = book
    <3>1. UpdatesLeft' = UpdatesLeft
      BY <1>3, <2>2
    <3>2. ~(\E a \in Approvals : outbox["risk_engine"] = <<a>>)
      BY <1>2
    <3>3. Settled' => Settled
      BY <1>3, <1>6, <3>1, <3>2 DEF Settled
    <3> QED
      BY <1>1, <1>7, <2>2, <3>3, AgreedKept
  <2>3. CASE ev.kind = "Portfolio" /\ book' = R!Synced(ev.update)
    <3>1. ASSUME Settled' PROVE book' = R!Synced(wire')
      <4>1. UpdatesLeft \ {i} = {} /\ outbox["portfolio_engine"] = <<>>
        BY <1>3, <1>6, <3>1 DEF Settled
      <4>2. i \in UpdatesLeft
        <5>1. i \in Unhandled("risk_engine")
          BY <1>1, <1>2, NextIs, TaskFacts
        <5> QED
          BY <2>3, <5>1 DEF Pending, ev
      <4>3. \A j \in UpdatesLeft : j = i
        BY <4>1
      <4>4. i <= i
        BY <1>3, <4>2
      <4>5. log[i].update = wire
        BY <1>1, <4>1, <4>2, <4>3, <4>4 DEF LastUpdate
      <4> QED
        BY <1>7, <2>3, <4>5 DEF ev
    <3> QED
      BY <3>1 DEF Agreed
  <2> QED
    BY <1>8, <2>1, <2>2, <2>3
<1>13. SignalsCounted' /\ TradesCounted'
  <2>1. /\ \A kind : OnBus(kind) \in Nat
        /\ Waiting("risk_engine", "FastSignal") \in Nat
        /\ Waiting("execution_sim", "ApprovedTrade") \in Nat
        /\ Len(outbox["risk_engine"]) = 0
    BY <1>1, <1>2, CountTypes, TaskFacts
  <2>2. /\ \A kind : OnBus(kind)' = OnBus(kind)
        /\ Waiting("risk_engine", "FastSignal")' =
             Waiting("risk_engine", "FastSignal") - (IF ev.kind = "FastSignal" THEN 1 ELSE 0)
        /\ Waiting("execution_sim", "ApprovedTrade")' = Waiting("execution_sim", "ApprovedTrade")
    <3>1. LET t == "risk_engine"
          IN  /\ \A kind : OnBus(kind)' = OnBus(kind)
              /\ Waiting("risk_engine", "FastSignal")' =
                   Waiting("risk_engine", "FastSignal")
                     - (IF t = "risk_engine" /\ NextEvent(t).kind = "FastSignal" THEN 1 ELSE 0)
              /\ Waiting("execution_sim", "ApprovedTrade")' =
                   Waiting("execution_sim", "ApprovedTrade")
                     - (IF t = "execution_sim" /\ NextEvent(t).kind = "ApprovedTrade" THEN 1 ELSE 0)
      BY <1>1, <1>2, TaskTally, TaskFacts
    <3> QED
      BY <1>3, <2>1, <3>1
  <2>3. Len(outbox'["risk_engine"]) = IF ev.kind = "FastSignal" THEN 1 ELSE 0
    <3>1. CASE ev.kind = "FastSignal"
      <4>1. \E x : evs = <<x>>
        BY <1>8, <3>1
      <4> QED
        BY <1>6, <3>1, <4>1
    <3>2. CASE ev.kind # "FastSignal"
      <4>1. evs = <<>>
        BY <1>8, <3>2
      <4> QED
        BY <1>6, <3>2, <4>1
    <3> QED
      BY <3>1, <3>2
  <2>4. SignalsCounted'
    <3>1. SignalsCounted
      BY <1>1
    <3> QED
      BY <2>1, <2>2, <2>3, <3>1 DEF SignalsCounted
  <2>5. TradesCounted'
    <3>1. TradesCounted /\ outbox'["execution_sim"] = outbox["execution_sim"]
      BY <1>1, <1>6
    <3> QED
      BY <2>2, <3>1 DEF TradesCounted
  <2> QED
    BY <2>4, <2>5
<1> QED
  BY <1>3, <1>9, <1>10, <1>11, <1>12, <1>13 DEF LoopInv

\* What the simulator publishes for a trade: the report, for the trade is
\* filled, and the result.
LEMMA SentForTrade ==
  ASSUME NEW trade \in Approvals, NEW result \in Results(trade), NEW latency \in Reports
  PROVE  \E x \in Executed, r \in DecayReports :
            Sent(result, latency) = <<r, x>> /\ x.result.trade = trade
<1>1. /\ trade.approved_fraction \in 1..MaxPositionFraction /\ trade.signal \in Signals
      /\ MaxPositionFraction \in Nat
  BY RiskOK DEF Approvals, RP!RiskConstants
<1>2. PICK n \in FillsOf(trade.approved_fraction), p \in AvgPrices(trade.signal.market_prob) :
        result = [trade |-> trade, filled |-> n > 0, executed_quantity |-> n, avg_price |-> p]
  BY DEF Results
<1>3. n \in 0..MaxPositionFraction /\ n > 0 /\ p \in Nat
  <2>1. n \in 0..trade.approved_fraction /\ n * 100 >= MinFill * trade.approved_fraction
    BY <1>2 DEF FillsOf
  <2>2. p \in Nat
    BY SimConstants DEF AvgPrices
  <2>3. MinFill \in Nat /\ MinFill >= 1
    BY SimConstants
  <2>4. MinFill * trade.approved_fraction >= 1
    BY <1>1, <2>3
  <2>5. n * 100 >= 1
    <3> DEFINE most == MinFill * trade.approved_fraction
    <3>1. most \in Nat /\ most >= 1 /\ n * 100 >= most /\ n \in Int
      BY <1>1, <2>1, <2>3, <2>4
    <3> HIDE DEF most
    <3> QED
      BY <3>1
  <2>6. n \in 0..MaxPositionFraction /\ n > 0
    BY <1>1, <2>1, <2>5
  <2> QED
    BY <2>2, <2>6
<1>4. result = [trade |-> trade, filled |-> TRUE, executed_quantity |-> n, avg_price |-> p]
  BY <1>2, <1>3
<1>5. result \in Fills
  BY <1>3, <1>4 DEF Fills
<1>6. result.filled
  BY <1>4
<1>7. /\ [kind |-> "Execution", result |-> result] \in Executed
      /\ [kind |-> "EdgeDecayReport", latency |-> latency] \in DecayReports
  BY <1>5 DEF Executed, DecayReports
<1>8. Sent(result, latency) = <<[kind |-> "EdgeDecayReport", latency |-> latency]>>
                              \o <<[kind |-> "Execution", result |-> result]>>
  BY <1>6 DEF Sent
<1>9. ASSUME NEW x \in Executed, NEW r \in DecayReports
      PROVE  <<r, x>> = <<r>> \o <<x>>
  OBVIOUS
<1>10. [kind |-> "Execution", result |-> result].result.trade = trade
  BY <1>4
<1> QED
  BY <1>7, <1>8, <1>9, <1>10

\* The simulator takes a trade.
LEMMA SimHandlesInv ==
  ASSUME LoopInv, SimHandles
  PROVE  LoopInv'
<1> DEFINE ev == NextEvent("execution_sim")
<1>1. /\ LogOK /\ OutboxOK /\ LastUpdate /\ Agreed /\ SignalsCounted /\ TradesCounted /\ Engines
  BY DEF LoopInv
<1>2. /\ Unhandled("execution_sim") # {} /\ outbox["execution_sim"] = <<>>
      /\ \E evs : Handle("execution_sim", evs)
      /\ UNCHANGED riskVars /\ UNCHANGED portfolioVars
  BY DEF SimHandles, Ready
<1>3. LogOK' /\ ev \in Event /\ ev.kind = "ApprovedTrade"
  <2>1. LET t == "execution_sim"
            n == Min(Unhandled(t))
            ApprovalsLeft == Pending("execution_sim", "ApprovedTrade")
            FillsLeft == Pending("portfolio_engine", "Execution")
            Left == Pending("risk_engine", "Portfolio")
        IN  /\ LogOK' /\ log' = log
            /\ NextEvent(t) = log[n] /\ log[n] \in Event /\ log[n].kind \in Matched[t]
            /\ ApprovalsLeft' = ApprovalsLeft \ (IF t = "execution_sim" THEN {n} ELSE {})
            /\ FillsLeft' = FillsLeft \ (IF t = "portfolio_engine" THEN {n} ELSE {})
            /\ Left' = Left \ (IF t = "risk_engine" THEN {n} ELSE {})
            /\ t = "risk_engine" => /\ \A j \in Left : n <= j
                                    /\ log[n].kind # "Portfolio" => n \notin Left
            /\ t = "portfolio_engine" /\ log[n].kind # "Execution" => n \notin FillsLeft
    BY <1>1, <1>2, TaskTakes, TaskFacts
  <2> QED
    BY <2>1, TaskFacts
<1>4. PICK evs : /\ Handle("execution_sim", evs)
                 /\ \E x \in Executed, r \in DecayReports : evs = <<r, x>>
  <2>1. PICK result \in Results(ev), latency \in Reports : Handle("execution_sim", Sent(result, latency))
    BY DEF SimHandles
  <2>2. PICK trade \in Approvals : trade = ev
    BY <1>3, EventByKind
  <2>3. result \in Results(trade)
    BY <2>1, <2>2
  <2>4. \E x \in Executed, r \in DecayReports : Sent(result, latency) = <<r, x>>
    BY <2>3, SentForTrade
  <2> QED
    BY <2>1, <2>4
<1> HIDE DEF ev
<1>5. evs \in Seq(Event) /\ evs # <<>>
  <2>1. Executed \subseteq Event /\ DecayReports \subseteq Event
    BY DEF Event
  <2>2. \A x, y \in Event : <<x, y>> \in Seq(Event) /\ <<x, y>> # <<>>
    OBVIOUS
  <2> QED
    BY <1>4, <2>1, <2>2
<1>6. /\ outbox' \in [Tasks -> Seq(Event)]
      /\ outbox'["execution_sim"] = evs
      /\ outbox'["risk_engine"] = outbox["risk_engine"]
      /\ outbox'["portfolio_engine"] = outbox["portfolio_engine"]
  BY <1>1, <1>4, <1>5, TaskFacts DEF Handle, OutboxOK
<1>7. Engines' /\ wire' = wire
  BY <1>1, <1>2, RiskStutter, PortfolioStutter DEF Engines, riskVars
<1>8. OutboxOK'
  BY <1>1, <1>4, <1>6, <1>7 DEF OutboxOK
<1>9. LastUpdate'
  BY <1>1, <1>2, <1>6, <1>7, LastUpdateKept, TaskFacts
<1>10. Agreed'
  BY <1>5, <1>6, BusyAgrees
<1>11. SignalsCounted' /\ TradesCounted'
  <2>1. /\ \A kind : OnBus(kind) \in Nat
        /\ Waiting("risk_engine", "FastSignal") \in Nat
        /\ Waiting("execution_sim", "ApprovedTrade") \in Nat
    BY <1>1, CountTypes, TaskFacts
  <2>2. /\ \A kind : OnBus(kind)' = OnBus(kind)
        /\ Waiting("risk_engine", "FastSignal")' = Waiting("risk_engine", "FastSignal")
        /\ Waiting("execution_sim", "ApprovedTrade")' = Waiting("execution_sim", "ApprovedTrade") - 1
    <3>1. LET t == "execution_sim"
          IN  /\ \A kind : OnBus(kind)' = OnBus(kind)
              /\ Waiting("risk_engine", "FastSignal")' =
                   Waiting("risk_engine", "FastSignal")
                     - (IF t = "risk_engine" /\ NextEvent(t).kind = "FastSignal" THEN 1 ELSE 0)
              /\ Waiting("execution_sim", "ApprovedTrade")' =
                   Waiting("execution_sim", "ApprovedTrade")
                     - (IF t = "execution_sim" /\ NextEvent(t).kind = "ApprovedTrade" THEN 1 ELSE 0)
      BY <1>1, <1>2, TaskTally, TaskFacts
    <3> QED
      BY <1>3, <2>1, <3>1 DEF ev
  <2>3. SignalsCounted'
    <3>1. SignalsCounted /\ outbox'["risk_engine"] = outbox["risk_engine"]
      BY <1>1, <1>6
    <3> QED
      BY <2>2, <3>1 DEF SignalsCounted
  <2>4. TradesCounted'
    <3>1. TradesCounted /\ outbox["execution_sim"] = <<>> /\ outbox'["execution_sim"] # <<>>
      BY <1>1, <1>2, <1>5, <1>6
    <3> QED
      BY <2>1, <2>2, <3>1 DEF TradesCounted
  <2> QED
    BY <2>3, <2>4
<1> QED
  BY <1>3, <1>7, <1>8, <1>9, <1>10, <1>11 DEF LoopInv

\* The portfolio engine books a fill or marks a price, and may publish the update.
LEMMA PortfolioHandlesInv ==
  ASSUME LoopInv, PortfolioHandles
  PROVE  LoopInv'
<1> DEFINE i == Min(Unhandled("portfolio_engine"))
           ev == log[i]
<1>1. /\ LogOK /\ OutboxOK /\ LastUpdate /\ Agreed /\ SignalsCounted /\ TradesCounted
      /\ Engines /\ RP!IInv /\ RP!Covered(book) /\ PortfolioInv /\ wire \in AllUpdates
  BY DEF LoopInv, Engines
<1>2. /\ Unhandled("portfolio_engine") # {} /\ outbox["portfolio_engine"] = <<>>
      /\ \E evs : Handle("portfolio_engine", evs)
      /\ UNCHANGED riskVars
  BY DEF PortfolioHandles, Ready
<1>3. /\ LogOK' /\ log' = log
      /\ NextEvent("portfolio_engine") = ev /\ ev \in Event
      /\ ev.kind \in {"Execution", "Market"}
      /\ Pending("execution_sim", "ApprovedTrade")' = Pending("execution_sim", "ApprovedTrade")
      /\ Pending("risk_engine", "Portfolio")' = Pending("risk_engine", "Portfolio")
      /\ ev.kind = "Market" =>
           Pending("portfolio_engine", "Execution")' = Pending("portfolio_engine", "Execution")
  <2>1. LET t == "portfolio_engine"
            n == Min(Unhandled(t))
            ApprovalsLeft == Pending("execution_sim", "ApprovedTrade")
            FillsLeft == Pending("portfolio_engine", "Execution")
            Left == Pending("risk_engine", "Portfolio")
        IN  /\ LogOK' /\ log' = log
            /\ NextEvent(t) = log[n] /\ log[n] \in Event /\ log[n].kind \in Matched[t]
            /\ ApprovalsLeft' = ApprovalsLeft \ (IF t = "execution_sim" THEN {n} ELSE {})
            /\ FillsLeft' = FillsLeft \ (IF t = "portfolio_engine" THEN {n} ELSE {})
            /\ Left' = Left \ (IF t = "risk_engine" THEN {n} ELSE {})
            /\ t = "risk_engine" => /\ \A j \in Left : n <= j
                                    /\ log[n].kind # "Portfolio" => n \notin Left
            /\ t = "portfolio_engine" /\ log[n].kind # "Execution" => n \notin FillsLeft
    BY <1>1, <1>2, TaskTakes, TaskFacts
  <2> QED
    BY <2>1, TaskFacts
<1>4. /\ ev.kind = "Execution" => ev.result \in Fills
      /\ ev.kind = "Market" => ev.market_id \in Markets /\ ev.price \in Prices
  BY <1>3, EventByKind
<1>5. PICK evs :
        /\ Handle("portfolio_engine", evs)
        /\ \/ /\ ev.kind = "Execution" /\ P!OnExecution(AsExecution(ev.result))
              /\ evs = IF ev.result.filled THEN <<PortfolioEvent>> ELSE <<>>
           \/ /\ ev.kind = "Market" /\ P!OnMarket(ev.market_id, ev.price)
              /\ evs = IF now - last_mtm_publish >= MtmInterval THEN <<PortfolioEvent>> ELSE <<>>
  BY <1>3 DEF PortfolioHandles
<1> HIDE DEF ev, i
<1>6. /\ PortfolioInv' /\ wire' \in AllUpdates
      /\ \/ evs = <<PortfolioEvent>>
         \/ evs = <<>> /\ ev.kind = "Market" /\ wire' = wire
  <2>1. CASE /\ ev.kind = "Execution" /\ P!OnExecution(AsExecution(ev.result))
             /\ evs = IF ev.result.filled THEN <<PortfolioEvent>> ELSE <<>>
    <3>1. PICK result \in Fills : result = ev.result
      BY <1>4, <2>1
    <3>2. P!OnExecution(AsExecution(result))
      BY <2>1, <3>1
    <3>3. PortfolioInv' /\ wire' \in AllUpdates
      BY <1>1, <3>2, FillStep
    <3>4. result.filled
      BY DEF Fills
    <3> QED
      BY <2>1, <3>1, <3>3, <3>4
  <2>2. CASE /\ ev.kind = "Market" /\ P!OnMarket(ev.market_id, ev.price)
             /\ evs = IF now - last_mtm_publish >= MtmInterval THEN <<PortfolioEvent>> ELSE <<>>
    <3>1. PICK m \in Markets, price \in Prices : m = ev.market_id /\ price = ev.price
      BY <1>4, <2>2
    <3>2. P!OnMarket(m, price)
      BY <2>2, <3>1
    <3>3. /\ PortfolioInv' /\ wire' \in AllUpdates
          /\ ~(now - last_mtm_publish >= MtmInterval) => wire' = wire
      BY <1>1, <3>2, PriceStep
    <3> QED
      BY <2>2, <3>3
  <2> QED
    BY <1>5, <2>1, <2>2
<1>7. evs = <<>> \/ evs = <<[kind |-> "Portfolio", update |-> wire']>>
  BY <1>6 DEF PortfolioEvent
<1>8. evs \in Seq(Event)
  <2>1. \A pu \in AllUpdates : [kind |-> "Portfolio", update |-> pu] \in Event
    BY DEF Event, PortfolioEvents
  <2>2. <<>> \in Seq(Event) /\ \A x \in Event : <<x>> \in Seq(Event)
    OBVIOUS
  <2> QED
    BY <1>6, <1>7, <2>1, <2>2
<1>9. /\ outbox' \in [Tasks -> Seq(Event)]
      /\ outbox'["portfolio_engine"] = evs
      /\ outbox'["risk_engine"] = outbox["risk_engine"]
      /\ outbox'["execution_sim"] = outbox["execution_sim"]
  BY <1>1, <1>5, <1>8, TaskFacts DEF Handle, OutboxOK
<1>10. Engines' /\ book' = book
  BY <1>1, <1>2, <1>6, RiskStutter DEF Engines, riskVars
<1>11. OutboxOK'
  BY <1>1, <1>7, <1>9 DEF OutboxOK
<1>12. LastUpdate'
  <2>1. outbox'["portfolio_engine"] = <<>> => outbox["portfolio_engine"] = <<>> /\ wire' = wire
    BY <1>2, <1>6, <1>9
  <2> QED
    BY <1>1, <1>2, <2>1, LastUpdateKept, TaskFacts
<1>13. Agreed'
  <2>1. CASE evs = <<PortfolioEvent>>
    <3>1. outbox'["portfolio_engine"] # <<>>
      BY <1>9, <2>1
    <3> QED
      BY <3>1, BusyAgrees
  <2>2. CASE evs = <<>> /\ ev.kind = "Market" /\ wire' = wire
    <3>1. Settled' => Settled
      BY <1>2, <1>3, <1>9, <2>2 DEF Settled
    <3> QED
      BY <1>1, <1>10, <2>2, <3>1, AgreedKept
  <2> QED
    BY <1>6, <2>1, <2>2
<1>14. SignalsCounted' /\ TradesCounted'
  <2>1. /\ Waiting("risk_engine", "FastSignal") \in Nat
        /\ Waiting("execution_sim", "ApprovedTrade") \in Nat
    BY <1>1, CountTypes, TaskFacts
  <2>2. /\ \A kind : OnBus(kind)' = OnBus(kind)
        /\ Waiting("risk_engine", "FastSignal")' = Waiting("risk_engine", "FastSignal")
        /\ Waiting("execution_sim", "ApprovedTrade")' = Waiting("execution_sim", "ApprovedTrade")
    <3>1. LET t == "portfolio_engine"
          IN  /\ \A kind : OnBus(kind)' = OnBus(kind)
              /\ Waiting("risk_engine", "FastSignal")' =
                   Waiting("risk_engine", "FastSignal")
                     - (IF t = "risk_engine" /\ NextEvent(t).kind = "FastSignal" THEN 1 ELSE 0)
              /\ Waiting("execution_sim", "ApprovedTrade")' =
                   Waiting("execution_sim", "ApprovedTrade")
                     - (IF t = "execution_sim" /\ NextEvent(t).kind = "ApprovedTrade" THEN 1 ELSE 0)
      BY <1>1, <1>2, TaskTally, TaskFacts
    <3> QED
      BY <2>1, <3>1
  <2>3. SignalsCounted'
    <3>1. SignalsCounted /\ outbox'["risk_engine"] = outbox["risk_engine"]
      BY <1>1, <1>9
    <3> QED
      BY <2>2, <3>1 DEF SignalsCounted
  <2>4. TradesCounted'
    <3>1. TradesCounted /\ outbox'["execution_sim"] = outbox["execution_sim"]
      BY <1>1, <1>9
    <3> QED
      BY <2>2, <3>1 DEF TradesCounted
  <2> QED
    BY <2>3, <2>4
<1> QED
  BY <1>3, <1>10, <1>11, <1>12, <1>13, <1>14 DEF LoopInv

\* While the log stands still, only the outbox of the portfolio engine changes and
\* with it the update, the bus and the counts stay as they are.
LEMMA QuietBus ==
  ASSUME LoopInv, Engines', book' = book, log' = log, cursor' = cursor,
         NEW evs \in Seq(Event), outbox' = [outbox EXCEPT !["portfolio_engine"] = evs],
         \/ evs = <<[kind |-> "Portfolio", update |-> wire']>>
         \/ evs = outbox["portfolio_engine"] /\ wire' = wire
  PROVE  LoopInv'
<1>1. /\ LogOK /\ OutboxOK /\ LastUpdate /\ Agreed /\ SignalsCounted /\ TradesCounted
  BY DEF LoopInv
<1>2. /\ outbox' \in [Tasks -> Seq(Event)]
      /\ outbox'["portfolio_engine"] = evs
      /\ outbox'["risk_engine"] = outbox["risk_engine"]
      /\ outbox'["execution_sim"] = outbox["execution_sim"]
  BY <1>1, TaskFacts DEF OutboxOK
<1>3. /\ \A t : Unhandled(t)' = Unhandled(t)
      /\ \A t, kind : Pending(t, kind)' = Pending(t, kind) /\ Waiting(t, kind)' = Waiting(t, kind)
      /\ \A kind : OnBus(kind)' = OnBus(kind)
  BY DEF Unhandled, Pending, Waiting, OfKind, OnBus
<1>4. LogOK'
  BY <1>1 DEF LogOK
<1>5. OutboxOK'
  BY <1>1, <1>2 DEF OutboxOK
<1>6. LastUpdate'
  BY <1>1, <1>2, <1>3 DEF LastUpdate
<1>7. Agreed'
  <2>1. CASE evs = <<[kind |-> "Portfolio", update |-> wire']>>
    <3>1. outbox'["portfolio_engine"] # <<>>
      BY <1>2, <2>1
    <3> QED
      BY <3>1, BusyAgrees
  <2>2. CASE evs = outbox["portfolio_engine"] /\ wire' = wire
    <3>1. Settled' => Settled
      BY <1>2, <1>3, <2>2 DEF Settled
    <3> QED
      BY <1>1, <2>2, <3>1, AgreedKept
  <2> QED
    BY <2>1, <2>2
<1>8. SignalsCounted' /\ TradesCounted'
  BY <1>1, <1>2, <1>3 DEF SignalsCounted, TradesCounted
<1> QED
  BY <1>4, <1>5, <1>6, <1>7, <1>8 DEF LoopInv

\* Expired positions are closed.
LEMMA TickInv ==
  ASSUME LoopInv, PortfolioTick
  PROVE  LoopInv'
<1>1. /\ OutboxOK /\ Engines /\ RP!IInv /\ RP!Covered(book) /\ PortfolioInv /\ wire \in AllUpdates
  BY DEF LoopInv, Engines
<1>2. /\ outbox["portfolio_engine"] = <<>> /\ P!OnTtlTick
      /\ log' = log /\ cursor' = cursor /\ UNCHANGED riskVars
  BY DEF PortfolioTick
<1>3. /\ PortfolioInv' /\ wire' \in AllUpdates
      /\ P!Expired(st, now) = {} => wire' = wire
  BY <1>1, <1>2, TickStep
<1>4. Engines' /\ book' = book
  BY <1>1, <1>2, <1>3, RiskStutter DEF Engines, riskVars
<1>5. PICK evs : /\ outbox' = [outbox EXCEPT !["portfolio_engine"] = evs]
                 /\ evs = IF P!Expired(st, now) = {} THEN <<>> ELSE <<PortfolioEvent>>
  BY DEF PortfolioTick
<1>6. \/ evs = <<[kind |-> "Portfolio", update |-> wire']>>
      \/ evs = outbox["portfolio_engine"] /\ wire' = wire
  BY <1>2, <1>3, <1>5 DEF PortfolioEvent
<1>7. evs \in Seq(Event)
  <2>1. \A pu \in AllUpdates : [kind |-> "Portfolio", update |-> pu] \in Event
    BY DEF Event, PortfolioEvents
  <2>2. <<>> \in Seq(Event) /\ \A x \in Event : <<x>> \in Seq(Event)
    OBVIOUS
  <2> QED
    BY <1>2, <1>3, <1>6, <2>1, <2>2
<1> QED
  BY <1>2, <1>4, <1>5, <1>6, <1>7, QuietBus

\* Time passes, or nothing happens.
LEMMA IdleInv ==
  ASSUME LoopInv, Advance \/ UNCHANGED vars
  PROVE  LoopInv'
<1>1. /\ OutboxOK /\ Engines /\ RP!IInv /\ RP!Covered(book) /\ PortfolioInv /\ wire \in AllUpdates
  BY DEF LoopInv, Engines
<1>2. /\ log' = log /\ cursor' = cursor /\ outbox' = outbox /\ UNCHANGED riskVars
  BY DEF Advance, vars
<1>3. PortfolioInv' /\ wire' = wire
  <2>1. CASE Advance
    BY <1>1, <2>1, TimeStep DEF Advance
  <2>2. CASE UNCHANGED vars
    BY <1>1, <2>2, PortfolioStutter DEF vars
  <2> QED
    BY <2>1, <2>2
<1>4. Engines' /\ book' = book
  BY <1>1, <1>2, <1>3, RiskStutter DEF Engines, riskVars
<1>5. PICK evs : evs = outbox["portfolio_engine"]
  OBVIOUS
<1>6. evs \in Seq(Event) /\ outbox' = [outbox EXCEPT !["portfolio_engine"] = evs]
  BY <1>1, <1>2, <1>5, TaskFacts DEF OutboxOK
<1> QED
  BY <1>2, <1>3, <1>4, <1>5, <1>6, QuietBus

\* Every step keeps the invariant.
LEMMA LoopNext == LoopInv /\ [Next]_vars => LoopInv'
<1> SUFFICES ASSUME LoopInv, [Next]_vars PROVE LoopInv'
  OBVIOUS
<1>1. ASSUME NEW ev \in Inputs, Arrive(ev) PROVE LoopInv'
  BY <1>1, ArriveInv
<1>2. CASE RiskHandles
  BY <1>2, RiskHandlesInv
<1>3. CASE SimHandles
  BY <1>3, SimHandlesInv
<1>4. CASE PortfolioHandles
  BY <1>4, PortfolioHandlesInv
<1>5. CASE PortfolioTick
  BY <1>5, TickInv
<1>6. ASSUME NEW t \in Tasks, Publish(t) PROVE LoopInv'
  <2>1. CASE t = "risk_engine"
    BY <1>6, <2>1, RiskPublishes
  <2>2. CASE t = "execution_sim"
    BY <1>6, <2>2, SimPublishes
  <2>3. CASE t = "portfolio_engine"
    BY <1>6, <2>3, PortfolioPublishes
  <2> QED
    BY <2>1, <2>2, <2>3 DEF Tasks
<1>7. CASE Advance \/ Finished \/ UNCHANGED vars
  <2>1. Advance \/ UNCHANGED vars
    BY <1>7 DEF Finished
  <2> QED
    BY <2>1, IdleInv
<1> QED
  BY <1>1, <1>2, <1>3, <1>4, <1>5, <1>6, <1>7 DEF Next

----------------------------------------------------------------------------
(***************************************************************************)
(* The loop is consistent.                                                 *)
(***************************************************************************)

\* The invariant holds of every behavior.
THEOREM LoopInvariant == Spec => []LoopInv
BY LoopInit, LoopNext, PTL DEF Spec

\* The book that the risk engine rebuilds depends on the positions of an update
\* only.
LEMMA SyncedBy ==
  ASSUME NEW pu, NEW qu, pu.positions = qu.positions
  PROVE  R!Synced(pu) = R!Synced(qu)
BY DEF R!Synced

\* At rest nothing is under way, and nothing waits.
LEMMA RestIsSettled ==
  ASSUME LoopInv, AtRest
  PROVE  /\ Settled
         /\ Waiting("risk_engine", "FastSignal") = 0
         /\ Waiting("execution_sim", "ApprovedTrade") = 0
         /\ Len(outbox["risk_engine"]) = 0 /\ outbox["execution_sim"] = <<>>
<1>1. \A t \in Tasks : outbox[t] = <<>> /\ Unhandled(t) = {}
  BY DEF AtRest
<1>2. \A kind : \A t \in Tasks : Pending(t, kind) = {}
  BY <1>1 DEF Pending
<1>3. \A kind : \A t \in Tasks : Waiting(t, kind) = 0
  BY <1>2, FS_EmptySet DEF Waiting
<1>4. outbox["risk_engine"] = <<>> /\ outbox["execution_sim"] = <<>> /\ outbox["portfolio_engine"] = <<>>
  BY <1>1, TaskFacts
<1>5. Settled
  BY <1>2, <1>4, TaskFacts DEF Settled
<1> QED
  BY <1>3, <1>4, <1>5, TaskFacts

\* The engines keep their invariants under each other's inputs; whenever the
\* loop comes to rest the risk engine's book is the portfolio's, every routed
\* signal has been answered and every approval executed: for every interleaving
\* of signals, prices, expiries and publications.
THEOREM LoopConsistentHolds == Spec => []LoopConsistent
<1> SUFFICES ASSUME LoopInv PROVE LoopConsistent
  BY LoopInvariant, PTL
<1>1. Engines /\ Agreed /\ SignalsCounted /\ TradesCounted /\ LogOK
  BY DEF LoopInv
<1>2. EnginesConsistent
  <2>1. RP!Accounting
    BY <1>1 DEF Engines, RP!IInv, RP!Accounting, RP!GoodBook, RP!ExposureIsSum, RP!ClusterSum
  <2>2. PP!Ledger
    BY <1>1 DEF Engines, PortfolioInv, PP!IInv, PP!Ledger, PP!Balanced, PP!CashConservation,
       PP!UnrealizedIsSum
  <2> QED
    BY <2>1, <2>2, SameAccounting, SameLedger DEF EnginesConsistent
<1>3. AgreeAtRest
  <2> SUFFICES ASSUME AtRest PROVE book = R!Synced(P!ToPortfolioUpdate(st))
    BY DEF AgreeAtRest
  <2>1. book = R!Synced(wire)
    BY <1>1, RestIsSettled DEF Agreed
  <2>2. wire.positions = P!ToPortfolioUpdate(st).positions
    BY <1>1, SameUpdate DEF Engines, PortfolioInv, PP!IInv, PP!WireIsCurrent
  <2> QED
    BY <2>1, <2>2, SyncedBy
<1>4. AnsweredAtRest
  <2> SUFFICES ASSUME AtRest
               PROVE  /\ OnBus("ApprovedTrade") + OnBus("TradeRejected") = OnBus("FastSignal")
                      /\ OnBus("Execution") = OnBus("ApprovedTrade")
    BY DEF AnsweredAtRest, OnBus
  <2>1. \A kind : OnBus(kind) \in Nat
    BY <1>1, CountTypes
  <2>2. /\ Waiting("risk_engine", "FastSignal") = 0
        /\ Waiting("execution_sim", "ApprovedTrade") = 0
        /\ Len(outbox["risk_engine"]) = 0 /\ outbox["execution_sim"] = <<>>
    BY RestIsSettled
  <2>3. SignalsCounted /\ TradesCounted
    BY <1>1
  <2> QED
    BY <2>1, <2>2, <2>3 DEF SignalsCounted, TradesCounted
<1> QED
  BY <1>2, <1>3, <1>4 DEF LoopConsistent

----------------------------------------------------------------------------
(***************************************************************************)
(* An approval given to a settled loop.                                    *)
(***************************************************************************)

\* The sums of the instances are those of SumTheorems.
LEMMA SameSums ==
  ASSUME NEW f, NEW S
  PROVE  /\ RP!SumFunctionOnSet(f, S) = SumFunctionOnSet(f, S)
         /\ P!SumFunctionOnSet(f, S) = SumFunctionOnSet(f, S)
BY DEF SumFunctionOnSet, FoldFunctionOnSet, MapThenFoldSet, RP!SumFunctionOnSet,
   RP!FoldFunctionOnSet, RP!MapThenFoldSet, P!SumFunctionOnSet, P!FoldFunctionOnSet,
   P!MapThenFoldSet

\* When the books agree, the risk engine's positions are the portfolio's sizes.
LEMMA AgreedSizes ==
  ASSUME Engines, book = R!Synced(wire)
  PROVE  /\ DOMAIN book.positions = DOMAIN st.positions
         /\ \A m \in DOMAIN st.positions : book.positions[m] = st.positions[m].size
<1>1. /\ PP!Balanced(st) /\ PP!WireIsCurrent /\ PP!WithinSize(st, MaxPositionFraction)
  BY DEF Engines, PortfolioInv, PP!IInv
<1>2. /\ DOMAIN wire.positions = DOMAIN st.positions
      /\ \A m \in DOMAIN st.positions : wire.positions[m].size = st.positions[m].size
  BY <1>1 DEF PP!WireIsCurrent, PP!ToPortfolioUpdate
<1>3. \A m \in DOMAIN st.positions : st.positions[m].size <= MaxPositionFraction
  BY <1>1 DEF PP!WithinSize
<1>4. \A m \in DOMAIN st.positions : RP!MinOf(st.positions[m].size, MaxPositionFraction) = st.positions[m].size
  BY <1>3 DEF RP!MinOf
<1>5. RP!Synced(wire).positions =
        [m \in DOMAIN wire.positions |-> RP!MinOf(wire.positions[m].size, MaxPositionFraction)]
  BY DEF RP!Synced, RP!Book
<1> QED
  BY <1>2, <1>4, <1>5, SameSynced

\* A position inserted into a map of sizes adds to the sum of the others.
LEMMA InsertedSum ==
  ASSUME NEW D, IsFiniteSet(D), NEW f, DOMAIN f = D, \A k \in D : f[k] \in Nat,
         NEW m, NEW a \in Nat
  PROVE  RP!SumFunction(RP!Insert(f, m, a)) = a + SumFunctionOnSet(f, D \ {m})
<1> DEFINE g == RP!Insert(f, m, a)
           E == D \cup {m}
           W == D \ {m}
<1>1. DOMAIN g = E /\ g[m] = a /\ \A k \in W : g[k] = f[k]
  BY DEF RP!Insert
<1>2. IsFiniteSet(E) /\ IsFiniteSet(W)
  BY FS_AddElement, FS_RemoveElement
<1>3. E \ {m} = W /\ m \in E
  OBVIOUS
<1> HIDE DEF g
<1>4. \A k \in E : g[k] \in Int
  BY <1>1
<1> HIDE DEF E, W
<1>5. SumFunctionOnSet(g, E) = g[m] + SumFunctionOnSet(g, E \ {m})
  BY <1>2, <1>3, <1>4, SumRemove
<1>6. SumFunctionOnSet(g, W) = SumFunctionOnSet(f, W)
  <2>1. \A k \in W : f[k] \in Int
    BY DEF W
  <2> QED
    BY <1>1, <1>2, <2>1, SumCong
<1>7. RP!SumFunction(g) = SumFunctionOnSet(g, E)
  BY <1>1, SameSums DEF RP!SumFunction
<1> QED
  BY <1>1, <1>3, <1>5, <1>6, <1>7 DEF g, W

\* The portfolio without one market deploys the sizes of the others.
LEMMA DeployedWithout ==
  ASSUME PP!Balanced(st), NEW m
  PROVE  P!TotalDeployed([positions |-> RemoveAll(st.positions, {m})])
           = SumFunctionOnSet([k \in DOMAIN st.positions |-> st.positions[k].size],
                              DOMAIN st.positions \ {m})
<1> DEFINE p == st.positions
           W == DOMAIN p \ {m}
           q == RemoveAll(p, {m})
           f == [k \in DOMAIN p |-> p[k].size]
           g == P!SizeOf(q)
<1>1. DOMAIN q = W /\ \A k \in W : q[k] = p[k]
  BY DEF RemoveAll, Restrict
<1>2. DOMAIN g = W /\ \A k \in W : g[k] = f[k]
  BY <1>1 DEF P!SizeOf
<1>3. IsFiniteSet(W) /\ \A k \in W : f[k] \in Int
  <2>1. DOMAIN p \subseteq Markets /\ \A k \in DOMAIN p : p[k] \in PP!Positions
    BY DEF PP!Balanced, PP!IsState, PP!IsMap
  <2>2. IsFiniteSet(Markets)
    BY PipelineConstants DEF P!PortfolioConstants, P!IsFiniteSet, IsFiniteSet
  <2> QED
    BY <2>1, <2>2, FS_Subset DEF PP!Positions
<1>4. P!TotalDeployed([positions |-> q]) = P!SumFunctionOnSet(g, DOMAIN g)
  BY DEF P!TotalDeployed, P!SumFunction
<1> HIDE DEF g, f, W
<1>5. SumFunctionOnSet(g, W) = SumFunctionOnSet(f, W)
  BY <1>2, <1>3, SumCong
<1>6. P!SumFunctionOnSet(g, W) = SumFunctionOnSet(g, W)
  BY SameSums
<1> QED
  BY <1>2, <1>4, <1>5, <1>6 DEF f, W

\* The one signal left of a loop that is otherwise at rest finds the books agreed.
LEMMA OnlySignalAgrees ==
  ASSUME LoopInv, OnlySignal, RiskHandles, out'.kind = "ApprovedTrade"
  PROVE  /\ book = R!Synced(wire)
         /\ \E sig \in Signals : R!OnRoutedSignal(sig)
<1> DEFINE i == Min(Unhandled("risk_engine"))
           ev == log[i]
<1>1. /\ LogOK /\ Agreed /\ RP!IInv
  BY DEF LoopInv, Engines
<1>2. Unhandled("risk_engine") # {}
  BY DEF RiskHandles, Ready
<1>3. /\ i \in Unhandled("risk_engine") /\ ev \in Event
      /\ NextEvent("risk_engine") = ev
  BY <1>1, <1>2, NextIs, TaskFacts
<1>4. /\ ev.kind = "FastSignal" => ev.signal \in Signals
      /\ ev.kind = "Market" => ev.market_id \in Markets
      /\ ev.kind = "EdgeDecayReport" => ev.latency \in Reports
      /\ ev.kind = "Portfolio" => ev.update \in AllUpdates
  BY <1>3, EventByKind
<1>5. \/ ev.kind = "FastSignal" /\ R!OnRoutedSignal(ev.signal)
      \/ ev.kind = "Portfolio" /\ R!OnPortfolio(ev.update)
      \/ ev.kind = "Market" /\ R!OnMarket(ev.market_id, TRUE)
      \/ ev.kind = "EdgeDecayReport" /\ R!OnEdgeDecayReport(ev.latency)
  BY <1>3 DEF RiskHandles
<1> HIDE DEF ev
<1>6. ev.kind = "FastSignal" /\ R!OnRoutedSignal(ev.signal)
  <2>1. ASSUME NEW pu \in AllUpdates, R!OnPortfolio(pu) PROVE out'.kind # "ApprovedTrade"
    BY <1>1, <2>1, UpdateStep
  <2>2. ASSUME \/ \E m \in Markets : R!OnMarket(m, TRUE)
               \/ \E latency \in Reports : R!OnEdgeDecayReport(latency)
        PROVE  out'.kind # "ApprovedTrade"
    BY <1>1, <2>2, OtherStep
  <2> QED
    BY <1>4, <1>5, <2>1, <2>2
<1>7. Settled
  <2>1. \A t \in Tasks : outbox[t] = <<>>
    BY DEF OnlySignal
  <2>2. Unhandled("execution_sim") = {} /\ Unhandled("portfolio_engine") = {}
    BY TaskFacts DEF OnlySignal
  <2>3. Unhandled("risk_engine") = {i}
    <3>1. IsFiniteSet(Unhandled("risk_engine"))
      <4>1. Unhandled("risk_engine") \subseteq 1..Len(log)
        BY <1>1, PendingFinite, TaskFacts
      <4>2. Len(log) \in Nat
        BY <1>1 DEF LogOK
      <4>3. IsFiniteSet(1..Len(log))
        BY <4>2, FS_Interval
      <4> QED
        BY <4>1, <4>3, FS_Subset
    <3>2. Cardinality(Unhandled("risk_engine")) = 1
      BY DEF OnlySignal
    <3>3. PICK x : Unhandled("risk_engine") = {x}
      BY <3>1, <3>2, FS_Singleton
    <3> QED
      BY <1>3, <3>3
  <2>4. Pending("risk_engine", "Portfolio") = {}
    BY <1>6, <2>3 DEF Pending, ev
  <2>5. Pending("execution_sim", "ApprovedTrade") = {} /\ Pending("portfolio_engine", "Execution") = {}
    BY <2>2 DEF Pending
  <2> QED
    BY <2>1, <2>4, <2>5, TaskFacts DEF Settled
<1> QED
  BY <1>1, <1>4, <1>6, <1>7 DEF Agreed

\* An approval given when every earlier one has been executed and reported back
\* fits in what the portfolio engine has left of max_total_exposure, whatever
\* was filled, closed and repriced before.
THEOREM SettledApprovalFitsHolds == Spec => SettledApprovalFits
<1> DEFINE Fits == OnlySignal /\ RiskHandles /\ out'.kind = "ApprovedTrade" =>
                     P!TotalDeployed([positions |-> RemoveAll(st.positions, {out'.signal.market_id})])
                       + out'.approved_fraction <= MaxTotalExposure
<1>1. LoopInv /\ [Next]_vars => [Fits]_vars
  <2> SUFFICES ASSUME LoopInv, OnlySignal, RiskHandles, out'.kind = "ApprovedTrade"
               PROVE  P!TotalDeployed([positions |-> RemoveAll(st.positions, {out'.signal.market_id})])
                        + out'.approved_fraction <= MaxTotalExposure
    OBVIOUS
  <2>1. Engines /\ RP!IInv /\ RP!Covered(book) /\ PP!Balanced(st)
    BY DEF LoopInv, Engines, PortfolioInv, PP!IInv
  <2>2. PICK sig \in Signals : book = R!Synced(wire) /\ R!OnRoutedSignal(sig)
    BY OnlySignalAgrees
  <2>3. /\ RP!IInv'
        /\ out' \in Approvals /\ out'.signal = sig
        /\ book'.positions = RP!Insert(book.positions, sig.market_id, out'.approved_fraction)
        /\ book'.total_exposure <= MaxTotalExposure
    <3>1. /\ RP!IInv' /\ RP!Covered(book')
          /\ \/ /\ out' \in Approvals /\ out'.signal = sig
                /\ book'.positions = RP!Insert(book.positions, sig.market_id, out'.approved_fraction)
                /\ book'.total_exposure <= MaxTotalExposure
             \/ out' \in Rejections /\ book' = book
      BY <2>1, <2>2, SignalStep
    <3>2. out' \notin Rejections
      BY DEF Rejections
    <3> QED
      BY <3>1, <3>2
  <2>4. PICK a \in Nat : a = out'.approved_fraction
    <3>1. out'.approved_fraction \in 1..MaxPositionFraction
      BY <2>3 DEF Approvals
    <3> QED
      BY <3>1, RiskOK DEF RP!RiskConstants
  <2> DEFINE m == sig.market_id
             D == DOMAIN st.positions
             f == [k \in D |-> st.positions[k].size]
  <2>5. /\ DOMAIN book.positions = D /\ \A k \in D : book.positions[k] = st.positions[k].size
    BY <2>1, <2>2, AgreedSizes
  <2>6. IsFiniteSet(D) /\ \A k \in D : book.positions[k] \in Nat
    <3>1. IsFiniteSet(Markets)
      BY PipelineConstants DEF P!PortfolioConstants, P!IsFiniteSet, IsFiniteSet
    <3>2. DOMAIN book.positions \subseteq Markets /\ \A k \in DOMAIN book.positions : book.positions[k] \in Nat
      BY <2>1 DEF RP!IInv, RP!GoodBook, RP!IsBook, RP!IsMap
    <3> QED
      BY <2>5, <3>1, <3>2, FS_Subset
  <2>7. RP!SumFunction(RP!Insert(book.positions, m, a)) = a + SumFunctionOnSet(book.positions, D \ {m})
    BY <2>5, <2>6, InsertedSum
  <2>8. book'.total_exposure = RP!SumFunction(book'.positions)
    BY <2>3 DEF RP!IInv, RP!GoodBook
  <2>9. SumFunctionOnSet(book.positions, D \ {m}) = SumFunctionOnSet(f, D \ {m})
    <3>1. IsFiniteSet(D \ {m}) /\ \A k \in D \ {m} : f[k] \in Int /\ book.positions[k] = f[k]
      BY <2>5, <2>6, FS_RemoveElement
    <3> HIDE DEF f, D
    <3> QED
      BY <3>1, SumCong
  <2>10. P!TotalDeployed([positions |-> RemoveAll(st.positions, {m})]) = SumFunctionOnSet(f, D \ {m})
    BY <2>1, DeployedWithout
  <2>11. SumFunctionOnSet(f, D \ {m}) \in Int
    <3>1. IsFiniteSet(D \ {m}) /\ \A k \in D \ {m} : f[k] \in Int
      BY <2>5, <2>6, FS_RemoveElement
    <3> HIDE DEF f, D
    <3> QED
      BY <3>1, SumType
  <2> HIDE DEF f, D
  <2>12. a + SumFunctionOnSet(f, D \ {m}) <= MaxTotalExposure
    BY <2>3, <2>4, <2>7, <2>8, <2>9
  <2> QED
    BY <2>3, <2>4, <2>10, <2>11, <2>12
<1>2. Spec => [][Fits]_vars
  <2> HIDE DEF Fits
  <2> QED
    BY <1>1, LoopInvariant, PTL DEF Spec
<1> QED
  BY <1>2 DEF SettledApprovalFits

----------------------------------------------------------------------------
(***************************************************************************)
(* The n-th Execution is that of the n-th approval.                        *)
(*                                                                         *)
(* The counts give the rank of the approval that the simulator has taken   *)
(* last: as many approvals lie up to its cursor as there are Executions on *)
(* the bus and under way.                                                  *)
(***************************************************************************)

\* What the simulator is about to publish is the result of the approval it has
\* taken last.
Executing ==
  outbox["execution_sim"] # <<>> =>
    /\ cursor["execution_sim"] \in OfKind("ApprovedTrade")
    /\ \E x \in Executed :
         /\ x.result.trade = log[cursor["execution_sim"]]
         /\ outbox["execution_sim"] = <<x>> \/ \E r \in DecayReports : outbox["execution_sim"] = <<r, x>>

InOrder == ExecutionsFollowApprovals /\ Executing

\* The rank of the approval that the simulator has taken last.
LEMMA CursorRank ==
  ASSUME LogOK, TradesCounted
  PROVE  UpTo("ApprovedTrade", cursor["execution_sim"]) =
           OnBus("Execution") + (IF outbox["execution_sim"] = <<>> THEN 0 ELSE 1)
<1> DEFINE A == OfKind("ApprovedTrade")
           c == cursor["execution_sim"]
           B == {k \in A : k <= c}
<1>1. /\ IsFiniteSet(A) /\ A \subseteq 1..Len(log)
      /\ c \in Nat /\ Len(log) \in Nat /\ DOMAIN log = 1..Len(log)
  BY PendingFinite, TaskFacts DEF LogOK
<1>2. Pending("execution_sim", "ApprovedTrade") = A \ B
  <2>1. Unhandled("execution_sim") = {k \in (c + 1)..Len(log) : log[k].kind \in Matched["execution_sim"]}
    BY DEF Unhandled
  <2>2. Pending("execution_sim", "ApprovedTrade") = {k \in (c + 1)..Len(log) : log[k].kind = "ApprovedTrade"}
    BY <2>1, TaskFacts DEF Pending
  <2>3. A = {k \in 1..Len(log) : log[k].kind = "ApprovedTrade"}
    BY <1>1 DEF OfKind
  <2>4. \A k \in 1..Len(log) : k \in (c + 1)..Len(log) <=> ~(k <= c)
    BY <1>1
  <2>5. \A k \in (c + 1)..Len(log) : k \in 1..Len(log)
    BY <1>1
  <2>6. A \ B = {k \in A : ~(k <= c)}
    OBVIOUS
  <2> HIDE DEF c, A, B
  <2>7. {k \in (c + 1)..Len(log) : log[k].kind = "ApprovedTrade"} = {k \in A : ~(k <= c)}
    BY <2>3, <2>4, <2>5, Zenon
  <2> QED
    BY <2>2, <2>6, <2>7, Zenon
<1> HIDE DEF A
<1>3. B \in SUBSET A
  OBVIOUS
<1> HIDE DEF B
<1>4. A \cap B = B /\ IsFiniteSet(B)
  BY <1>1, <1>3, FS_Subset
<1>5. Cardinality(A \ B) = Cardinality(A) - Cardinality(B)
  <2>1. Cardinality(A \ B) = Cardinality(A) - Cardinality(A \cap B)
    <3> HIDE DEF c
    <3> QED
      BY <1>1, FS_Difference
  <2> QED
    BY <1>4, <2>1
<1>6. /\ Waiting("execution_sim", "ApprovedTrade") = Cardinality(A) - Cardinality(B)
      /\ OnBus("ApprovedTrade") = Cardinality(A)
      /\ Cardinality(B) \in Nat /\ Cardinality(A) \in Nat /\ OnBus("Execution") \in Nat
  BY <1>1, <1>2, <1>4, <1>5, FS_CardinalityType, CountTypes DEF Waiting, OnBus, A
<1>7. UpTo("ApprovedTrade", cursor["execution_sim"]) = Cardinality(B)
  BY DEF UpTo, A, B
<1> QED
  BY <1>6, <1>7 DEF TradesCounted

\* Publishing an event leaves the ranks of those before it, and gives it the last.
LEMMA AppendRank ==
  ASSUME LogOK, NEW ev \in Event, log' = Append(log, ev), cursor' = cursor,
         NEW n \in Nat, n = Len(log) + 1
  PROVE  \A kind : /\ \A x \in 1..Len(log) : UpTo(kind, x)' = UpTo(kind, x)
                   /\ ev.kind = kind => UpTo(kind, n)' = OnBus(kind) + 1
<1>1. /\ \A i \in 1..Len(log) : i < n
      /\ \A kind : OfKind(kind)' = OfKind(kind) \cup (IF ev.kind = kind THEN {n} ELSE {})
  BY AppendAdds
<1>2. \A kind : OfKind(kind) \subseteq 1..Len(log)
  BY PendingFinite, TaskFacts
<1>3. \A kind : OnBus(kind)' = OnBus(kind) + (IF ev.kind = kind THEN 1 ELSE 0)
  BY AppendCounts
<1>4. Len(log) \in Nat
  BY DEF LogOK
<1>5. ASSUME NEW kind, NEW x \in 1..Len(log)
      PROVE  UpTo(kind, x)' = UpTo(kind, x)
  <2>1. ~(n <= x)
    BY <1>1, <1>4
  <2>2. {k \in OfKind(kind)' : k <= x} = {k \in OfKind(kind) : k <= x}
    BY <1>1, <2>1
  <2> QED
    BY <2>2 DEF UpTo
<1>6. ASSUME NEW kind, ev.kind = kind
      PROVE  UpTo(kind, n)' = OnBus(kind) + 1
  <2>1. \A k \in 1..Len(log) : k <= n
    BY <1>1, <1>4
  <2>2. \A k \in OfKind(kind)' : k <= n
    BY <1>1, <1>2, <2>1
  <2>3. {k \in OfKind(kind)' : k <= n} = OfKind(kind)'
    BY <2>2
  <2> QED
    BY <1>3, <1>6, <2>3 DEF UpTo, OnBus
<1> QED
  BY <1>5, <1>6

\* An event that is not an Execution, or that is the next one due, keeps the order.
LEMMA AppendOrder ==
  ASSUME LogOK, ExecutionsFollowApprovals,
         NEW ev \in Event, log' = Append(log, ev), cursor' = cursor,
         ev.kind = "Execution" =>
           \E j \in OfKind("ApprovedTrade") :
             ev.result.trade = log[j] /\ UpTo("ApprovedTrade", j) = OnBus("Execution") + 1
  PROVE  ExecutionsFollowApprovals'
<1>1. PICK n \in Nat : n = Len(log) + 1
  BY DEF LogOK
<1>2. /\ \A i \in 1..Len(log) : log'[i] = log[i] /\ i < n
      /\ log'[n] = ev
      /\ \A kind : OfKind(kind)' = OfKind(kind) \cup (IF ev.kind = kind THEN {n} ELSE {})
  BY <1>1, AppendAdds
<1>3. \A kind : OfKind(kind) \subseteq 1..Len(log)
  BY PendingFinite, TaskFacts
<1>4. \A kind : /\ \A x \in 1..Len(log) : UpTo(kind, x)' = UpTo(kind, x)
                /\ ev.kind = kind => UpTo(kind, n)' = OnBus(kind) + 1
  BY <1>1, AppendRank
<1>5. ASSUME NEW i \in OfKind("Execution")'
      PROVE  \E j \in OfKind("ApprovedTrade")' :
               /\ j < i /\ log'[i].result.trade = log'[j]
               /\ UpTo("ApprovedTrade", j)' = UpTo("Execution", i)'
  <2>1. CASE i \in OfKind("Execution")
    <3>1. PICK j \in OfKind("ApprovedTrade") :
            /\ j < i /\ log[i].result.trade = log[j]
            /\ UpTo("ApprovedTrade", j) = UpTo("Execution", i)
      BY <2>1 DEF ExecutionsFollowApprovals
    <3>2. i \in 1..Len(log) /\ j \in 1..Len(log) /\ j \in OfKind("ApprovedTrade")'
      BY <1>2, <1>3, <2>1
    <3>3. /\ UpTo("ApprovedTrade", j)' = UpTo("ApprovedTrade", j)
          /\ UpTo("Execution", i)' = UpTo("Execution", i)
      BY <1>4, <3>2
    <3> QED
      BY <1>2, <3>1, <3>2, <3>3
  <2>2. CASE i \notin OfKind("Execution")
    <3>1. ev.kind = "Execution" /\ i = n
      BY <1>2, <2>2
    <3>2. PICK j \in OfKind("ApprovedTrade") :
            ev.result.trade = log[j] /\ UpTo("ApprovedTrade", j) = OnBus("Execution") + 1
      BY <3>1
    <3>3. j \in 1..Len(log) /\ j \in OfKind("ApprovedTrade")'
      BY <1>2, <1>3
    <3>4. /\ UpTo("ApprovedTrade", j)' = UpTo("ApprovedTrade", j)
          /\ UpTo("Execution", n)' = OnBus("Execution") + 1
      BY <1>4, <3>1, <3>3
    <3> QED
      BY <1>2, <3>1, <3>2, <3>3, <3>4
  <2> QED
    BY <2>1, <2>2
<1> QED
  BY <1>5 DEF ExecutionsFollowApprovals

\* The log only grows: what the simulator has taken stays where it is.
LEMMA ExecutingKept ==
  ASSUME LogOK, Executing, cursor'["execution_sim"] = cursor["execution_sim"],
         outbox'["execution_sim"] = outbox["execution_sim"],
         \/ log' = log
         \/ cursor' = cursor /\ \E ev \in Event : log' = Append(log, ev)
  PROVE  Executing'
<1> DEFINE c == cursor["execution_sim"]
<1>1. \A k \in OfKind("ApprovedTrade") : k \in OfKind("ApprovedTrade")' /\ log'[k] = log[k]
  <2>1. CASE log' = log
    BY <2>1 DEF OfKind
  <2>2. ASSUME NEW ev \in Event, cursor' = cursor, log' = Append(log, ev)
        PROVE  \A k \in OfKind("ApprovedTrade") : k \in OfKind("ApprovedTrade")' /\ log'[k] = log[k]
    <3>1. /\ \A i \in 1..Len(log) : log'[i] = log[i]
          /\ \A kind : OfKind(kind) \subseteq OfKind(kind)'
      BY <2>2, AppendAdds
    <3>2. \A kind : OfKind(kind) \subseteq 1..Len(log)
      BY PendingFinite, TaskFacts
    <3> QED
      BY <3>1, <3>2
  <2> QED
    BY <2>1, <2>2
<1> QED
  BY <1>1 DEF Executing

\* The risk engine, the portfolio engine or the outside publishes.
LEMMA OthersPublish ==
  ASSUME LogOK, InOrder, NEW ev \in Event, ev.kind # "Execution",
         log' = Append(log, ev), cursor' = cursor,
         outbox'["execution_sim"] = outbox["execution_sim"]
  PROVE  InOrder'
BY AppendOrder, ExecutingKept DEF InOrder

\* The simulator publishes a report, or the result of the approval it has taken.
LEMMA SimPublishesInOrder ==
  ASSUME LoopInv, InOrder, Publish("execution_sim")
  PROVE  InOrder'
<1> DEFINE c == cursor["execution_sim"]
<1>1. LogOK /\ TradesCounted /\ outbox["execution_sim"] # <<>>
  BY DEF LoopInv, Publish
<1>2. PICK x \in Executed :
        /\ c \in OfKind("ApprovedTrade") /\ x.result.trade = log[c]
        /\ outbox["execution_sim"] = <<x>> \/ \E r \in DecayReports : outbox["execution_sim"] = <<r, x>>
  BY <1>1 DEF InOrder, Executing
<1>3. Executed \subseteq Event /\ DecayReports \subseteq Event
  BY DEF Event
<1>4. \A y \in Event : <<>> \in Seq(Event) /\ <<y>> \in Seq(Event)
  OBVIOUS
<1>5. CASE outbox["execution_sim"] = <<x>>
  <2>1. outbox["execution_sim"] = <<x>> \o <<>>
    BY <1>5
  <2>2. log' = Append(log, x) /\ cursor' = cursor /\ outbox'["execution_sim"] = <<>>
    <3>1. x \in Event /\ <<>> \in Seq(Event) /\ "execution_sim" \in Tasks
      BY <1>3, <1>4, TaskFacts
    <3> QED
      BY <2>1, <3>1, PublishEffect
  <2>3. UpTo("ApprovedTrade", c) = OnBus("Execution") + 1
    BY <1>1, CursorRank
  <2>4. ExecutionsFollowApprovals'
    BY <1>1, <1>2, <1>3, <2>2, <2>3, AppendOrder DEF InOrder
  <2> QED
    BY <2>2, <2>4 DEF InOrder, Executing
<1>6. ASSUME NEW r \in DecayReports, outbox["execution_sim"] = <<r, x>>
      PROVE  InOrder'
  <2>1. outbox["execution_sim"] = <<r>> \o <<x>>
    BY <1>6
  <2>2. log' = Append(log, r) /\ cursor' = cursor /\ outbox'["execution_sim"] = <<x>>
    <3>1. r \in Event /\ <<x>> \in Seq(Event) /\ "execution_sim" \in Tasks
      BY <1>3, <1>4, TaskFacts
    <3> QED
      BY <2>1, <3>1, PublishEffect
  <2>3. r.kind # "Execution" /\ r \in Event
    BY <1>3 DEF DecayReports
  <2>4. ExecutionsFollowApprovals'
    BY <1>1, <2>2, <2>3, AppendOrder DEF InOrder
  <2>5. c \in OfKind("ApprovedTrade")' /\ log'[c] = log[c]
    <3>1. /\ \A i \in 1..Len(log) : log'[i] = log[i]
          /\ \A kind : OfKind(kind) \subseteq OfKind(kind)'
      BY <1>1, <2>2, <2>3, AppendAdds
    <3>2. \A kind : OfKind(kind) \subseteq 1..Len(log)
      BY <1>1, PendingFinite, TaskFacts
    <3> QED
      BY <1>2, <3>1, <3>2
  <2>6. cursor'["execution_sim"] = c
    BY <2>2
  <2> HIDE DEF c
  <2>7. Executing'
    BY <1>2, <2>2, <2>5, <2>6 DEF Executing
  <2> QED
    BY <2>4, <2>7 DEF InOrder
<1> QED
  BY <1>2, <1>5, <1>6

\* The simulator takes an approval: what it will publish is the result of that one.
LEMMA SimHandlesInOrder ==
  ASSUME LoopInv, InOrder, SimHandles
  PROVE  InOrder'
<1> DEFINE i == Min(Unhandled("execution_sim"))
<1>1. /\ LogOK /\ Unhandled("execution_sim") # {}
      /\ ExecutionsFollowApprovals
  BY DEF LoopInv, SimHandles, Ready, InOrder
<1>2. /\ i \in 1..Len(log) /\ log[i] \in Event /\ log[i].kind = "ApprovedTrade"
      /\ NextEvent("execution_sim") = log[i]
  BY <1>1, NextIs, TaskFacts
<1>3. PICK result \in Results(log[i]), latency \in Reports : Handle("execution_sim", Sent(result, latency))
  BY <1>2 DEF SimHandles
<1>4. PICK trade \in Approvals : trade = log[i]
  BY <1>2, EventByKind
<1>5. PICK x \in Executed, r \in DecayReports :
        Sent(result, latency) = <<r, x>> /\ x.result.trade = trade
  BY <1>3, <1>4, SentForTrade
<1>6. /\ log' = log /\ cursor'["execution_sim"] = i
      /\ outbox'["execution_sim"] = <<r, x>>
  <2>1. cursor \in [Tasks -> Nat] /\ outbox \in [Tasks -> Seq(Event)] /\ "execution_sim" \in Tasks
    BY TaskFacts DEF LoopInv, LogOK, OutboxOK
  <2> QED
    BY <1>3, <1>5, <2>1 DEF Handle
<1>7. i \in OfKind("ApprovedTrade")
  BY <1>1, <1>2 DEF OfKind, LogOK
<1> HIDE DEF i
<1>8. Executing'
  BY <1>4, <1>5, <1>6, <1>7 DEF Executing, OfKind
<1>9. ExecutionsFollowApprovals'
  BY <1>1, <1>6 DEF ExecutionsFollowApprovals, OfKind, UpTo
<1> QED
  BY <1>8, <1>9 DEF InOrder

\* A step that leaves the log and the simulator alone keeps the order.
LEMMA OrderUntouched ==
  ASSUME LogOK, InOrder, log' = log, cursor'["execution_sim"] = cursor["execution_sim"],
         outbox'["execution_sim"] = outbox["execution_sim"]
  PROVE  InOrder'
<1>1. Executing'
  BY ExecutingKept DEF InOrder
<1>2. ExecutionsFollowApprovals'
  BY DEF InOrder, ExecutionsFollowApprovals, OfKind, UpTo
<1> QED
  BY <1>1, <1>2 DEF InOrder

\* Every step keeps the order.
LEMMA OrderNext == LoopInv /\ InOrder /\ [Next]_vars => InOrder'
<1> SUFFICES ASSUME LoopInv, InOrder, [Next]_vars PROVE InOrder'
  OBVIOUS
<1>1. LogOK /\ OutboxOK /\ cursor \in [Tasks -> Nat] /\ outbox \in [Tasks -> Seq(Event)]
  BY DEF LoopInv, LogOK, OutboxOK
<1>2. ASSUME NEW ev \in Inputs, Arrive(ev) PROVE InOrder'
  <2>1. ev \in Event /\ ev.kind # "Execution"
    BY DEF Event, Inputs
  <2>2. log' = Append(log, ev) /\ cursor' = cursor /\ outbox' = outbox
    BY <1>2 DEF Arrive
  <2> QED
    BY <1>1, <2>1, <2>2, OthersPublish
<1>3. ASSUME NEW t \in Tasks, t # "execution_sim", NEW evs,
             \/ Handle(t, evs)
             \/ log' = log /\ cursor' = cursor /\ outbox' = [outbox EXCEPT ![t] = evs]
      PROVE  InOrder'
  <2>1. /\ log' = log
        /\ cursor'["execution_sim"] = cursor["execution_sim"]
        /\ outbox'["execution_sim"] = outbox["execution_sim"]
    BY <1>1, <1>3, TaskFacts DEF Handle
  <2> QED
    BY <1>1, <2>1, OrderUntouched
<1>4. CASE RiskHandles
  <2>1. \E evs : Handle("risk_engine", evs)
    BY <1>4 DEF RiskHandles
  <2> QED
    BY <1>3, <2>1, TaskFacts
<1>5. CASE SimHandles
  BY <1>5, SimHandlesInOrder
<1>6. CASE PortfolioHandles
  <2>1. \E evs : Handle("portfolio_engine", evs)
    BY <1>6 DEF PortfolioHandles
  <2> QED
    BY <1>3, <2>1, TaskFacts
<1>7. CASE PortfolioTick
  <2>1. log' = log /\ cursor' = cursor /\ \E evs : outbox' = [outbox EXCEPT !["portfolio_engine"] = evs]
    BY <1>7 DEF PortfolioTick
  <2> QED
    BY <1>3, <2>1, TaskFacts
<1>8. ASSUME NEW t \in Tasks, Publish(t) PROVE InOrder'
  <2>1. CASE t = "execution_sim"
    BY <1>8, <2>1, SimPublishesInOrder
  <2>2. ASSUME t # "execution_sim", NEW ev \in Event, ev.kind # "Execution", outbox[t] = <<ev>>
        PROVE  InOrder'
    <3>1. Head(outbox[t]) = ev
      BY <2>2
    <3>2. log' = Append(log, ev) /\ cursor' = cursor /\ outbox'["execution_sim"] = outbox["execution_sim"]
      BY <1>1, <1>8, <2>2, <3>1, TaskFacts DEF Publish
    <3> QED
      BY <1>1, <2>2, <3>2, OthersPublish
  <2>3. CASE t = "risk_engine"
    <3>1. PICK ev \in Approvals \cup Rejections : outbox["risk_engine"] = <<ev>>
      BY <1>1, <1>8, <2>3 DEF OutboxOK, Publish
    <3>2. ev \in Event /\ ev.kind # "Execution"
      BY DEF Event, Approvals, Rejections
    <3> QED
      BY <2>2, <2>3, <3>1, <3>2
  <2>4. CASE t = "portfolio_engine"
    <3>1. PICK ev : ev = [kind |-> "Portfolio", update |-> wire]
      OBVIOUS
    <3>2. outbox["portfolio_engine"] = <<ev>>
      BY <1>1, <1>8, <2>4, <3>1 DEF OutboxOK, Publish
    <3>3. ev \in Event /\ ev.kind # "Execution"
      BY <3>1 DEF LoopInv, Engines, Event, PortfolioEvents
    <3> QED
      BY <2>2, <2>4, <3>2, <3>3
  <2> QED
    BY <2>1, <2>3, <2>4 DEF Tasks
<1>9. CASE Advance \/ Finished \/ UNCHANGED vars
  <2>1. log' = log /\ cursor' = cursor /\ outbox' = outbox
    BY <1>9 DEF Advance, Finished, vars
  <2> QED
    BY <1>1, <2>1, OrderUntouched
<1> QED
  BY <1>2, <1>4, <1>5, <1>6, <1>7, <1>8, <1>9 DEF Next

\* The n-th Execution on the bus is that of the n-th approval, and follows it:
\* whatever arrives and expires in between, the simulator skips no approval,
\* executes none twice and lets none overtake another.
THEOREM ExecutionsFollowApprovalsHolds == Spec => []ExecutionsFollowApprovals
<1>1. Init => InOrder
  <2> SUFFICES ASSUME Init PROVE InOrder
    OBVIOUS
  <2>1. OfKind("Execution") = {} /\ outbox["execution_sim"] = <<>>
    BY TaskFacts DEF Init, OfKind
  <2> QED
    BY <2>1 DEF InOrder, Executing, ExecutionsFollowApprovals
<1>2. InOrder => ExecutionsFollowApprovals
  BY DEF InOrder
<1> QED
  BY <1>1, <1>2, OrderNext, LoopInvariant, PTL DEF Spec
=============================================================================

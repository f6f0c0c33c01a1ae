------------------------ MODULE PerformanceAnalytics ------------------------
(***************************************************************************)
(* crates/performance_analytics: one task that marks the portfolio to      *)
(* market, keeps a window of snapshots with the drawdown since the start,  *)
(* and feeds the diagnostics of the signals' edge, the struct EdgeMetrics  *)
(* of edge_metrics.rs: the Edge operators take it as e and give it back    *)
(* changed.                                                                *)
(*                                                                         *)
(* Money and probabilities are integers, Scale being a probability of 1.0. *)
(* Exports and the sums per agent are left out; of the gauges, those       *)
(* derived from the window are kept.  The logarithm of a decay fraction is *)
(* replaced by its distance from 1.0, which is zero and grows in the same  *)
(* places.                                                                 *)
(***************************************************************************)
EXTENDS Integers, Sequences, SequencesExt, FiniteSets, FiniteSetsExt, RustStd

CONSTANTS
  Scale,
  ResolveLow, ResolveHigh,  \* RESOLVE_LOW and RESOLVE_HIGH
  MoveThreshold,            \* PRECISION_MOVE_THRESHOLD
  PrecisionTtl,             \* PRECISION_TTL
  SampleAges,               \* HALF_LIFE_5MIN, HALF_LIFE_30MIN and HALF_LIFE_1HR
  MaxDecaySamples,          \* MAX_DECAY_SAMPLES
  MaxPendingHalfLife,       \* MAX_PENDING_HALF_LIFE
  Markets, Prices,
  Portfolios,       \* the portfolios that Portfolio events carry: [positions, pnl]
  Signals,          \* the signals: [market, dir, price, posterior]
  Executions,       \* the executions: [market, dir, price, posterior, filled]
  InitialBankroll,  \* initial_bankroll
  HistoryWindow,    \* history_window
  MaxClock,         \* bound: the last instant of the clock
  MaxEvents         \* bound: the events received

VARIABLES
  state,   \* [history, prices, peak, max_drawdown, edge, clock]
  out,     \* the gauges set by the last step
  hist     \* [events, equities]: how many events came, and every equity seen

vars == <<state, out, hist>>

----------------------------------------------------------------------------
(* EdgeMetrics.                                                            *)
NewEdge ==
  [expected |-> 0, signals |-> 0, realized |-> 0, executions |-> 0, impact |-> 0,
   brier |-> 0, scored |-> 0, posterior |-> EmptyMap,
   correct |-> 0, total |-> 0, pending |-> <<>>,
   half_life |-> <<>>, samples |-> <<>>, estimate |-> <<>>, prices |-> EmptyMap]

Distance(a, b) == IF a >= b THEN a - b ELSE b - a
Last1Hr == CHOOSE a \in SampleAges : \A b \in SampleAges : b <= a

\* What a trade in this direction gains when the price goes from a to b.
Gain(dir, a, b) == IF dir = "Sell" THEN a - b ELSE b - a

\* A full queue of observations refuses the new one.
EdgeOnSignal(e, sig, now) ==
  LET edge == Gain(sig.dir, sig.price, sig.posterior)
  IN [e EXCEPT
        !.expected = @ + edge,
        !.signals = @ + 1,
        !.posterior = Insert(@, sig.market, sig.posterior),
        !.pending = Append(@, [market |-> sig.market, dir |-> sig.dir, price |-> sig.price, at |-> now]),
        !.half_life = IF edge # 0 /\ Len(@) < MaxPendingHalfLife
                      THEN Append(@, [market |-> sig.market, edge |-> edge, posterior |-> sig.posterior,
                                      at |-> now, sampled |-> {}])
                      ELSE @]

EdgeOnExecution(e, x) ==
  IF ~x.filled THEN e
  ELSE [e EXCEPT !.realized = @ + Gain(x.dir, x.price, x.posterior), !.executions = @ + 1,
               !.impact = IF x.market \in DOMAIN e.prices
                          THEN @ + Distance(x.price, e.prices[x.market]) ELSE @]

\* The last posterior is scored at an extreme price, and forgotten.
Scored(e, m, p) ==
  IF (p <= ResolveLow \/ p >= ResolveHigh) /\ m \in DOMAIN e.posterior
  THEN LET miss == Distance(e.posterior[m], IF p <= ResolveLow THEN 0 ELSE Scale)
       IN [e EXCEPT !.brier = @ + miss * miss, !.scored = @ + 1, !.posterior = RemoveAll(@, {m})]
  ELSE e

Correct(ps, p) == Gain(ps.dir, ps.price, p) >= MoveThreshold

\* Signals on the market that came true or are too old leave the queue, and
\* each counts once.
ResolvePending(e, m, p, now) ==
  LET done(ps) == ps.market = m /\ (Correct(ps, p) \/ now - ps.at >= PrecisionTtl)
      resolved == SelectSeq(e.pending, done)
  IN [e EXCEPT !.pending = SelectSeq(@, LAMBDA ps : ~done(ps)),
               !.total = @ + Len(resolved),
               !.correct = @ + Len(SelectSeq(resolved, LAMBDA ps : Correct(ps, p)))]

\* The slope of the regression of y on x over the samples not yet decayed
\* to nothing, as <<numerator, denominator>>, when it is positive.
Recompute(samples, estimate) ==
  LET valid == SelectSeq(samples, LAMBDA s : s.left > 0)
      total(f(_)) == FoldLeft(LAMBDA acc, s : acc + f(s), 0, valid)
      y(s) == Scale - s.left
      n == Len(valid)
      over == n * total(LAMBDA s : s.age * s.age) - total(LAMBDA s : s.age) * total(LAMBDA s : s.age)
      slope == n * total(LAMBDA s : s.age * y(s)) - total(LAMBDA s : s.age) * total(y)
  IN IF n < 2 \/ over = 0 \/ slope <= 0 THEN estimate ELSE <<slope, over>>

LastN(s, n) == IF Len(s) > n THEN SubSeq(s, Len(s) - n + 1, Len(s)) ELSE s

\* Each observation of the market gives a sample for every age it has now
\* reached, and leaves the queue with the last.
SampleHalfLife(e, m, p, now) ==
  LET due(s) == IF s.market = m THEN {a \in SampleAges \ s.sampled : now - s.at >= a} ELSE {}
      left(s) == MinOf((Distance(s.posterior, p) * Scale) \div Distance(s.edge, 0), Scale)
      news == FoldLeft(LAMBDA acc, s : acc \o [i \in 1..Cardinality(due(s)) |->
                                                 [age |-> now - s.at, left |-> left(s)]],
                       <<>>, e.half_life)
      seen == [i \in DOMAIN e.half_life |-> [e.half_life[i] EXCEPT !.sampled = @ \cup due(e.half_life[i])]]
      samples == LastN(e.samples \o news, MaxDecaySamples)
  IN [e EXCEPT !.half_life = LastN(SelectSeq(seen, LAMBDA s : Last1Hr \notin s.sampled),
                                   MaxPendingHalfLife),
               !.samples = samples,
               !.estimate = IF news = <<>> THEN @ ELSE Recompute(samples, @)]

EdgeOnMarket(e, m, p, now) ==
  LET priced == [e EXCEPT !.prices = Insert(@, m, p)]
  IN SampleHalfLife(ResolvePending(Scored(priced, m, p), m, p, now), m, p, now)

EdgeTick(e, now) ==
  LET alive == SelectSeq(e.pending, LAMBDA ps : now - ps.at < PrecisionTtl)
  IN [e EXCEPT !.pending = alive, !.total = @ + Len(e.pending) - Len(alive)]

----------------------------------------------------------------------------
(* The portfolio.                                                          *)
Ratio(n, d) == [n |-> n, d |-> d]
Less(r, s) == r.n * s.d < s.n * r.d

PositionMtm(pos, p) == Gain(pos.dir, pos.entry, p) * pos.size

BuildMetrics(pf, prices) ==
  LET marked == {pos \in pf.positions : pos.market \in DOMAIN prices}
      mtm(pos) == PositionMtm(pos, prices[pos.market])
      unrealized == MapThenSumSet(mtm, marked)
  IN [marks |-> [m \in {pos.market : pos \in marked} |-> prices[m]],
      unrealized |-> unrealized, realized |-> pf.pnl - unrealized,
      total |-> pf.pnl, equity |-> InitialBankroll + pf.pnl]

Drawdown(peak, equity) == IF peak > 0 THEN Ratio(peak - equity, peak) ELSE Ratio(0, 1)

\* What the gauges show of the window: win rate and drawdown.
RiskMetrics(history, peak, max_drawdown) ==
  LET n == Len(history)
      wins == {i \in 2..n : history[i].total > history[i - 1].total}
  IN [max_drawdown |-> max_drawdown,
      drawdown |-> IF n < 2 THEN Ratio(0, 1) ELSE Drawdown(peak, history[n].equity),
      win_rate |-> IF n < 2 THEN Ratio(0, 1) ELSE Ratio(Cardinality(wins), n - 1)]

----------------------------------------------------------------------------
Init ==
  /\ state = [history |-> <<>>, prices |-> EmptyMap, peak |-> 0, max_drawdown |-> Ratio(0, 1),
              edge |-> NewEdge, clock |-> 0]
  /\ out = <<>>
  /\ hist = [events |-> 0, equities |-> <<>>]

Counted == hist.events < MaxEvents

\* Prices of markets without a position are dropped.
Pruned(prices, pf) ==
  Restrict(prices, {pos.market : pos \in pf.positions} \cap DOMAIN prices)

\* Mutant: the peak of the window.
NewPeak_OfWindow(equity) ==
  FoldLeft(LAMBDA acc, s : MaxOf(acc, s.equity), equity, state.history)

\* The first equity is the first peak: an equity of zero or less has none.
NewPeak(equity) == MaxOf(state.peak, equity)

OnPortfolio(pf) ==
  LET metrics == BuildMetrics(pf, state.prices)
      peak == NewPeak(metrics.equity)
      dd == Drawdown(peak, metrics.equity)
      worst == IF Less(state.max_drawdown, dd) THEN dd ELSE state.max_drawdown
      kept == IF Len(state.history) >= HistoryWindow THEN Tail(state.history) ELSE state.history
      history == Append(kept, metrics)
  IN /\ Counted
     /\ state' = [state EXCEPT !.history = history, !.peak = peak, !.max_drawdown = worst,
                               !.prices = Pruned(@, pf)]
     /\ out' = <<RiskMetrics(history, peak, worst)>>
     /\ hist' = [events |-> hist.events + 1, equities |-> Append(hist.equities, metrics.equity)]

OnMarket(m, p) ==
  /\ Counted
  /\ state' = [state EXCEPT !.prices = Insert(@, m, p),
                            !.edge = EdgeOnMarket(@, m, p, state.clock)]
  /\ hist' = [hist EXCEPT !.events = @ + 1]
  /\ out' = <<>>

OnSignal(sig) ==
  /\ Counted
  /\ state' = [state EXCEPT !.edge = EdgeOnSignal(@, sig, state.clock)]
  /\ hist' = [hist EXCEPT !.events = @ + 1] /\ out' = <<>>

OnExecution(x) ==
  /\ Counted
  /\ state' = [state EXCEPT !.edge = EdgeOnExecution(@, x)]
  /\ hist' = [hist EXCEPT !.events = @ + 1] /\ out' = <<>>

OnEdgeTick ==
  /\ state' = [state EXCEPT !.edge = EdgeTick(@, state.clock)]
  /\ out' = <<>> /\ UNCHANGED hist

Tick ==
  /\ state.clock < MaxClock
  /\ state' = [state EXCEPT !.clock = @ + 1]
  /\ out' = <<>> /\ UNCHANGED hist

Next ==
  \/ \E pf \in Portfolios : OnPortfolio(pf)
  \/ \E m \in Markets, p \in Prices : OnMarket(m, p)
  \/ \E sig \in Signals : OnSignal(sig)
  \/ \E x \in Executions : OnExecution(x)
  \/ OnEdgeTick
  \/ Tick

----------------------------------------------------------------------------
(***************************************************************************)
(* Properties.                                                             *)
(***************************************************************************)
\* Every signal is judged exactly once, by a price, by its age at a price or
\* by the timer: what is counted and what still waits add up to the signals.
EverySignalJudgedOnce ==
  LET e == state.edge
  IN e.total + Len(e.pending) = e.signals /\ e.correct <= e.total

\* The drawdown reported is the worst fall from any equity to a later one, as
\* a share of the higher: also when the snapshots have left the window, and
\* when a smaller fall from a higher peak came later.
DrawdownIsWorstFall ==
  LET eq == hist.equities
      falls == {Drawdown(eq[i], eq[j]) : <<i, j>> \in {x \in (DOMAIN eq) \X (DOMAIN eq) : x[1] <= x[2]}}
  IN /\ \A f \in falls : ~Less(state.max_drawdown, f)
     /\ eq # <<>> => \E f \in falls : ~Less(f, state.max_drawdown)
=============================================================================

------------------------------ MODULE Backtest ------------------------------
(***************************************************************************)
(* crates/strategy_research: one backtest of one generated strategy over   *)
(* synthetic markets, a tick at a time.                                    *)
(*                                                                         *)
(* Prices are integers, Scale being 1.0; the random walk and the posterior *)
(* noise are any choice of moves and noises.  A z-score is kept as its     *)
(* sign, doubled when it is beyond the shock threshold, and a fraction of  *)
(* capital as an integer, so a trade's PnL is its move times its fraction. *)
(***************************************************************************)
EXTENDS Integers, Sequences, SequencesExt, FiniteSets, FiniteSetsExt, RustStd, SignalMath

CONSTANTS
  NumMarkets,     \* backtest_markets
  Strategies,     \* generated strategies: [conditions, op, rule, sizing]
  Moves, Noises,  \* the moves and the posterior noises drawn
  Scale,
  InitialCapital, \* initial_capital
  Ticks,          \* backtest_ticks
  HoldTicks,      \* hold_ticks
  MinHistory,     \* MIN_HISTORY_FOR_ZSCORE
  RollingWindow,  \* ROLLING_WINDOW
  ShockZ,         \* SHOCK_Z_THRESHOLD
  KellyCap        \* the cap of kelly_fraction

VARIABLES
  state,   \* [strategy, tick, prob, deltas, positions, realised, curve, metrics]
  out,     \* the trades completed so far, with their first and last tick
  hist     \* unused

vars == <<state, out, hist>>

Ms == 0..(NumMarkets - 1)
Bounded(p) == MinOf(MaxOf(p, 1), Scale - 1)

ZScore(ds, d) ==
  LET dev == Deviation(ds, d)
      sign == IF dev > 0 THEN 1 ELSE IF dev < 0 THEN -1 ELSE 0
  IN IF Len(ds) < MinHistory \/ Len(ds) < 2 THEN 0
     ELSE IF Beyond(ds, d, ShockZ) THEN 2 * sign ELSE sign

----------------------------------------------------------------------------
(***************************************************************************)
(* The rules of a strategy.                                                *)
(***************************************************************************)
\* A condition is [feature, op, threshold].
Holds(c, snapshot) ==
  LET value == snapshot[c.feature]
  IN CASE c.op = "gt" -> value > c.threshold
       [] c.op = "lt" -> value < c.threshold
       [] c.op = "abs" -> Magnitude(value) > c.threshold

ConditionsMet(s, snapshot) ==
  /\ s.conditions # {}
  /\ IF s.op = "and" THEN \A c \in s.conditions : Holds(c, snapshot)
                     ELSE \E c \in s.conditions : Holds(c, snapshot)

ResolveDirection(s, snapshot) ==
  LET side(up) == IF up THEN "Buy" ELSE "Sell"
  IN CASE s.rule = "buy" -> "Buy"
       [] s.rule = "sell" -> "Sell"
       [] s.rule = "posterior" -> side(snapshot.edge >= 0)
       [] s.rule = "contrarian" -> side(snapshot.edge < 0)
       [] s.rule = "momentum" -> side(snapshot.momentum >= 0)

Kelly(p, m) ==
  MinOf((Magnitude(p - m) * Scale) \div (IF p > m THEN Scale - m ELSE m), KellyCap)

\* sizing is a fixed fraction, or 0 for Kelly.
ResolveSizing(s, snapshot) ==
  IF s.sizing > 0 THEN s.sizing ELSE Kelly(snapshot.price + snapshot.edge, snapshot.price)

Evaluate(s, snapshot) ==
  IF ConditionsMet(s, snapshot) /\ ResolveSizing(s, snapshot) > 0
  THEN <<[dir |-> ResolveDirection(s, snapshot), fraction |-> ResolveSizing(s, snapshot)]>>
  ELSE <<>>

----------------------------------------------------------------------------
Pnl(pos, exit) ==
  (IF pos.dir = "Sell" THEN pos.entry - exit ELSE exit - pos.entry) * pos.fraction

Init ==
  /\ \E s \in Strategies :
       state = [strategy |-> s, tick |-> 0, prob |-> [i \in Ms |-> Scale \div 2],
                deltas |-> [i \in Ms |-> <<>>], positions |-> EmptyMap, realised |-> 0, curve |-> <<>>,
                metrics |-> <<>>]
  /\ out = <<>> /\ hist = <<>>

\* The trades that close the positions of the markets is.
Closed(is, prob) ==
  LET close(i) == [market |-> i, first |-> state.positions[i].first, last |-> state.tick,
                   pnl |-> Pnl(state.positions[i], prob[i])]
  IN [k \in DOMAIN SetToSeq(is) |-> close(SetToSeq(is)[k])]

Sums(trades) == FoldLeft(LAMBDA acc, t : acc + t.pnl, 0, trades)

Mature == {i \in DOMAIN state.positions : state.positions[i].held >= HoldTicks}

\* What the strategy sees of market i once the prices have moved.
Snapshot(i, prob, z, noise) ==
  [price |-> prob[i], edge |-> Bounded(prob[i] + noise[i]) - prob[i],
   graph |-> Bounded((7 * prob[i] + 3 * prob[(i + 1) % NumMarkets]) \div 10) - prob[i],
   momentum |-> z[i], shock |-> IF Magnitude(z[i]) = 2 THEN 1 ELSE 0]

\* One tick: prices move, mature positions close, the others age, and the
\* strategy looks at every market without a position.
Step ==
  /\ state.tick < Ticks
  /\ \E move \in [Ms -> Moves], noise \in [Ms -> Noises] :
       LET prob == [i \in Ms |-> Bounded(state.prob[i] + move[i])]
           delta == [i \in Ms |-> prob[i] - state.prob[i]]
           z == [i \in Ms |-> ZScore(state.deltas[i], delta[i])]
           trades == Closed(Mature, prob)
           kept == RemoveAll(state.positions, Mature)
           aged == [i \in DOMAIN kept |-> [kept[i] EXCEPT !.held = @ + 1]]
           entry(i) == Evaluate(state.strategy, Snapshot(i, prob, z, noise))
           entered == {i \in Ms \ DOMAIN kept : entry(i) # <<>>}
           opened == [i \in entered |-> [dir |-> entry(i)[1].dir, fraction |-> entry(i)[1].fraction,
                                         entry |-> prob[i], held |-> 0, first |-> state.tick]]
           realised == state.realised + Sums(trades)
       IN /\ state' = [state EXCEPT !.tick = @ + 1, !.prob = prob, !.realised = realised,
                         !.deltas = [i \in Ms |-> Push(@[i], delta[i], RollingWindow)],
                         !.positions = [i \in DOMAIN aged \cup entered |->
                                          IF i \in entered THEN opened[i] ELSE aged[i]],
                         !.curve = Append(@, InitialCapital + realised)]
          /\ out' = out \o trades
  /\ UNCHANGED hist

\* Mutant: the last point of the curve does not know the forced exits.
Restated_Not(curve, realised) == curve

\* The last point of the curve is restated.
Restated(curve, realised) == [curve EXCEPT ![Len(curve)] = InitialCapital + realised]

\* The worst fall of the curve from its peak, in hundredths of the peak.
WorstFall(curve) ==
  FoldLeft(LAMBDA acc, eq :
             LET peak == MaxOf(acc.peak, eq)
             IN [peak |-> peak,
                 fall |-> IF peak > 0 THEN MaxOf(acc.fall, (100 * (peak - eq)) \div peak) ELSE acc.fall],
           [peak |-> curve[1], fall |-> 0], curve).fall

\* The metrics that do not depend on the distribution of returns.
MetricsOf(trades, curve) ==
  IF trades = <<>> THEN [trade_count |-> 0, wins |-> 0, total |-> 0, max_drawdown |-> 100]
  ELSE [trade_count |-> Len(trades), wins |-> Len(SelectSeq(trades, LAMBDA t : t.pnl > 0)),
        total |-> curve[Len(curve)] - InitialCapital, max_drawdown |-> WorstFall(curve)]

\* After the last tick every position is closed at the last price.
ForceClose ==
  /\ state.tick = Ticks
  /\ LET trades == Closed(DOMAIN state.positions, state.prob)
         realised == state.realised + Sums(trades)
     IN /\ state' = [state EXCEPT !.tick = Ticks + 1, !.positions = EmptyMap, !.realised = realised,
                       !.curve = Restated(@, realised),
                       !.metrics = MetricsOf(out \o trades, Restated(state.curve, realised))]
        /\ out' = out \o trades
  /\ UNCHANGED hist

Next == Step \/ ForceClose

----------------------------------------------------------------------------
(***************************************************************************)
(* Properties.                                                             *)
(***************************************************************************)
\* The equity curve ends with the money the trades made, forced exits
\* included, so that return, drawdown and Sharpe ratio speak of the same
\* trades as the win rate; and trades of a market never overlap.
CurveAccountsForTrades ==
  /\ state.curve # <<>> => state.curve[Len(state.curve)] = InitialCapital + Sums(out)
  /\ \A a, b \in DOMAIN out :
       a < b /\ out[a].market = out[b].market => out[a].last <= out[b].first
=============================================================================

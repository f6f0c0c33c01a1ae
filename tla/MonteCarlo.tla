----------------------------- MODULE MonteCarlo -----------------------------
(***************************************************************************)
(* crates/simulation_engine/src/monte_carlo.rs: independent paths of a     *)
(* toy market, traded by a toy strategy, and the risk figures over them.   *)
(* The paths run in parallel and share nothing; here they run one after    *)
(* the other, and their results are kept from the worst to the best, for   *)
(* no figure depends on their order.                                       *)
(*                                                                         *)
(* Probabilities are in units of 1 / Scale; a draw is a choice from a      *)
(* small set.  Fractions of the initial value are kept in dollars.         *)
(***************************************************************************)
EXTENDS Integers, Sequences, SequencesExt, FiniteSets, RustStd

CONSTANTS
  Start,         \* the markets at first: [prob, implied, posterior]
  Scale,
  Noises,        \* volatility times a normal draw
  Drift, RevDen, \* drift; mean_reversion_speed is 1 / RevDen
  Shocks,        \* the moves of a shocked market, {} for no shocks
  Threshold,     \* signal_threshold, an even number
  FracDen,       \* position_fraction is 1 / FracDen
  InitialValue,  \* portfolio_value
  Horizon, NumPaths,
  Permille       \* the unit of a drawdown

VARIABLES
  state,   \* [done, probs, posts, positions, series]
  out,     \* the result, once every path is done
  hist     \* the profit of the trades closed in this path

vars == <<state, out, hist>>

Part(num, den) == IF num >= 0 THEN num \div den ELSE -((-num) \div den)
Bounded(p) == MaxOf(0, MinOf(p, Scale))
Indices == DOMAIN Start

NewPath(done) ==
  [done |-> done, probs |-> [i \in Indices |-> Start[i].prob], posts |-> [i \in Indices |-> Start[i].posterior],
   positions |-> [i \in Indices |-> <<>>], series |-> <<InitialValue>>]

Init ==
  /\ state = NewPath(<<>>)
  /\ out = {}
  /\ hist = 0

----------------------------------------------------------------------------
\* Noise, reversion to the implied probability and drift.
Evolved(probs, noise) ==
  [i \in Indices |-> Bounded(probs[i] + noise[i] + Part(Start[i].implied - probs[i], RevDen) + Drift)]

\* A shock hits any non-empty choice of the markets.
Shocked(probs) ==
  {probs} \cup {[i \in Indices |-> Bounded(probs[i] + by[i])]
                  : by \in [Indices -> {0} \cup Shocks]}

Fused(posts, probs) == [i \in Indices |-> Bounded((4 * posts[i] + probs[i]) \div 5)]

\* One market of a tick: exits whatever the equity, entries only with some.
Trade(acc, i) ==
  LET edge == acc.posts[i] - acc.probs[i]
      p == acc.probs[i]
      open == acc.positions[i]
      pos == open[1]
      stays == IF pos.buy THEN edge >= Threshold \div 2 ELSE edge <= -(Threshold \div 2)
      pnl == Part((IF pos.buy THEN p - pos.entry ELSE pos.entry - p) * pos.size, Scale)
  IN CASE open # <<>> /\ stays -> acc
       [] open # <<>> /\ ~stays -> [acc EXCEPT !.equity = @ + pnl, !.positions[i] = <<>>, !.pnl = @ + pnl]
       [] open = <<>> /\ (acc.equity <= 0 \/ (edge < Threshold /\ edge > -Threshold)) -> acc
       [] OTHER -> [acc EXCEPT !.positions[i] =
                      <<[entry |-> p, buy |-> edge > 0, size |-> acc.equity \div FracDen]>>]

Step ==
  /\ Len(state.series) <= Horizon
  /\ \E noise \in [Indices -> Noises] : \E probs \in Shocked(Evolved(state.probs, noise)) :
       LET posts == Fused(state.posts, probs)
           traded == FoldLeft(Trade, [probs |-> probs, posts |-> posts, positions |-> state.positions,
                                      equity |-> Last(state.series), pnl |-> 0],
                              [i \in Indices |-> i])
       IN /\ state' = [state EXCEPT !.probs = probs, !.posts = posts, !.positions = traded.positions,
                                    !.series = Append(@, traded.equity)]
          /\ hist' = hist + traded.pnl
  /\ UNCHANGED out

----------------------------------------------------------------------------
\* The peak so far and the worst fall below it, a part of the peak.
ComputeMaxDrawdown(series) ==
  FoldLeft(LAMBDA acc, eq :
             IF acc.peak = <<>> \/ eq > acc.peak[1] THEN [acc EXCEPT !.peak = <<eq>>]
             ELSE IF acc.peak[1] > 0
             THEN [acc EXCEPT !.worst = MaxOf(@, MinOf(Part((acc.peak[1] - eq) * Permille, acc.peak[1]), Permille))]
             ELSE acc,
           [peak |-> <<>>, worst |-> 0], series).worst

\* Mutant: the boundary is read one place further on.
TailSize_Next(n) == MinOf(n \div 20 + 2, n)

\* The paths in the loss tail of n at the confidence level 0.95, at most all:
\* (1.0 - 0.95) * n rounded up.  In floating point 1.0 - 0.95 is a little more than
\* 0.05, so that a multiple of 20 gives one path more than a twentieth.
TailSize(n) == MinOf(n \div 20 + 1, n)

\* The worst paths: the boundary loss and the mean loss.
ComputeVarCvar(returns) ==
  LET sorted == SortSeq(returns, <)
      n == Len(sorted)
      tail == TailSize(n)
      loss == -sorted[tail]
  IN [tail |-> tail, var |-> MaxOf(loss, 0),
      cvar |-> MaxOf(0, -FoldLeft(+, 0, SubSeq(sorted, 1, tail)))]   \* times tail

AggregateResults(paths) ==
  LET returns == [i \in DOMAIN paths |-> paths[i].final - InitialValue]
  IN [paths |-> paths,
      total |-> FoldLeft(+, 0, returns),
      drawdown |-> FoldLeft(LAMBDA w, p : MaxOf(w, p.drawdown), 0, paths),
      profits |-> Cardinality({i \in DOMAIN paths : returns[i] > 0}),
      tail |-> ComputeVarCvar(returns)]

\* The path is measured; after the last one the results are put together.
EndPath ==
  LET path == [final |-> Last(state.series), drawdown |-> ComputeMaxDrawdown(state.series)]
      worse(a, b) == a.final < b.final \/ (a.final = b.final /\ a.drawdown < b.drawdown)
      done == SortSeq(Append(state.done, path), worse)
  IN /\ Len(state.series) = Horizon + 1
     /\ out = {}
     /\ IF Len(done) < NumPaths THEN state' = NewPath(done) /\ hist' = 0 /\ UNCHANGED out
        ELSE /\ state' = [state EXCEPT !.done = done]
             /\ out' = {AggregateResults(done)}
             /\ UNCHANGED hist

Next == Step \/ EndPath

----------------------------------------------------------------------------
(***************************************************************************)
(* Properties.                                                             *)
(***************************************************************************)
\* Each path's value is the initial one and the profit of its trades; its
\* drawdown is the worst fall between any two of its ticks; and the value at
\* risk is the least loss that no more than one path in twenty exceeds ("the loss
\* not exceeded in 95% of paths"), with the mean loss of the tail no smaller.
RiskFiguresAreRight ==
  /\ Last(state.series) = InitialValue + hist
  /\ LET s == state.series
         fall(i, j) == MinOf(Part((s[i] - s[j]) * Permille, s[i]), Permille)
         pairs == {p \in (DOMAIN s) \X (DOMAIN s) : p[1] < p[2] /\ s[p[1]] > 0}
         worst == ComputeMaxDrawdown(s)
     IN /\ \A p \in pairs : fall(p[1], p[2]) <= worst
        /\ worst > 0 => \E p \in pairs : fall(p[1], p[2]) = worst
  /\ \A r \in out :
       LET loses(x) == {i \in DOMAIN r.paths : InitialValue - r.paths[i].final >= x}
       IN /\ 20 * Cardinality(loses(r.tail.var + 1)) <= NumPaths
          /\ r.tail.var > 0 => 20 * Cardinality(loses(r.tail.var)) > NumPaths
          /\ r.tail.cvar >= r.tail.var * r.tail.tail
          /\ r.profits + Cardinality(loses(0)) = NumPaths
=============================================================================

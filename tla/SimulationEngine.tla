-------------------------- MODULE SimulationEngine --------------------------
(***************************************************************************)
(* crates/simulation_engine: an offline job chosen by the mode (Monte      *)
(* Carlo runs, a parameter sweep, a replay of recorded ticks onto the bus) *)
(* and after it, in every mode, an observer of the live portfolio.         *)
(*                                                                         *)
(* Probabilities are in units of 1 / Scale; a configuration of the         *)
(* generator is the set of moves one tick can make.                        *)
(***************************************************************************)
EXTENDS Integers, Sequences, SequencesExt, FiniteSets, RustStd

CONSTANTS
  Modes,           \* the modes the engine is started in
  Initials,        \* initial_prob of the markets, a sequence
  Scale, MinProb, MaxProb,   \* the clamp of the generator
  Config,          \* the configured generator: [moves, runs]
  SweepPoints,     \* default_sweep_points: a sequence of the same
  MaxTicks, Threshold, FracDen, InitialCapital,
  Directory,       \* the recorded files: a set of [name, readable, lines]
  Bad,             \* a line that does not parse
  Pnls, Slippages, MaxObserved,   \* bound: the events observed
  Permille

VARIABLES
  state,   \* [phase, mode, mc, points, runs, results, ticks, metrics]
  out,     \* the market updates published by the last step
  hist     \* [published, seen]: the ticks replayed and the equities observed

vars == <<state, out, hist>>

Part(num, den) == IF num >= 0 THEN num \div den ELSE -((-num) \div den)
NoPeak == -1

----------------------------------------------------------------------------
\* One market of a tick: the toy strategy sells a rise and buys a fall.
Trade(acc, i) ==
  LET p == acc.probs[i]
      deviation == p - Initials[i]
      pos == acc.positions[i][1]
      far == deviation >= Threshold \/ -deviation >= Threshold
      stays == IF pos.buy THEN 2 * deviation < -Threshold ELSE 2 * deviation > Threshold
      pnl == Part((IF pos.buy THEN p - pos.entry ELSE pos.entry - p) * pos.size, Scale)
  IN CASE acc.positions[i] = <<>> /\ far ->
            [acc EXCEPT !.positions[i] = <<[entry |-> p, buy |-> deviation < 0, size |-> acc.equity \div FracDen]>>]
       [] acc.positions[i] # <<>> /\ ~stays ->
            [acc EXCEPT !.equity = @ + pnl, !.positions[i] = <<>>, !.trades = @ + 1,
                        !.wins = IF pnl > 0 THEN @ + 1 ELSE @]
       [] OTHER -> acc

\* A new high, or the fall from the highest.
Marked(path) ==
  IF path.equity > path.peak THEN [path EXCEPT !.peak = path.equity]
  ELSE [path EXCEPT !.dd = MaxOf(@, Part((path.peak - path.equity) * Permille, MaxOf(path.peak, 1)))]

NextTick(path, by) ==
  LET probs == [i \in DOMAIN Initials |-> MaxOf(MinProb, MinOf(path.probs[i] + by[i], MaxProb))]
  IN Marked(FoldLeft(Trade, [path EXCEPT !.probs = probs], [i \in DOMAIN Initials |-> i]))

\* The results one path can have; a position still open at the end is left.
SinglePath(moves) ==
  LET start == [probs |-> Initials, positions |-> [i \in DOMAIN Initials |-> <<>>], equity |-> InitialCapital,
                peak |-> InitialCapital, dd |-> 0, trades |-> 0, wins |-> 0]
      ticked(paths) == UNION {{NextTick(path, by) : by \in [DOMAIN Initials -> moves]} : path \in paths}
  IN {[final |-> p.equity, dd |-> p.dd, trades |-> p.trades, wins |-> p.wins]
        : p \in FoldLeft(LAMBDA paths, t : ticked(paths), {start}, [t \in 1..MaxTicks |-> t])}

----------------------------------------------------------------------------
NewMetrics == [series |-> <<>>, peak |-> NoPeak, dd |-> 0, pnls |-> 0, wins |-> 0, total |-> 0]

\* The recorded ticks in the order of the file names, without what does not
\* parse and the files that cannot be read.
LoadDir ==
  LET files == SetToSortSeq({f \in Directory : f.readable}, LAMBDA f, g : f.name < g.name)
      good(f) == SelectSeq(f.lines, LAMBDA l : l # Bad)
  IN FlattenSeq([i \in DOMAIN files |-> good(files[i])])

Init ==
  /\ \E mode \in Modes :
       state = [phase |-> "start", mode |-> mode, mc |-> Config, points |-> <<>>, runs |-> 0,
                results |-> <<>>, ticks |-> <<>>, metrics |-> NewMetrics]
  /\ out = <<>>
  /\ hist = [published |-> <<>>, seen |-> <<>>]

Quiet == out' = <<>> /\ UNCHANGED hist

StartMonteCarlo ==
  /\ state.phase = "start" /\ state.mode = "MonteCarlo"
  /\ state' = [state EXCEPT !.phase = "run", !.runs = Config.runs]
  /\ Quiet

StartSweep ==
  /\ state.phase = "start" /\ state.mode = "ParameterSweep"
  /\ state' = [state EXCEPT !.phase = "run", !.mc = SweepPoints[1], !.points = Tail(SweepPoints),
                            !.runs = SweepPoints[1].runs]
  /\ Quiet

StartReplay ==
  /\ state.phase = "start" /\ state.mode = "HistoricalReplay"
  /\ state' = [state EXCEPT !.phase = "replay", !.ticks = LoadDir]
  /\ Quiet

StartObserver ==
  /\ state.phase = "start" /\ state.mode = "LiveObserver"
  /\ state' = [state EXCEPT !.phase = "observe"]
  /\ Quiet

\* One run of the current configuration; the run ids start again at each point.
Run ==
  /\ state.phase = "run" /\ state.runs > 0
  /\ \E r \in SinglePath(state.mc.moves) :
       state' = [state EXCEPT !.runs = @ - 1, !.results = Append(@, [id |-> state.mc.runs - state.runs] @@ r)]
  /\ Quiet

\* Mutant: the configuration of the last point stays.
EndOfRuns_Kept ==
  IF state.points = <<>> THEN [state EXCEPT !.phase = "observe"]
  ELSE [state EXCEPT !.mc = Head(state.points), !.points = Tail(@), !.runs = Head(state.points).runs]

\* On to the next point of the sweep, or back to the original configuration.
EndOfRuns ==
  IF state.points = <<>> THEN [state EXCEPT !.phase = "observe", !.mc = Config]
  ELSE [state EXCEPT !.mc = Head(state.points), !.points = Tail(@), !.runs = Head(state.points).runs]

NextPoint ==
  /\ state.phase = "run" /\ state.runs = 0
  /\ state' = EndOfRuns
  /\ Quiet

\* The updates of a tick go out before anything of the next one.
Replay ==
  /\ state.phase = "replay" /\ state.ticks # <<>>
  /\ state' = [state EXCEPT !.ticks = Tail(@)]
  /\ out' = Head(state.ticks)
  /\ hist' = [hist EXCEPT !.published = Append(@, Head(state.ticks))]

ReplayDone ==
  /\ state.phase = "replay" /\ state.ticks = <<>>
  /\ state' = [state EXCEPT !.phase = "observe"]
  /\ Quiet

----------------------------------------------------------------------------
\* The observer subscribes when its loop starts.
OnExecution(filled, slippage) ==
  /\ state.phase = "observe" /\ state.metrics.total < MaxObserved
  /\ state' = [state EXCEPT !.metrics.total = @ + 1, !.metrics.pnls = IF filled THEN @ + 1 ELSE @,
                            !.metrics.wins = IF filled /\ slippage < 0 THEN @ + 1 ELSE @]
  /\ Quiet

OnPortfolio(pnl) ==
  LET equity == InitialCapital + pnl
      m == state.metrics
      dd == Part((m.peak - equity) * Permille, MaxOf(m.peak, 1))
  IN /\ state.phase = "observe" /\ Len(m.series) < MaxObserved
     /\ state' = [state EXCEPT !.metrics.series = Append(@, equity), !.metrics.peak = MaxOf(@, equity),
                               !.metrics.dd = IF equity > m.peak THEN @ ELSE MaxOf(@, dd)]
     /\ out' = <<>>
     /\ hist' = [hist EXCEPT !.seen = Append(@, equity)]

\* The collector starts again, with the same capital.
Reset ==
  /\ state.phase = "observe"
  /\ state' = [state EXCEPT !.metrics = NewMetrics]
  /\ out' = <<>>
  /\ hist' = [hist EXCEPT !.seen = <<>>]

Next ==
  \/ StartMonteCarlo \/ StartSweep \/ StartReplay \/ StartObserver
  \/ Run \/ NextPoint \/ Replay \/ ReplayDone
  \/ \E filled \in BOOLEAN, s \in Slippages : OnExecution(filled, s)
  \/ \E pnl \in Pnls : OnPortfolio(pnl)
  \/ Reset

----------------------------------------------------------------------------
(***************************************************************************)
(* Properties.                                                             *)
(***************************************************************************)
\* When it observes, the engine has published every readable tick once and
\* in order, has run every path of every point, and holds the configuration
\* it was started with; and its drawdown is the worst fall between any two
\* portfolios seen since the last reset.
JobDoneAndUndone ==
  state.phase = "observe" =>
    LET s == hist.seen
        falls == {Part((s[p[1]] - s[p[2]]) * Permille, s[p[1]])
                    : p \in {q \in (DOMAIN s) \X (DOMAIN s) : q[1] < q[2]}}
        runs == FoldLeft(LAMBDA n, c : n + c.runs, 0,
                         IF state.mode = "ParameterSweep" THEN SweepPoints
                         ELSE IF state.mode = "MonteCarlo" THEN <<Config>> ELSE <<>>)
    IN /\ state.mc = Config
       /\ Len(state.results) = runs
       /\ hist.published = IF state.mode = "HistoricalReplay" THEN LoadDir ELSE <<>>
       /\ \A f \in falls : f <= state.metrics.dd
       /\ state.metrics.dd # 0 => state.metrics.dd \in falls
=============================================================================

------------------------- MODULE PortfolioOptimizer -------------------------
(***************************************************************************)
(* crates/portfolio_optimizer: collects signals, and on every tick sizes   *)
(* them greedily under a market, a niche and a total cap.                  *)
(*                                                                         *)
(* Fractions of capital are whole units of 1/Capital; the penalised size   *)
(* is rounded up to a unit, so that a positive size stays positive as it   *)
(* does in f64.  A market's cluster (the prefix of its id) is Cluster[m].  *)
(* The diagnostic counters are left out: nothing reads them.               *)
(***************************************************************************)
EXTENDS Integers, Sequences, FiniteSets, SequencesExt, Functions, RustStd

CONSTANTS
  Signals,         \* records [market_id, expected_value, confidence, finite, position_fraction]
  Updates,         \* Portfolio events: [positions : market -> size, exposure]
  Cluster,         \* market -> niche
  Capital,         \* units in 1.0, and the reference bankroll
  MaxMarket,       \* max_allocation_per_market
  MaxNiche,        \* max_allocation_per_niche
  TotalCapital,
  PenaltyNum,      \* correlation_penalty_factor * default_cluster_correlation
  PenaltyDen,      \*   as a ratio
  PriorityModes,   \* the values of use_priority_engine to consider
  MaxPending       \* bound on the signals buffered in a window

\* The assumption on the constants, made in SignalRouting.
OptimizerConstants ==
  /\ Capital \in Nat \ {0} /\ TotalCapital \in 0..Capital
  /\ MaxMarket \in Nat /\ MaxNiche \in Nat
  /\ PenaltyDen \in Nat \ {0} /\ PenaltyNum \in 0..PenaltyDen
  /\ PriorityModes \in SUBSET BOOLEAN \ {{}} /\ MaxPending \in Nat
  /\ \A sig \in Signals :
       /\ sig.market_id \in DOMAIN Cluster /\ sig.finite \in BOOLEAN
       /\ sig.expected_value \in Int /\ sig.confidence \in Int /\ sig.position_fraction \in Nat
  /\ \A update \in Updates : IsMap(update.positions, DOMAIN Cluster, Nat) /\ update.exposure \in Nat

VARIABLES
  use_priority_engine,   \* configuration, fixed at start
  positions,          \* market -> deployed fraction
  capital_available,
  pending_signals,
  emitted,            \* the OptimizedSignals published by the last step
  flushed             \* history: what the last step's flush was given, and its budget

vars == <<use_priority_engine, positions, capital_available, pending_signals, emitted, flushed>>

CeilDiv(a, b) == -((-a) \div b)

Raev(sig) == sig.expected_value * sig.confidence

\* The signals of a market whose RAEV is finite, by their indices.
OwnOf(signals, market) ==
  {i \in DOMAIN signals : signals[i].market_id = market /\ signals[i].finite}

MarketsOf(signals) == {signals[i].market_id : i \in {j \in DOMAIN signals : signals[j].finite}}

\* Mutant: the last signal of a market wins.
BestOf_Last(signals, market) == signals[Max(OwnOf(signals, market))]

\* Step 1, for one market: the first of the signals with the highest RAEV.
BestOf(signals, market) ==
  LET own == OwnOf(signals, market)
      top == {i \in own : \A j \in own : Raev(signals[i]) >= Raev(signals[j])}
  IN  signals[Min(top)]

Deduped(signals) == {BestOf(signals, m) : m \in MarketsOf(signals)}

\* Step 2: the orders the sort can leave (a HashMap feeds it, so ties fall freely).
Rankings(best) ==
  {r \in SetToSeqs(best) : \A i, j \in DOMAIN r : i < j => Raev(r[i]) >= Raev(r[j])}

\* The fraction a signal gets when used is gone in all and niche_used in its niche.
Allocation(sig, budget, used, niche_used) ==
  LET capped  == MinOf(MinOf(sig.position_fraction, MaxMarket),
                       MinOf(MaxOf(MaxNiche - niche_used, 0), MaxOf(budget - used, 0)))
      \* 1 - penalty * niche_used / MaxNiche, over the denominator whole
      whole   == PenaltyDen * MaxNiche
      scale   == IF MaxNiche > 0 THEN MaxOf(whole - PenaltyNum * niche_used, 0)
                                 ELSE MaxOf(PenaltyDen - PenaltyNum, 0)
  IN  CeilDiv(capped * scale, IF MaxNiche > 0 THEN whole ELSE PenaltyDen)

\* One round of step 3: signals without an allocation are dropped.
Charge(acc, sig, alloc) ==
  LET c == Cluster[sig.market_id]
  IN  IF alloc <= 0 THEN acc
      ELSE [used  |-> acc.used + alloc,
            niche |-> Insert(acc.niche, c, GetOr(acc.niche, c, 0) + alloc),
            out   |-> Append(acc.out, [signal |-> sig, fraction |-> alloc])]

Round(acc, sig, budget) ==
  Charge(acc, sig, Allocation(sig, budget, acc.used, GetOr(acc.niche, Cluster[sig.market_id], 0)))

\* Step 3: greedy allocation in rank order; rounds[k] is where it is after k of them.
Greedy(ranked, budget) ==
  LET rounds[k \in 0..Len(ranked)] ==
        IF k = 0 THEN [used |-> 0, niche |-> EmptyMap, out |-> <<>>]
                 ELSE Round(rounds[k - 1], ranked[k], budget)
  IN  rounds[Len(ranked)].out

\* compute_allocations, in every order ties can take.
ComputeAllocations(signals, budget) ==
  {Greedy(ranked, budget) : ranked \in Rankings(Deduped(signals))}

\* total_capital * capital_available
Budget == (TotalCapital * capital_available) \div Capital

NoFlush == [signals |-> <<>>, budget |-> 0]

Init ==
  /\ use_priority_engine \in PriorityModes
  /\ positions = EmptyMap /\ capital_available = Capital
  /\ pending_signals = <<>> /\ emitted = <<>>
  /\ flushed = NoFlush

Buffer(signals) ==
  /\ pending_signals' = pending_signals \o signals
  /\ emitted' = <<>> /\ flushed' = NoFlush
  /\ UNCHANGED <<use_priority_engine, positions, capital_available>>

\* Mutant: a raw signal is buffered whether or not the priority engine handles it.
OnSignal_Always(sig) == Buffer(<<sig>>)

\* Event::Signal counts only when no priority engine is in front.
OnSignal(sig) == ~use_priority_engine /\ Buffer(<<sig>>)

\* Event::TopSignalsBatch counts only when one is.
OnBatch(batch) == use_priority_engine /\ Buffer(batch)

\* Event::Portfolio: positions are added or overwritten, never removed.
OnPortfolio(update) ==
  /\ capital_available' = MaxOf(Capital - update.exposure, 0)
  /\ positions' = InsertAll(positions, update.positions)
  /\ emitted' = <<>> /\ flushed' = NoFlush
  /\ UNCHANGED <<use_priority_engine, pending_signals>>

\* flush_batch, at a tick or on shutdown.
Flush ==
  /\ pending_signals # <<>>
  /\ emitted' \in ComputeAllocations(pending_signals, Budget)
  /\ flushed' = [signals |-> pending_signals, budget |-> Budget]
  /\ pending_signals' = <<>>
  /\ UNCHANGED <<use_priority_engine, positions, capital_available>>

Next ==
  \/ Len(pending_signals) < MaxPending /\ \E sig \in Signals : OnSignal(sig)
  \/ \E sig1, sig2 \in Signals :
       \E batch \in {<<sig1>>, <<sig1, sig2>>} :
         Len(pending_signals) + Len(batch) <= MaxPending /\ OnBatch(batch)
  \/ \E update \in Updates : OnPortfolio(update)
  \/ Flush

Spec == Init /\ [][Next]_vars

----------------------------------------------------------------------------
(***************************************************************************)
(* Properties.                                                             *)
(***************************************************************************)

\* What the sizes of a batch add up to over some of its indices.
Total(batch, some) == SumFunctionOnSet([i \in DOMAIN batch |-> batch[i].fraction], some)

InNiche(batch, c) == {i \in DOMAIN batch : Cluster[batch[i].signal.market_id] = c}

\* The state has its types; sizes are positive.
TypeOK ==
  /\ IsMap(positions, DOMAIN Cluster, Nat)
  /\ capital_available \in 0..Capital
  /\ pending_signals \in Seq(Signals) /\ Len(pending_signals) <= MaxPending
  /\ \A i \in DOMAIN emitted : emitted[i].signal \in Signals /\ emitted[i].fraction \in Nat \ {0}

\* A batch stays within the capital that was free, no market gets more than
\* its cap or two signals, and no niche more than its cap, although each size
\* is computed from what the earlier ones left.
BatchWithinCaps ==
  emitted # <<>> =>
    /\ Total(emitted, DOMAIN emitted) <= flushed.budget
    /\ \A c \in Range(Cluster) : Total(emitted, InNiche(emitted, c)) <= MaxNiche
    /\ \A i, j \in DOMAIN emitted :
         /\ emitted[i].fraction <= MaxMarket
         /\ emitted[i].signal.market_id = emitted[j].signal.market_id => i = j

\* A signal that asks for capital is passed over only for signals at least as
\* good: of its own market, one that is given something or asks for nothing, or
\* ones that exhausted the budget or its niche.
PassedOverForBetter ==
  MaxMarket > 0 =>
    \A i \in DOMAIN flushed.signals :
      LET sig    == flushed.signals[i]
          better == {k \in DOMAIN emitted : Raev(emitted[k].signal) >= Raev(sig)}
      IN  (sig.finite /\ sig.position_fraction > 0) =>
            \/ \E k \in better : emitted[k].signal.market_id = sig.market_id
            \/ \E j \in OwnOf(flushed.signals, sig.market_id) :
                 /\ Raev(flushed.signals[j]) >= Raev(sig)
                 /\ flushed.signals[j].position_fraction = 0
            \/ Total(emitted, better) >= flushed.budget
            \/ Total(emitted, better \cap InNiche(emitted, Cluster[sig.market_id])) >= MaxNiche

\* A batch is within every cap, and nobody was passed over but for better
\* signals.
BatchIsFair ==
  /\ TypeOK
  /\ BatchWithinCaps
  /\ PassedOverForBetter
=============================================================================

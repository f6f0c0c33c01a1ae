---------------------------- MODULE MetaStrategy ----------------------------
(***************************************************************************)
(* crates/meta_strategy: fuses the latest signal of every strategy for a   *)
(* market into one MetaSignal.                                             *)
(*                                                                         *)
(* Confidence, expected value and magnitude are integers, Scale being 1.0. *)
(* The clock counts seconds; the eviction timer may fire at any instant.   *)
(***************************************************************************)
EXTENDS Integers, Sequences, FiniteSets, FiniteSetsExt, RustStd

CONSTANTS
  Markets, Sources,
  Signals,         \* the signals agents send: [dir, conf, ev]
  Magnitudes,      \* the magnitudes of shocks
  Scale,
  MinConfidence,   \* min_combined_confidence
  MinEdge,         \* min_expected_edge
  BoostFactor,     \* shock_boost_factor
  ShockFreshness,  \* shock_freshness_secs
  Ttl,             \* signal_ttl_secs
  MinStrategies,   \* min_strategies
  MaxClock         \* bound: the last instant of the clock

\* signal_ttl_secs is a u64.
MetaConstants == Ttl \in Nat

VARIABLES
  state,   \* [markets, clock]
  out,     \* the MetaSignals published by the last step
  hist     \* <<market, source>> -> the last signal received, with its time

vars == <<state, out, hist>>

Never == -1
NewMeta == [entries |-> EmptyMap, magnitude |-> 0, shock_at |-> Never]

MetaOf(m) == GetOr(state.markets, m, NewMeta)

Fresh(entries) == {s \in DOMAIN entries : state.clock - entries[s].at <= Ttl}

\* Arbitrage signals have no vote; they count as strategies.
Weight(entries, dir) ==
  MapThenSumSet(LAMBDA s : entries[s].sig.conf * entries[s].sig.ev,
                {s \in Fresh(entries) : entries[s].sig.dir = dir})

Winner(entries) == IF Weight(entries, "Buy") >= Weight(entries, "Sell") THEN "Buy" ELSE "Sell"

Boost(meta) ==
  IF meta.shock_at # Never /\ state.clock - meta.shock_at <= ShockFreshness
  THEN Scale + (BoostFactor * meta.magnitude) \div Scale ELSE Scale

\* The margin of the vote, boosted by a fresh shock and capped at 1.0.
Confidence(meta) ==
  LET buy == Weight(meta.entries, "Buy")
      sell == Weight(meta.entries, "Sell")
      net == IF buy >= sell THEN buy - sell ELSE sell - buy
  IN MinOf((net * Boost(meta)) \div (buy + sell), Scale)

\* The mean value of the winning side, weighted by confidence.
ExpectedEdge(entries) ==
  LET aligned == {s \in Fresh(entries) : entries[s].sig.dir = Winner(entries)}
      conf == MapThenSumSet(LAMBDA s : entries[s].sig.conf, aligned)
  IN IF conf = 0 THEN 0 ELSE Weight(entries, Winner(entries)) \div conf

TryMetaSignal(m, meta) ==
  LET es == meta.entries
  IN IF /\ Cardinality(Fresh(es)) >= MinStrategies
        /\ Weight(es, "Buy") + Weight(es, "Sell") > 0
        /\ Confidence(meta) >= MinConfidence
        /\ ExpectedEdge(es) >= MinEdge
     THEN <<[market |-> m, dir |-> Winner(es), confidence |-> Confidence(meta),
             edge |-> ExpectedEdge(es), strategies |-> Fresh(es)]>>
     ELSE <<>>

----------------------------------------------------------------------------
Init ==
  /\ state = [markets |-> EmptyMap, clock |-> 0]
  /\ out = <<>>
  /\ hist = EmptyMap

\* A signal without value is ignored.
OnSignal(m, s, sig) ==
  LET meta == [MetaOf(m) EXCEPT !.entries = Insert(@, s, [sig |-> sig, at |-> state.clock])]
  IN IF sig.ev <= 0 THEN out' = <<>> /\ UNCHANGED <<state, hist>>
     ELSE /\ state' = [state EXCEPT !.markets = Insert(@, m, meta)]
          /\ out' = TryMetaSignal(m, meta)
          /\ hist' = Insert(hist, <<m, s>>, [sig |-> sig, at |-> state.clock])

OnShock(m, magnitude) ==
  LET meta == [MetaOf(m) EXCEPT !.magnitude = magnitude, !.shock_at = state.clock]
  IN /\ state' = [state EXCEPT !.markets = Insert(@, m, meta)]
     /\ out' = <<>> /\ UNCHANGED hist

\* Mutant: one old signal is enough to drop a market.
Stale_OneOld(m) ==
  \E s \in DOMAIN state.markets[m].entries : state.markets[m].entries[s].at < state.clock - 2 * Ttl

\* Nothing in the market is younger than twice the time to live.  A market
\* known by a shock alone has no entry and goes too, its shock with it.
Stale(m) ==
  \A s \in DOMAIN state.markets[m].entries : state.markets[m].entries[s].at < state.clock - 2 * Ttl

OnEvictionTick ==
  /\ state' = [state EXCEPT !.markets = RemoveAll(@, {m \in DOMAIN @ : Stale(m)})]
  /\ out' = <<>> /\ UNCHANGED hist

Tick ==
  /\ state.clock < MaxClock
  /\ state' = [state EXCEPT !.clock = @ + 1]
  /\ out' = <<>> /\ UNCHANGED hist

Next ==
  \/ \E m \in Markets, s \in Sources, sig \in Signals : OnSignal(m, s, sig)
  \/ \E m \in Markets, magnitude \in Magnitudes : OnShock(m, magnitude)
  \/ OnEvictionTick
  \/ Tick

Spec == Init /\ [][Next]_vars

----------------------------------------------------------------------------
(***************************************************************************)
(* Properties.                                                             *)
(***************************************************************************)
\* Whatever the order of signals, shocks and evictions, a MetaSignal fuses
\* exactly the strategies whose last signal for the market is still alive:
\* the eviction timer never takes away a signal that would have been counted.
FusesEveryLiveSignal ==
  \A i \in DOMAIN out :
    out[i].strategies = {s \in Sources : /\ <<out[i].market, s>> \in DOMAIN hist
                                         /\ state.clock - hist[<<out[i].market, s>>].at <= Ttl}
=============================================================================

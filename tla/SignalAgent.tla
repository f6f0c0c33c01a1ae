---------------------------- MODULE SignalAgent ----------------------------
(***************************************************************************)
(* agents/signal_agent: one task that keeps, per market, the last belief,  *)
(* price, spread, liquidity and resolution date, prices every new belief   *)
(* or price against them and publishes a sized TradeSignal.  Every two     *)
(* minutes it drops the markets not heard of since the last time.          *)
(*                                                                         *)
(* Prices are in units of 1 / Scale.  A resolution date is the class of    *)
(* days to it that TimeScale gives the discount of; <<>> is None.          *)
(***************************************************************************)
EXTENDS Integers, Sequences, FiniteSets, RustStd, SignalMath

CONSTANTS
  Markets, Scale,
  Beliefs,              \* [posterior, confidence] of Posterior events
  Prices, Liquidities,  \* of Market events
  Snapshots,            \* [bid, ask, liquidity, date], date <<>> or <<class>>
  MinPrice, MaxPrice, MinConfidence,
  Cost, MinEv,          \* trading_cost(), min_expected_value
  KellyDen, Cap, Unit,  \* kelly_fraction is 1 / KellyDen
  FullLiquidity,        \* bankroll * liquidity_threshold
  TimeScale,            \* class of days -> percent of the size
  MaxEvents             \* bound: the events of a behaviour

VARIABLES
  state,   \* [beliefs, prices, spreads, liquidity, dates, seen]
  out,     \* the signals published by the last step, at most one
  hist     \* the events so far

vars == <<state, out, hist>>

\* Beliefs are probabilities; the fractions of the configuration are not negative.
SignalConstants ==
  /\ Scale \in Nat /\ Cost \in Nat /\ MinEv \in Int
  /\ KellyDen \in Nat \ {0} /\ Unit \in Nat /\ Cap \in Nat /\ FullLiquidity \in Nat
  /\ Prices \subseteq Int /\ Liquidities \subseteq Int
  /\ \A b \in Beliefs : b.posterior \in 0..Scale
  /\ \A class \in DOMAIN TimeScale : TimeScale[class] \in Nat
  /\ \A s \in Snapshots :
       /\ s.bid \in Int /\ s.ask \in Int /\ s.liquidity \in Int
       /\ s.date = <<>> \/ \E class \in DOMAIN TimeScale : s.date = <<class>>

\* The bid and the ask if they are a spread, else the mid price twice.
Entry(spread, price) ==
  IF spread # <<>> /\ spread[2] > spread[1] /\ spread[1] > 0 /\ spread[2] < Scale THEN spread
  ELSE <<price, price>>

\* The side that gains after costs: [dir, ev, entry], or nothing.
ComputeExpectedValue(posterior, price, spread) ==
  LET e == Entry(spread, price)
      buy == posterior - e[2] - Cost
      sell == e[1] - posterior - Cost
  IN IF posterior > e[2] /\ buy > 0 THEN {[dir |-> "Buy", ev |-> buy, entry |-> e[2]]}
     ELSE IF posterior < e[1] /\ sell > 0 THEN {[dir |-> "Sell", ev |-> sell, entry |-> e[1]]}
     ELSE {}

ComputeKellyFraction(posterior, side) ==
  Sized(Magnitude(posterior - side.entry), Room(side.dir, side.entry, Scale), KellyDen, Unit, Cap)

\* The size falls with the liquidity under the threshold, if there is one,
\* and with the nearness of the resolution.
Scaled(size, liquidity, date) ==
  LET percent == IF date = <<>> THEN 100 ELSE TimeScale[date[1]]
      liquid == IF FullLiquidity = 0 THEN 1 ELSE MinOf(liquidity, FullLiquidity)
  IN IF size = 0 \/ liquid <= 0 THEN 0
     ELSE MaxOf(1, (size * liquid * percent) \div (MaxOf(FullLiquidity, 1) * 100))

TryEmitSignal(s, m) ==
  LET belief == s.beliefs[m]
      price == s.prices[m]
      sides == ComputeExpectedValue(belief.posterior, price, GetOr(s.spreads, m, <<>>))
      size(side) == Scaled(ComputeKellyFraction(belief.posterior, side),
                           GetOr(s.liquidity, m, 0), GetOr(s.dates, m, <<>>))
  IN IF price > MaxPrice \/ price < MinPrice \/ belief.confidence < MinConfidence THEN {}
     ELSE {[market |-> m, dir |-> side.dir, ev |-> side.ev, size |-> MinOf(size(side), Cap),
            posterior |-> belief.posterior, price |-> price]
             : side \in {x \in sides : x.ev >= MinEv /\ size(x) > 0}}

----------------------------------------------------------------------------
Init ==
  /\ state = [beliefs |-> EmptyMap, prices |-> EmptyMap, spreads |-> EmptyMap,
              liquidity |-> EmptyMap, dates |-> EmptyMap, seen |-> {}]
  /\ out = {}
  /\ hist = <<>>

Heard(kind, m, what) == Len(hist) < MaxEvents /\ hist' = Append(hist, [kind |-> kind, market |-> m, what |-> what])

\* A Posterior event does not count as being heard of.
OnPosterior(m, belief) ==
  LET next == [state EXCEPT !.beliefs = Insert(@, m, belief)]
  IN /\ Heard("posterior", m, belief)
     /\ state' = next
     /\ out' = IF m \in DOMAIN state.prices THEN TryEmitSignal(next, m) ELSE {}

\* The liquidity of a Market event only fills a gap: the first one stays
\* until a snapshot brings another.
OnMarket(m, price, liquidity) ==
  LET next == [state EXCEPT !.prices = Insert(@, m, price), !.seen = @ \cup {m},
                            !.liquidity = IF m \in DOMAIN @ THEN @ ELSE Insert(@, m, liquidity)]
  IN /\ Heard("market", m, price)
     /\ state' = next
     /\ out' = IF m \in DOMAIN state.beliefs THEN TryEmitSignal(next, m) ELSE {}

\* An invalid spread leaves the last valid one; nothing is published.
OnMarketSnapshot(m, snap) ==
  LET valid == snap.bid > 0 /\ snap.ask > snap.bid /\ snap.ask < Scale
  IN /\ Heard("snapshot", m, snap)
     /\ state' = [state EXCEPT !.seen = @ \cup {m},
                               !.spreads = IF valid THEN Insert(@, m, <<snap.bid, snap.ask>>) ELSE @,
                               !.liquidity = Insert(@, m, snap.liquidity),
                               !.dates = Insert(@, m, snap.date)]
     /\ out' = {}

\* Mutant: the beliefs outlive the markets.
Evicted_KeepsBeliefs(s) ==
  LET dead(map) == (DOMAIN map) \ s.seen
  IN [s EXCEPT !.prices = RemoveAll(@, dead(@)), !.spreads = RemoveAll(@, dead(@)),
               !.liquidity = RemoveAll(@, dead(@)), !.dates = RemoveAll(@, dead(@)), !.seen = {}]

Evicted(s) ==
  LET dead(map) == (DOMAIN map) \ s.seen
  IN [s EXCEPT !.beliefs = RemoveAll(@, dead(@)), !.prices = RemoveAll(@, dead(@)),
               !.spreads = RemoveAll(@, dead(@)), !.liquidity = RemoveAll(@, dead(@)),
               !.dates = RemoveAll(@, dead(@)), !.seen = {}]

EvictionTick ==
  /\ Heard("tick", "", <<>>)
  /\ state' = Evicted(state)
  /\ out' = {}

Next ==
  \/ \E m \in Markets, b \in Beliefs : OnPosterior(m, b)
  \/ \E m \in Markets, p \in Prices, l \in Liquidities : OnMarket(m, p, l)
  \/ \E m \in Markets, s \in Snapshots : OnMarketSnapshot(m, s)
  \/ EvictionTick

----------------------------------------------------------------------------
(***************************************************************************)
(* Properties.                                                             *)
(***************************************************************************)
\* A signal is the last belief against the last price received for its
\* market, and the belief is not older than a window in which nothing but
\* beliefs was heard of the market; it gains at least the minimum after
\* costs at the price it would trade at, which is the last valid spread if
\* one came since such a silence; and it is within the cap.
SignalIsCurrent ==
  \A sig \in out :
    LET n == Len(hist)
        at(kinds) == {k \in 1..n : hist[k].kind \in kinds /\ hist[k].market = sig.market}
        ticks == {k \in 1..n : hist[k].kind = "tick"}
        last(ks) == CHOOSE k \in ks : \A j \in ks : j <= k
        before(t) == {k \in ticks : k < t}
        silent(t) == \A k \in at({"market", "snapshot"}) : k > t \/ \E b \in before(t) : k < b
        silences == {t \in ticks : silent(t)}
        live(k) == \A t \in silences : t < k
        spreads == {k \in at({"snapshot"}) : /\ live(k) /\ hist[k].what.bid > 0 /\ hist[k].what.ask < Scale
                                             /\ hist[k].what.bid < hist[k].what.ask}
        entry == IF spreads = {} THEN sig.price
                 ELSE IF sig.dir = "Buy" THEN hist[last(spreads)].what.ask ELSE hist[last(spreads)].what.bid
        gain == IF sig.dir = "Buy" THEN sig.posterior - entry ELSE entry - sig.posterior
    IN /\ at({"posterior"}) # {} /\ at({"market"}) # {}
       /\ LET b == last(at({"posterior"}))
              p == last(at({"market"}))
          IN live(b) /\ live(p) /\ hist[b].what.posterior = sig.posterior /\ hist[p].what = sig.price
       /\ gain - Cost >= MinEv
       /\ sig.size \in 1..Cap
=============================================================================

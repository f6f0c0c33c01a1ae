--------------------------- MODULE GraphArbAgent ---------------------------
(***************************************************************************)
(* agents/graph_arb_agent: one task with two strategies.  A market whose   *)
(* graph-implied probability is apart from its price gives one signal; two *)
(* markets of different platforms with similar titles and prices apart     *)
(* give a buy and a sell, at most once per cooldown and pair.              *)
(*                                                                         *)
(* Prices are in units of 1 / Scale; a title is the set of its tokens.     *)
(* The confidence of a signal is left out.                                 *)
(***************************************************************************)
EXTENDS Integers, Sequences, FiniteSets, RustStd, SignalMath

CONSTANTS
  Markets,               \* integers: their order is that of the ids
  Platform, Title,       \* market -> its platform ("" for none), its tokens
  GraphUpdates,          \* sequences of [market, implied]
  Prices, Scale,
  MinPrice, MaxPrice, MinEdge, Cost,
  KellyDen, Cap, Unit,
  SimNum, SimDen,        \* xplatform_min_title_similarity
  XMinSpread, XCost, XCap,
  Cooldown,              \* xplatform_signal_cooldown_secs
  MaxClock               \* bound: the last instant of the clock

VARIABLES
  state,   \* [markets, snapshots, last, seen, clock]
  out,     \* the signals published by the last step, those of a pair together
  hist     \* the pairs published so far: [pair, at]

vars == <<state, out, hist>>

\* GraphArbConfig::validate; and a GraphUpdate has a market once.
ArbConstants ==
  /\ Markets \subseteq Int /\ Prices \subseteq Int
  /\ Scale \in Nat /\ MinPrice \in Nat /\ MaxPrice \in 0..Scale
  /\ KellyDen \in Nat \ {0} /\ Unit \in Nat /\ Cap \in Nat /\ XCap \in Nat
  /\ Cost \in Nat /\ XCost \in Nat /\ Cooldown \in Nat
  /\ \A nodes \in GraphUpdates :
       /\ nodes \in Seq([market : Markets, implied : Int])
       /\ \A i, j \in DOMAIN nodes : nodes[i].market = nodes[j].market => i = j

Valid(p) == p \in 0..Scale
Unknown == [implied |-> <<>>, price |-> <<>>]

\* The signal of one market, if all gates pass.
TrySignal(m, entry) ==
  LET implied == entry.implied[1]
      price == entry.price[1]
      delta == implied - price
      dir == IF delta > 0 THEN "Buy" ELSE "Sell"
  IN IF /\ entry.implied # <<>> /\ entry.price # <<>>
        /\ price \in MinPrice..MaxPrice
        /\ Magnitude(delta) >= MinEdge /\ Magnitude(delta) > Cost
        /\ Room(dir, price, Scale) > 0
     THEN {<<[market |-> m, dir |-> dir, price |-> price, posterior |-> implied,
              size |-> Sized(Magnitude(delta), Room(dir, price, Scale), KellyDen, Unit, Cap)]>>}
     ELSE {}

\* Jaccard: the tokens in common over all of them.
TitleSimilar(a, b) ==
  LET both == Title[a] \cup Title[b]
  IN both # {} /\ Cardinality(Title[a] \cap Title[b]) * SimDen >= SimNum * Cardinality(both)

\* The pairs of a market: cheap is the lower-priced side, the market at a tie.
FindPairsFor(m, snapshots) ==
  LET pair(k) == IF snapshots[m] <= snapshots[k] THEN [cheap |-> m, dear |-> k] ELSE [cheap |-> k, dear |-> m]
  IN {pair(k) : k \in {j \in (DOMAIN snapshots) \ {m} :
                         /\ Platform[j] # "" /\ Platform[j] # Platform[m] /\ TitleSimilar(m, j)}}

\* Mutant: the pair is known by its sides, which change places.
CooldownKey_AsPriced(pair) == <<pair.cheap, pair.dear>>

CooldownKey(pair) == <<MinOf(pair.cheap, pair.dear), MaxOf(pair.cheap, pair.dear)>>

TryXPlatformSignals(pair, s) ==
  LET key == CooldownKey(pair)
      cheap == s.snapshots[pair.cheap]
      dear == s.snapshots[pair.dear]
      leg(m, dir, price, other, room) ==
        [market |-> m, dir |-> dir, price |-> price, posterior |-> other,
         size |-> Sized(dear - cheap, 2 * room, KellyDen, Unit, XCap)]
  IN IF \/ key \in DOMAIN s.last /\ s.clock - s.last[key] < Cooldown
        \/ dear - cheap < XMinSpread \/ dear - cheap <= 2 * XCost
        \/ cheap < MinPrice \/ dear > MaxPrice
        \/ cheap = Scale \/ dear = 0
     THEN {}
     ELSE {<<leg(pair.cheap, "Buy", cheap, dear, Scale - cheap), leg(pair.dear, "Sell", dear, cheap, dear)>>}

----------------------------------------------------------------------------
Init ==
  /\ state = [markets |-> EmptyMap, snapshots |-> EmptyMap, last |-> EmptyMap, seen |-> {}, clock |-> 0]
  /\ out = {}
  /\ hist = {}

\* One node of a GraphUpdate; acc is what the nodes before it made.
OnNode(acc, nu) ==
  LET entry == [GetOr(acc.markets, nu.market, Unknown) EXCEPT !.implied = <<nu.implied>>]
  IN IF ~Valid(nu.implied) THEN acc
     ELSE [markets |-> Insert(acc.markets, nu.market, entry),
           signals |-> acc.signals \cup TrySignal(nu.market, entry)]

\* The markets and the signals after n of the nodes.
AfterNodes(nodes) ==
  LET after[n \in 0..Len(nodes)] ==
        IF n = 0 THEN [markets |-> state.markets, signals |-> {}]
        ELSE OnNode(after[n - 1], nodes[n])
  IN after

\* Node by node under one lock; the signals go out after it.
OnGraphUpdate(nodes) ==
  LET end == AfterNodes(nodes)[Len(nodes)]
  IN /\ state' = [state EXCEPT !.markets = end.markets]
     /\ out' = end.signals
     /\ UNCHANGED hist

OnMarketUpdate(m, p) ==
  LET entry == [GetOr(state.markets, m, Unknown) EXCEPT !.price = <<p>>]
      heard == [state EXCEPT !.seen = @ \cup {m}]
  IN /\ IF Valid(p) THEN /\ state' = [heard EXCEPT !.markets = Insert(@, m, entry)]
                         /\ out' = TrySignal(m, entry)
        ELSE state' = heard /\ out' = {}
     /\ UNCHANGED hist

OnMarketSnapshot(m, p) ==
  LET heard == [state EXCEPT !.seen = @ \cup {m}]
      known == [heard EXCEPT !.snapshots = Insert(@, m, p)]
      sent == {pair \in FindPairsFor(m, known.snapshots) : TryXPlatformSignals(pair, known) # {}}
      keys == {CooldownKey(pair) : pair \in sent}
  IN IF Platform[m] = "" THEN state' = heard /\ out' = {} /\ UNCHANGED hist
     ELSE /\ state' = [known EXCEPT !.last = [k \in DOMAIN @ \cup keys |-> IF k \in keys THEN state.clock ELSE @[k]]]
          /\ out' = UNION {TryXPlatformSignals(pair, known) : pair \in sent}
          /\ hist' = hist \cup {[pair |-> {pair.cheap, pair.dear}, at |-> state.clock] : pair \in sent}

\* Silent markets go, and the pairs whose cooldown is long over.
EvictionTick ==
  LET old == {k \in DOMAIN state.last : state.last[k] < state.clock - 2 * Cooldown}
      dead(map) == (DOMAIN map) \ state.seen
  IN /\ state' = [state EXCEPT !.snapshots = RemoveAll(@, dead(@)), !.markets = RemoveAll(@, dead(@)),
                               !.last = RemoveAll(@, old), !.seen = {}]
     /\ out' = {} /\ UNCHANGED hist

Second ==
  /\ state.clock < MaxClock
  /\ state' = [state EXCEPT !.clock = @ + 1]
  /\ out' = {} /\ UNCHANGED hist

Next ==
  \/ \E nodes \in GraphUpdates : OnGraphUpdate(nodes)
  \/ \E m \in Markets, p \in Prices : OnMarketUpdate(m, p) \/ OnMarketSnapshot(m, p)
  \/ EvictionTick
  \/ Second

----------------------------------------------------------------------------
(***************************************************************************)
(* Properties.                                                             *)
(***************************************************************************)
\* A pair of legs buys the cheaper and sells the dearer of two markets of
\* different platforms, at the last prices known, with a gain left after
\* the costs of both; whichever side is the dearer, and whatever was
\* evicted since, a pair is not published again within its cooldown.  A
\* signal of one leg goes from the price of its market towards what the
\* graph implies for it.
LegsArePairedAndRare ==
  /\ \A legs \in out :
       LET a == legs[1]
           b == legs[Len(legs)]
           cap == IF Len(legs) = 2 THEN XCap ELSE Cap
           up(leg) == leg.dir = "Buy" <=> leg.posterior > leg.price
       IN /\ Len(legs) \in 1..2 /\ up(a) /\ up(b)
          /\ a.size \in MinOf(1, cap)..cap /\ b.size \in MinOf(1, cap)..cap
          /\ Len(legs) = 2 => /\ a.dir = "Buy" /\ b.dir = "Sell"
                              /\ Platform[a.market] # Platform[b.market]
                              /\ a.price = state.snapshots[a.market] /\ b.price = state.snapshots[b.market]
                              /\ b.price - a.price > 2 * XCost
          /\ Len(legs) = 1 => state.markets[a.market] = [implied |-> <<a.posterior>>, price |-> <<a.price>>]
  /\ \A e, f \in hist : e.pair = f.pair /\ e.at < f.at => f.at - e.at >= Cooldown
=============================================================================

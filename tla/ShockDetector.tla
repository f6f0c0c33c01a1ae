--------------------------- MODULE ShockDetector ---------------------------
(***************************************************************************)
(* crates/shock_detector: one task that keeps, for at most MaxTracked      *)
(* markets, a rolling window of price moves and the last sentiment, and    *)
(* publishes a Shock for a move that stands out of the window or for a     *)
(* strong sentiment.                                                       *)
(*                                                                         *)
(* Prices and scores are integers.  Mean and standard deviation are kept   *)
(* exact by multiplying them out.  Of a price shock's magnitude only the   *)
(* part that sentiment has in it is kept.                                  *)
(***************************************************************************)
EXTENDS Integers, Sequences, SequencesExt, FiniteSets, RustStd, SignalMath

CONSTANTS
  Markets, Prices, Scores,
  Related,              \* the lists of related markets that sentiment carries
  Window,               \* rolling_window
  ZThreshold,           \* z_score_threshold
  SentimentThreshold,   \* sentiment_threshold
  Freshness,            \* sentiment_freshness_secs
  MaxTracked,           \* max_tracked_markets
  MaxClock              \* bound: the last instant of the clock

VARIABLES
  state,   \* [markets, clock]
  out,     \* the shocks published by the last step
  hist     \* market -> the prices received since it is tracked

vars == <<state, out, hist>>

\* ShockDetectorConfig::validate asks for two moves to judge a third by.
ShockConstants ==
  /\ Prices \subseteq Int /\ Related \subseteq Seq(Markets)
  /\ Window \in Nat /\ Window >= 2

Never == -1
Placeholder == 0

MarketStateNew(p, now) ==
  [last |-> p, deltas |-> <<>>, score |-> 0, score_at |-> Never, priced |-> TRUE, seen |-> now]

NewFromSentiment(now) == [MarketStateNew(Placeholder, now) EXCEPT !.priced = FALSE]

PushDelta(s, d) == [s EXCEPT !.deltas = Push(@, d, Window)]

\* The least recently seen market makes room for a new one.
UpsertMarket(markets, m, s) ==
  LET full == MaxTracked > 0 /\ m \notin DOMAIN markets /\ Cardinality(DOMAIN markets) >= MaxTracked
      oldest == {k \in DOMAIN markets : \A j \in DOMAIN markets : markets[k].seen <= markets[j].seen}
  IN IF full THEN {Insert(RemoveAll(markets, {k}), m, s) : k \in oldest}
             ELSE {Insert(markets, m, s)}

----------------------------------------------------------------------------
Direction(x) == IF x > 0 THEN "up" ELSE IF x < 0 THEN "down" ELSE "neutral"

\* The sentiment that is blended into the magnitude of a price shock.
Fused(s, now) ==
  IF s.score_at # Never /\ now - s.score_at <= Freshness THEN Magnitude(s.score) ELSE Never

DetectPriceShock(m, s, p, now) ==
  LET d == p - s.last
  IN IF Len(s.deltas) >= 2 /\ Spread(s.deltas) > 0 /\ Beyond(s.deltas, d, ZThreshold)
     THEN <<[market |-> m, source |-> "price", dir |-> Direction(d), sentiment |-> Fused(s, now)]>>
     ELSE <<>>

DetectSentimentShock(m, score) ==
  IF Magnitude(score) < SentimentThreshold THEN <<>>
  ELSE <<[market |-> m, source |-> "news", dir |-> Direction(score), sentiment |-> Magnitude(score)]>>

----------------------------------------------------------------------------
Init ==
  /\ state = [markets |-> EmptyMap, clock |-> 0]
  /\ out = <<>>
  /\ hist = EmptyMap

\* Mutant: the first price after a sentiment is compared with the placeholder.
Observed_FromPlaceholder(s, p) ==
  [PushDelta(s, p - s.last) EXCEPT !.last = p, !.priced = TRUE, !.seen = state.clock]

\* The first price of a market that sentiment created is a baseline: the
\* placeholder takes no part in a move.
Observed(s, p) ==
  [(IF s.priced THEN PushDelta(s, p - s.last) ELSE s)
     EXCEPT !.last = p, !.priced = TRUE, !.seen = state.clock]

OnMarketUpdate(m, p) ==
  IF m \notin DOMAIN state.markets
  THEN \E ms \in UpsertMarket(state.markets, m, MarketStateNew(p, state.clock)) :
         /\ state' = [state EXCEPT !.markets = ms]
         /\ hist' = Insert(RemoveAll(hist, (DOMAIN hist) \ DOMAIN ms), m, <<p>>)
         /\ out' = <<>>
  ELSE LET s == state.markets[m]
       IN /\ out' = IF s.priced THEN DetectPriceShock(m, s, p, state.clock) ELSE <<>>
          /\ state' = [state EXCEPT !.markets[m] = Observed(s, p)]
          /\ hist' = [hist EXCEPT ![m] = Append(IF Len(@) > Window THEN Tail(@) ELSE @, p)]

\* One related market: tracked from now on, if it was not.
Touch(markets, m, score) ==
  LET tracked == IF m \in DOMAIN markets THEN {markets}
                 ELSE UpsertMarket(markets, m, NewFromSentiment(state.clock))
  IN {[ms EXCEPT ![m].score = score, ![m].score_at = state.clock, ![m].seen = state.clock]
        : ms \in tracked}

\* What the markets can be after n of the related ones.
After(related, score) ==
  LET after[n \in 0..Len(related)] ==
        IF n = 0 THEN {state.markets}
        ELSE UNION {Touch(ms, related[n], score) : ms \in after[n - 1]}
  IN after

\* Every related market in turn, under one lock.
OnSentimentUpdate(related, score) ==
  \E ms \in After(related, score)[Len(related)] :
    /\ state' = [state EXCEPT !.markets = ms]
    /\ out' = FlattenSeq([i \in DOMAIN related |-> DetectSentimentShock(related[i], score)])
    /\ hist' = [m \in DOMAIN ms |-> IF ms[m].priced THEN hist[m] ELSE <<>>]

Tick ==
  /\ state.clock < MaxClock
  /\ state' = [state EXCEPT !.clock = @ + 1]
  /\ out' = <<>> /\ UNCHANGED hist

Next ==
  \/ \E m \in Markets, p \in Prices : OnMarketUpdate(m, p)
  \/ \E related \in Related, c \in Scores :
       OnSentimentUpdate(related, c)
  \/ Tick

----------------------------------------------------------------------------
(***************************************************************************)
(* Properties.                                                             *)
(***************************************************************************)
\* The window of a market holds the moves between the last prices received
\* for it, in order and without a gap: neither the placeholder of a market
\* that sentiment introduced, nor an eviction, nor a price already dropped
\* from the window ever shows in the statistics a shock is judged by.
WindowIsRecentMoves ==
  \A m \in DOMAIN state.markets :
    LET s == state.markets[m]
        h == hist[m]
    IN /\ s.priced <=> h # <<>>
       /\ s.priced => /\ s.last = h[Len(h)]
                      /\ s.deltas = [i \in 1..(Len(h) - 1) |-> h[i + 1] - h[i]]
=============================================================================

--------------------------- MODULE TemporalAgent ---------------------------
(***************************************************************************)
(* agents/temporal_agent: one task that keeps the last prices of each      *)
(* market and publishes a TradeSignal along a price that stands out of     *)
(* them.                                                                   *)
(*                                                                         *)
(* Prices are in units of 1 / Scale; the mean and the extrapolated price   *)
(* are kept exact as multiples of 1 / n, n the length of the history.  The *)
(* confidence of a signal is left out.                                     *)
(***************************************************************************)
EXTENDS Integers, Sequences, SequencesExt, RustStd, SignalMath

CONSTANTS
  Markets, Prices, Scale,
  Window, MinHistory,    \* history_window, min_history
  ZThreshold,            \* trend_z_threshold
  MinPrice, MaxPrice, Cost,
  Lo, Hi,                \* the bounds of the extrapolated price
  KellyDen, Cap, Unit,
  MaxHist                \* the prices kept for the property

VARIABLES
  state,   \* market -> its history
  out,     \* the signals published by the last step
  hist     \* market -> the prices received, the last MaxHist of them

vars == <<state, out, hist>>

\* TemporalConfig::validate; and enough of the past is kept to see a full window.
TemporalConstants ==
  /\ Scale \in Nat /\ Window \in Nat /\ MinHistory \in 2..Window /\ ZThreshold \in Nat
  /\ MinPrice \in Nat /\ MaxPrice \in Nat /\ Cost \in Nat /\ Lo \in Int /\ Hi \in Int
  /\ KellyDen \in Nat \ {0} /\ Cap \in Nat /\ Unit \in Nat
  /\ MaxHist \in Nat /\ MaxHist > Window

\* The extrapolated price is n * current + trend, kept within its bounds.  A Buy is
\* sized by the signed deviation, none when the bound takes it below the price; a
\* Sell by its magnitude.
TrySignal(m, prices, current) ==
  LET n == Len(prices)
      trend == Deviation(prices, current)
      extrapolated == Clamp(n * current + trend, n * Lo, n * Hi)
      deviation == extrapolated - n * current
      dir == IF trend > 0 THEN "Buy" ELSE "Sell"
      edge == IF dir = "Buy" THEN deviation ELSE Magnitude(deviation)
  IN IF /\ current \in MinPrice..MaxPrice
        /\ n >= 2 /\ Spread(prices) > 0 /\ Beyond(prices, current, ZThreshold)
        /\ Magnitude(deviation) > n * Cost
        /\ Room(dir, current, Scale) > 0
     THEN <<[market |-> m, dir |-> dir, price |-> current, over |-> n, posterior |-> extrapolated,
             size |-> Sized(edge, n * Room(dir, current, Scale), KellyDen, Unit, Cap)]>>
     ELSE <<>>

Init ==
  /\ state = EmptyMap
  /\ out = <<>>
  /\ hist = EmptyMap

\* Mutant: the price joins the history it is judged by.
Judged_WithItself(prices, p) == Push(prices, p, Window)

\* What a price is judged by: the history before it.
Judged(prices, p) == prices

OnMarketUpdate(m, p) ==
  LET prices == GetOr(state, m, <<>>)
      heard == GetOr(hist, m, <<>>)
  IN IF p \notin 0..Scale THEN out' = <<>> /\ UNCHANGED <<state, hist>>
     ELSE /\ out' = IF Len(prices) >= MinHistory THEN TrySignal(m, Judged(prices, p), p) ELSE <<>>
          /\ state' = Insert(state, m, Push(prices, p, Window))
          /\ hist' = Insert(hist, m, Push(heard, p, MaxHist))

Next == \E m \in Markets, p \in Prices : OnMarketUpdate(m, p)

----------------------------------------------------------------------------
(***************************************************************************)
(* Properties.                                                             *)
(***************************************************************************)
\* A trend is published only against the past: the price is judged by the
\* prices received just before it, as many as the window holds and without
\* itself, stands off their mean by the threshold in deviations, and what is
\* left of the extrapolation once it is kept within its bounds is more than
\* the costs.  A price within the bounds is extrapolated to the side it is
\* traded on, and sized; beyond them the bound may lie on the other side, and
\* only a Buy then comes to nothing.
TrendIsAgainstThePast ==
  \A i \in DOMAIN out :
    LET sig == out[i]
        h == hist[sig.market]
        p == Last(h)
        k == MinOf(Window, Len(h) - 1)
        past == SubSeq(h, Len(h) - k, Len(h) - 1)
        off == k * p - Total(past)
        extra == MinOf(MaxOf(k * p + off, k * Lo), k * Hi) - k * p
    IN /\ sig.market \in DOMAIN hist
       /\ k >= 2 /\ k >= MinHistory /\ p \in MinPrice..MaxPrice
       /\ off * off * (k - 1) >= ZThreshold * ZThreshold * k * Spread(past) /\ Spread(past) > 0
       /\ MaxOf(extra, -extra) > k * Cost
       /\ sig.price = p /\ sig.over = k /\ sig.posterior = k * p + extra
       /\ sig.dir = "Buy" <=> k * p > Total(past)
       /\ p \in Lo..Hi => (sig.dir = "Buy" <=> extra > 0)
       /\ sig.size \in IF sig.dir = "Buy" /\ extra < 0 THEN {0} ELSE MinOf(1, Cap)..Cap
=============================================================================

------------------------- MODULE BayesianEdgeAgent -------------------------
(***************************************************************************)
(* agents/bayesian_edge_agent: one task that trades a market's posterior   *)
(* against its price, damped towards what the graph implies and with a     *)
(* confidence boosted by a fresh shock.  Only beliefs and prices make it   *)
(* publish; the graph and the shocks wait for the next of them.            *)
(*                                                                         *)
(* Prices and confidences are in units of 1 / Scale, the damped posterior  *)
(* in units of 1 / (Scale * DampDen).                                      *)
(***************************************************************************)
EXTENDS Integers, Sequences, SequencesExt, RustStd, SignalMath

CONSTANTS
  Markets, Scale,
  Posteriors,            \* [posterior, confidence]
  Prices, Implied,
  Shocks,                \* [magnitude, age]: stamped age seconds before it comes
  MinPrice, MaxPrice, MinConfidence,
  Cost, MinEv,
  DampNum, DampDen,      \* graph_damp_factor
  Freshness, Boost,      \* shock_freshness_secs, shock_boost_factor
  KellyDen, Cap, Unit,
  MaxClock, MaxEvents    \* bounds: the last instant, the events of a behaviour

\* BayesianEdgeConfig::validate, and shocks in whole units and seconds.
EdgeConstants ==
  /\ Scale \in Nat \ {0} /\ DampDen \in Nat \ {0} /\ KellyDen \in Nat \ {0} /\ Unit \in Nat
  /\ DampNum \in 0..DampDen /\ MinConfidence \in 0..Scale
  /\ Cost \in Nat /\ MinEv \in Nat /\ Boost \in Nat /\ Cap \in Nat
  /\ MinPrice \in Nat /\ MaxPrice \in Nat /\ Freshness \in Nat
  /\ \A s \in Shocks : s.magnitude \in Int /\ s.age \in Int

VARIABLES
  state,   \* [beliefs, clock]
  out,     \* the signals published by the last step
  hist     \* the events so far: [kind, market, what, at]

vars == <<state, out, hist>>

Valid(p) == p \in 0..Scale

\* MarketBeliefEntry::default(): <<>> is None.
NewEntry == [posterior |-> <<>>, confidence |-> 0, price |-> <<>>, implied |-> <<>>, shock |-> <<>>]

\* Mutant: a shock stays fresh.
Confidence_AlwaysBoosted(e, now) ==
  IF e.shock = <<>> THEN e.confidence ELSE Clamp((e.confidence * (Scale + Boost * e.shock[1].magnitude)) \div Scale, 0, Scale)

\* A shock is fresh by its own stamp, whichever way it is off.
Confidence(e, now) ==
  IF e.shock = <<>> \/ Magnitude(now - e.shock[1].at) > Freshness THEN e.confidence
  ELSE Clamp((e.confidence * (Scale + Boost * e.shock[1].magnitude)) \div Scale, 0, Scale)

Damped(e) ==
  IF e.implied = <<>> THEN DampDen * e.posterior[1]
  ELSE (DampDen - DampNum) * e.posterior[1] + DampNum * e.implied[1]

TrySignal(m, e, now) ==
  LET price == e.price[1]
      confidence == Confidence(e, now)
      adjusted == Damped(e)
      deviation == adjusted - DampDen * price
      ev == Magnitude(deviation) - DampDen * Cost
      dir == IF deviation > 0 THEN "Buy" ELSE "Sell"
  IN IF /\ e.posterior # <<>> /\ e.price # <<>>
        /\ price \in MinPrice..MaxPrice
        /\ confidence >= MinConfidence
        /\ deviation # 0 /\ ev > 0 /\ ev >= DampDen * MinEv
        /\ Room(dir, price, Scale) > 0
     THEN <<[market |-> m, dir |-> dir, price |-> price, posterior |-> adjusted, confidence |-> confidence,
             size |-> Sized(Magnitude(deviation), DampDen * Room(dir, price, Scale), KellyDen, Unit, Cap)]>>
     ELSE <<>>

----------------------------------------------------------------------------
Init ==
  /\ state = [beliefs |-> EmptyMap, clock |-> 0]
  /\ out = <<>>
  /\ hist = <<>>

Entry(m) == GetOr(state.beliefs, m, NewEntry)

Heard(kind, m, what) ==
  /\ Len(hist) < MaxEvents
  /\ hist' = Append(hist, [kind |-> kind, market |-> m, what |-> what, at |-> state.clock])

\* The entry is stored, and priced at once.
Judge(m, e) ==
  /\ state' = [state EXCEPT !.beliefs = Insert(@, m, e)]
  /\ out' = TrySignal(m, e, state.clock)

OnPosteriorUpdate(m, u) ==
  /\ Valid(u.posterior) /\ Valid(u.confidence)
  /\ Heard("posterior", m, u)
  /\ Judge(m, [Entry(m) EXCEPT !.posterior = <<u.posterior>>, !.confidence = u.confidence])

OnMarketUpdate(m, p) ==
  /\ Valid(p)
  /\ Heard("price", m, p)
  /\ Judge(m, [Entry(m) EXCEPT !.price = <<p>>])

\* One node of a GraphUpdate; an invalid one is skipped.
OnGraphUpdate(m, i) ==
  /\ Valid(i)
  /\ Heard("implied", m, i)
  /\ state' = [state EXCEPT !.beliefs = Insert(@, m, [Entry(m) EXCEPT !.implied = <<i>>])]
  /\ out' = <<>>

\* The last shock to come replaces the one before, however old its stamp.
OnShock(m, s) ==
  LET shock == [magnitude |-> Clamp(s.magnitude, 0, Scale), at |-> state.clock - s.age]
  IN /\ Heard("shock", m, s)
     /\ state' = [state EXCEPT !.beliefs = Insert(@, m, [Entry(m) EXCEPT !.shock = <<shock>>])]
     /\ out' = <<>>

Second ==
  /\ state.clock < MaxClock
  /\ state' = [state EXCEPT !.clock = @ + 1]
  /\ out' = <<>> /\ UNCHANGED hist

Next ==
  \/ \E m \in Markets, u \in Posteriors : OnPosteriorUpdate(m, u)
  \/ \E m \in Markets, p \in Prices : OnMarketUpdate(m, p)
  \/ \E m \in Markets, i \in Implied : OnGraphUpdate(m, i)
  \/ \E m \in Markets, s \in Shocks : OnShock(m, s)
  \/ Second

Spec == Init /\ [][Next]_vars

----------------------------------------------------------------------------
(***************************************************************************)
(* Properties.                                                             *)
(***************************************************************************)
\* A signal stands on the last belief and the last price; its confidence is
\* the belief's own unless the last shock to arrive is stamped within the
\* freshness of now, and then never less; its posterior lies between the
\* belief and what the graph last implied, on the side of the price it
\* trades, past the price by the costs and the minimum gain.
BoostedByFreshShockOnly ==
  \A k \in DOMAIN out :
    LET sig == out[k]
        of(kind) == {i \in DOMAIN hist : hist[i].kind = kind /\ hist[i].market = sig.market}
        last(kind) == hist[CHOOSE i \in of(kind) : \A j \in of(kind) : j <= i]
        belief == last("posterior").what
        shock == last("shock")
        fresh == of("shock") # {} /\ Magnitude(state.clock - (shock.at - shock.what.age)) <= Freshness
        towards == IF of("implied") = {} THEN belief.posterior ELSE last("implied").what
        gain == IF sig.dir = "Buy" THEN sig.posterior - DampDen * sig.price ELSE DampDen * sig.price - sig.posterior
    IN /\ of("posterior") # {} /\ of("price") # {}
       /\ sig.price = last("price").what
       /\ IF fresh THEN sig.confidence >= belief.confidence ELSE sig.confidence = belief.confidence
       /\ sig.confidence \in MinConfidence..Scale
       /\ DampDen * MinOf(belief.posterior, towards) <= sig.posterior
       /\ sig.posterior <= DampDen * MaxOf(belief.posterior, towards)
       /\ gain >= DampDen * (Cost + MinEv) /\ gain > DampDen * Cost
       /\ sig.size \in MinOf(1, Cap)..Cap
=============================================================================

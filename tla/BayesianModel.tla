---------------------------- MODULE BayesianModel ----------------------------
(***************************************************************************)
(* crates/bayesian_engine: a belief per market, the sum in log-odds of a   *)
(* prior, the evidence accumulated and the pull of the market price, and   *)
(* the task that feeds it from the bus and publishes Posterior events.     *)
(*                                                                         *)
(* Probabilities are kept as integer log-odds, precisions in units of      *)
(* 1 / PrecScale.  The operations of the engine that no task of the bot    *)
(* calls (UpdatePrior, ResetEvidence, ApplyGraphInfluence and the graph    *)
(* handle) are those of its public interface.                              *)
(***************************************************************************)
EXTENDS Integers, Sequences, SequencesExt, RustStd

CONSTANTS
  Markets, Prices,
  GraphUpdates,   \* sequences of [market, new, delta], what on_graph_update receives
  Sentiments,     \* [related, score]
  Surprises,      \* normalised surprises of an EconomicRelease
  CalErrors,      \* calibration errors of a CalibrationUpdate
  Edges,          \* the graph: a sequence of [from, to, weight]
  Strength,       \* source of evidence -> its strength
  PrecScale, DefaultPrecision, MinPrecision, MaxAdjustment,
  EvidenceCap,    \* the clamp of the evidence
  MinSurprise,    \* MIN_ECONOMIC_SURPRISE
  MaxHistory      \* MAX_HISTORY

VARIABLES
  state,   \* [beliefs, seen]
  out,     \* the posteriors published by the last step, in order
  hist     \* market -> its last posterior published, if nothing silent followed

vars == <<state, out, hist>>

\* None for a price
Unpriced == 99

Part(num, den) == IF num >= 0 THEN num \div den ELSE -((-num) \div den)

NewBelief(lo) == [prior |-> lo, evidence |-> 0, fusion |-> 0, price |-> Unpriced, precision |-> 0, n |-> 0]
Posterior(b) == b.prior + b.evidence + b.fusion
Reference(b) == IF b.price = Unpriced THEN b.prior ELSE b.price

EnsureBelief(beliefs, m, lo) == IF m \in DOMAIN beliefs THEN beliefs ELSE Insert(beliefs, m, NewBelief(lo))

Pull(b, price, precision) == Part(precision * (price - b.prior), PrecScale)
Recorded(b) == [b EXCEPT !.n = MinOf(@ + 1, MaxHistory)]

\* Mutant: the pull of a new price comes on top of the old one.
FuseMarketPrice_Accumulates(b, price, precision) ==
  Recorded([b EXCEPT !.price = price, !.precision = precision, !.fusion = @ + Pull(b, price, precision)])

\* A price replaces the pull of the one before.
FuseMarketPrice(b, price, precision) ==
  Recorded([b EXCEPT !.price = price, !.precision = precision, !.fusion = Pull(b, price, precision)])

IngestEvidence(b, delta, source) ==
  Recorded([b EXCEPT !.evidence = Clamp(@ + delta * Strength[source], -EvidenceCap, EvidenceCap)])

WithPrior(b, lo) ==
  [b EXCEPT !.prior = lo, !.fusion = IF b.price = Unpriced THEN @ ELSE Part(b.precision * (b.price - lo), PrecScale)]

WithoutEvidence(b) == [b EXCEPT !.evidence = 0, !.fusion = 0, !.price = Unpriced, !.precision = 0]

BuildPosteriorUpdate(m, b) ==
  [market |-> m, prior |-> b.prior, posterior |-> Posterior(b), price |-> b.price,
   deviation |-> Posterior(b) - Reference(b), n |-> b.n]

----------------------------------------------------------------------------
Init ==
  /\ state = [beliefs |-> EmptyMap, seen |-> {}]
  /\ out = <<>>
  /\ hist = EmptyMap

\* The handlers collect their payloads under the lock and publish after it.
Publish(beliefs, payloads) ==
  /\ state' = [state EXCEPT !.beliefs = beliefs]
  /\ out' = payloads
  /\ hist' = FoldLeft(LAMBDA h, p : Insert(h, p.market, p.posterior), hist, payloads)

OnMarketUpdate(m, price) ==
  LET b == FuseMarketPrice(EnsureBelief(state.beliefs, m, price)[m], price, DefaultPrecision)
  IN /\ state' = [beliefs |-> Insert(state.beliefs, m, b), seen |-> state.seen \cup {m}]
     /\ out' = <<BuildPosteriorUpdate(m, b)>>
     /\ hist' = Insert(hist, m, Posterior(b))

\* Evidence for one market, and its payload.
Fed(acc, m, delta, source) ==
  LET b == IngestEvidence(acc.beliefs[m], delta, source)
  IN [beliefs |-> Insert(acc.beliefs, m, b), payloads |-> Append(acc.payloads, BuildPosteriorUpdate(m, b))]

Moved(nodes) == SelectSeq(nodes, LAMBDA nu : nu.delta # 0)

\* The neighbours down the graph, weighed with the beliefs before the update.
Downstream(nodes) ==
  LET precision(m) == IF m \in DOMAIN state.beliefs THEN state.beliefs[m].precision ELSE DefaultPrecision
      influence(nu, e) == Part(e.weight * nu.delta * precision(nu.market), PrecScale)
      from(nu) == SelectSeq(Edges, LAMBDA e : e.from = nu.market /\ influence(nu, e) # 0)
  IN FlattenSeq([i \in DOMAIN nodes |->
                   [j \in DOMAIN from(nodes[i]) |->
                      [market |-> from(nodes[i])[j].to, delta |-> influence(nodes[i], from(nodes[i])[j])]]])

OnGraphUpdate(nodes) ==
  LET primary(acc, nu) ==
        Fed([acc EXCEPT !.beliefs = EnsureBelief(@, nu.market, nu.new)], nu.market, nu.delta, "graph")
      secondary(acc, d) ==
        LET fed == Fed(acc, d.market, d.delta, "downstream")
        IN IF d.market \notin DOMAIN acc.beliefs THEN acc
           ELSE IF \E i \in DOMAIN acc.payloads : acc.payloads[i].market = d.market
           THEN [fed EXCEPT !.payloads = acc.payloads] ELSE fed
      first == FoldLeft(primary, [beliefs |-> state.beliefs, payloads |-> <<>>], Moved(nodes))
      all == FoldLeft(secondary, first, Downstream(Moved(nodes)))
      missed == {m \in DOMAIN all.beliefs :
                   \A i \in DOMAIN all.payloads :
                     all.payloads[i].market = m => all.payloads[i].posterior # Posterior(all.beliefs[m])}
      published == FoldLeft(LAMBDA h, p : Insert(h, p.market, p.posterior), hist, all.payloads)
  IN /\ state' = [state EXCEPT !.beliefs = all.beliefs]
     /\ out' = all.payloads
     \* a neighbour that is also a node was published before its second share
     /\ hist' = RemoveAll(published, missed \cap {all.payloads[i].market : i \in DOMAIN all.payloads})

\* News moves the markets that are tracked, and introduces none.
OnSentimentUpdate(s) ==
  LET feed(acc, m) == IF m \in DOMAIN acc.beliefs THEN Fed(acc, m, s.score, "news") ELSE acc
      all == FoldLeft(feed, [beliefs |-> state.beliefs, payloads |-> <<>>], s.related)
  IN Publish(all.beliefs, all.payloads)

OnEconomicRelease(surprise) ==
  LET all == FoldLeft(LAMBDA acc, m : Fed(acc, m, surprise, "macro"),
                      [beliefs |-> state.beliefs, payloads |-> <<>>], SetToSeq(DOMAIN state.beliefs))
  IN /\ Magnitude(surprise) >= MinSurprise
     /\ Publish(all.beliefs, all.payloads)

\* What changes a belief and publishes nothing.
Silent(beliefs, changed) ==
  /\ state' = [state EXCEPT !.beliefs = beliefs]
  /\ out' = <<>>
  /\ hist' = RemoveAll(hist, changed)

\* A badly calibrated market: its price counts for less until the next one.
OnCalibrationUpdate(m, error) ==
  LET precision == MaxOf(DefaultPrecision - MinOf(error, MaxAdjustment), MinPrecision)
  IN /\ m \in DOMAIN state.beliefs
     /\ state.beliefs[m].price # Unpriced
     /\ Silent([state.beliefs EXCEPT ![m] = FuseMarketPrice(@, @.price, precision)], {m})

\* Every five minutes: only the markets priced since the last time stay.
EvictionTick ==
  /\ state' = [beliefs |-> Restrict(state.beliefs, DOMAIN state.beliefs \cap state.seen), seen |-> {}]
  /\ out' = <<>>
  /\ hist' = Restrict(hist, DOMAIN hist \cap state.seen)

UpdatePrior(m, lo) ==
  /\ m \in DOMAIN state.beliefs
  /\ Silent([state.beliefs EXCEPT ![m] = WithPrior(@, lo)], {m})

ResetEvidence(m) ==
  /\ m \in DOMAIN state.beliefs
  /\ Silent([state.beliefs EXCEPT ![m] = WithoutEvidence(@)], {m})

\* Every disagreement with the market, carried one edge further.
ApplyGraphInfluence ==
  LET delta(e) == LET b == state.beliefs[e.from] IN Posterior(b) - Reference(b)
      influence(e) == Part(e.weight * delta(e) * MaxOf(state.beliefs[e.from].precision, 1), PrecScale)
      live == SelectSeq(Edges, LAMBDA e : {e.from, e.to} \subseteq DOMAIN state.beliefs /\ delta(e) # 0)
  IN Silent(FoldLeft(LAMBDA bs, e : [bs EXCEPT ![e.to] = IngestEvidence(@, influence(e), "graph")],
                     state.beliefs, live),
            {live[i].to : i \in DOMAIN live})

Next ==
  \/ \E m \in Markets, p \in Prices : OnMarketUpdate(m, p)
  \/ \E nodes \in GraphUpdates : OnGraphUpdate(nodes)
  \/ \E s \in Sentiments : OnSentimentUpdate(s)
  \/ \E x \in Surprises : OnEconomicRelease(x)
  \/ \E m \in Markets, e \in CalErrors : OnCalibrationUpdate(m, e)
  \/ EvictionTick
  \/ \E m \in Markets, p \in Prices : UpdatePrior(m, p)
  \/ \E m \in Markets : ResetEvidence(m)
  \/ ApplyGraphInfluence

----------------------------------------------------------------------------
(***************************************************************************)
(* Properties.                                                             *)
(***************************************************************************)
\* However often a market is priced, calibrated, given a new prior or reset,
\* its belief without the evidence stays between its prior and its last
\* price; and the last Posterior published is the belief itself, unless a
\* CalibrationUpdate, a call of the interface or a second share of graph
\* evidence came after it.
BeliefIsBetweenPriorAndPrice ==
  /\ \A m \in DOMAIN state.beliefs :
       LET b == state.beliefs[m]
           rest == b.prior + b.fusion
       IN MinOf(b.prior, Reference(b)) <= rest /\ rest <= MaxOf(b.prior, Reference(b))
  /\ \A m \in DOMAIN hist : m \in DOMAIN state.beliefs /\ hist[m] = Posterior(state.beliefs[m])
=============================================================================

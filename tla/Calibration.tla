----------------------------- MODULE Calibration -----------------------------
(***************************************************************************)
(* crates/calibration: keeps the last posterior of every market and scores *)
(* it when the market resolves, that is when its price first comes within  *)
(* Epsilon of 0 or 1.                                                      *)
(*                                                                         *)
(* Probabilities are integers, Scale being 1.0; scores are in Scale^2.     *)
(***************************************************************************)
EXTENDS Integers, Sequences, SequencesExt, FiniteSets, FiniteSetsExt, RustStd

CONSTANTS
  Markets, Scale,
  Posteriors, Prices,   \* the probabilities that Posterior and Market events carry
  Epsilon,              \* resolution_epsilon
  NumBuckets,           \* num_buckets
  MinBucketSamples,     \* min_bucket_samples
  MaxEvents             \* bound: the events received

VARIABLES
  state,   \* [pending, records, resolved]
  out,     \* the CalibrationUpdates published by the last step
  hist     \* the events received, in order

vars == <<state, out, hist>>

Square(x) == x * x

OverallBrier(records) ==
  IF records = <<>> THEN Square(Scale) \div 2
  ELSE FoldLeft(LAMBDA acc, r : acc + r.brier, 0, records) \div Len(records)

\* The records of each bucket of predicted probabilities.
ComputeBuckets(records) ==
  [b \in 0..(NumBuckets - 1) |->
     {i \in DOMAIN records :
        MinOf((records[i].predicted * NumBuckets) \div Scale, NumBuckets - 1) = b}]

\* |mean predicted - fraction resolved YES| over the buckets, weighted by
\* their counts: a bucket's share is the absolute sum of its differences.
CalibrationError(records) ==
  LET buckets == ComputeBuckets(records)
      gap(b) == MapThenSumSet(LAMBDA i : records[i].predicted - records[i].outcome, buckets[b])
      counted == {b \in DOMAIN buckets : Cardinality(buckets[b]) >= MinBucketSamples}
  IN IF records = <<>> THEN 0
     ELSE MapThenSumSet(LAMBDA b : IF gap(b) < 0 THEN -gap(b) ELSE gap(b), counted) \div Len(records)

----------------------------------------------------------------------------
Init ==
  /\ state = [pending |-> EmptyMap, records |-> <<>>, resolved |-> {}]
  /\ out = <<>>
  /\ hist = <<>>

OnPosterior(m, p) ==
  /\ state' = IF m \in state.resolved THEN state
              ELSE [state EXCEPT !.pending = Insert(@, m, p)]
  /\ out' = <<>>

Resolves(p) == p <= Epsilon \/ p >= Scale - Epsilon

\* Mutant: a market that nobody predicted is not marked as resolved.
Settled_IfPending(m) ==
  IF m \in DOMAIN state.pending THEN state.resolved \cup {m} ELSE state.resolved

Settled(m) == state.resolved \cup {m}

\* The first extreme price settles the market for good, predicted or not.
OnMarketUpdate(m, p) ==
  IF m \in state.resolved \/ ~Resolves(p) THEN out' = <<>> /\ UNCHANGED state
  ELSE LET outcome == IF p <= Epsilon THEN 0 ELSE Scale
           scored == IF m \in DOMAIN state.pending
                     THEN <<[market |-> m, predicted |-> state.pending[m], outcome |-> outcome,
                             brier |-> Square(state.pending[m] - outcome)]>>
                     ELSE <<>>
           records == state.records \o scored
       IN /\ state' = [pending |-> RemoveAll(state.pending, {m}), records |-> records,
                       resolved |-> Settled(m)]
          /\ out' = [i \in DOMAIN scored |->
                       [record |-> scored[i], overall |-> OverallBrier(records),
                        error |-> CalibrationError(records)]]

Received(e) == Len(hist) < MaxEvents /\ hist' = Append(hist, e)

Next ==
  \/ \E m \in Markets, p \in Posteriors :
       OnPosterior(m, p) /\ Received([kind |-> "posterior", market |-> m, prob |-> p])
  \/ \E m \in Markets, p \in Prices :
       OnMarketUpdate(m, p) /\ Received([kind |-> "price", market |-> m, prob |-> p])

Spec == Init /\ [][Next]_vars

----------------------------------------------------------------------------
(***************************************************************************)
(* Properties.                                                             *)
(***************************************************************************)
\* A prediction is scored once per market, when the price first becomes
\* extreme, and the prediction scored is the last one made before that:
\* posteriors that already know the outcome never improve the score, and a
\* market is not scored again when its price comes back and leaves once more.
ScoredOnWhatWasPredicted ==
  \A m \in Markets :
    LET mine(kind) == {i \in DOMAIN hist : hist[i].kind = kind /\ hist[i].market = m}
        ends == {i \in mine("price") : Resolves(hist[i].prob)}
        before == {i \in mine("posterior") : \A e \in ends : i < e}
        scores == {r \in DOMAIN state.records : state.records[r].market = m}
    IN IF ends = {} \/ before = {} THEN scores = {}
       ELSE \E r \in scores, last \in before :
              /\ scores = {r} /\ \A i \in before : i <= last
              /\ state.records[r].predicted = hist[last].prob
=============================================================================

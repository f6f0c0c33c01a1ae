------------------------ MODULE RelationshipDiscovery ------------------------
(***************************************************************************)
(* crates/relationship_discovery: watches prices, pairs the new price of a *)
(* market with the new price of one other market, and publishes            *)
(* RelationshipDiscovered for the pairs that move together.                *)
(*                                                                         *)
(* Of a market's history only its length and its last price are kept: that *)
(* is all the engine reads.  The composite score (correlation of returns,  *)
(* mutual information and likeness of the names) is the parameter Score;   *)
(* the direction is counted as the code counts it.                         *)
(***************************************************************************)
EXTENDS Integers, Sequences, SequencesExt, FiniteSets, FiniteSetsExt, RustStd

CONSTANTS
  Markets,              \* integers: their order is the canonical order
  Prices,
  Score(_),             \* the composite score of the samples of a pair
  MinScore,             \* min_relationship_score
  DirectedNum, DirectedDen,  \* directed_threshold, as a fraction
  MinChange,            \* min_prob_change
  MoveThreshold,        \* price_change_threshold
  MinHistory, MaxHistory,
  EdgeTtl, MarketTtl, EvictionInterval,
  MaxClock,             \* bound: the last instant of the clock
  MaxEvents             \* bound: the updates processed

VARIABLES
  state,   \* [histories, joints, since, processed, clock]
  out,     \* the relationships published by the last step
  hist     \* market -> how many samples its last price is part of

vars == <<state, out, hist>>

Never == -1
CanonicalPair(a, b) == IF a <= b THEN <<a, b>> ELSE <<b, a>>

Classify(delta) == IF delta > MoveThreshold THEN "up" ELSE IF delta < -MoveThreshold THEN "down" ELSE "flat"

NewJoint == [pairs |-> <<>>, counts |-> EmptyMap, emitted |-> Never]

\* A sample enters the window; the move it makes is counted, and the move of
\* a sample that leaves is not any more.
JointPush(j, pa, pb) ==
  LET last == j.pairs[Len(j.pairs)]
      move == IF j.pairs = <<>> THEN <<>> ELSE <<Classify(pa - last.a), Classify(pb - last.b)>>
      window == Append(j.pairs, [a |-> pa, b |-> pb, move |-> move])
      counted == IF move = <<>> THEN j.counts ELSE Insert(j.counts, move, GetOr(j.counts, move, 0) + 1)
      gone == window[1].move
  IN IF Len(window) <= MaxHistory THEN [j EXCEPT !.pairs = window, !.counts = counted]
     ELSE [j EXCEPT !.pairs = Tail(window),
                    !.counts = IF gone = <<>> THEN counted ELSE [counted EXCEPT ![gone] = @ - 1]]

----------------------------------------------------------------------------
Observed(j) == FoldFunction(+, 0, j.counts)
Count(j, a, b) == GetOr(j.counts, <<a, b>>, 0)

\* b went this way in enough of the samples in which a did, and the reverse.
Leads(j, way, follower) ==
  LET given == FoldFunction(+, 0, [other \in {"up", "down", "flat"} |->
                                    IF follower = "a" THEN Count(j, other, way) ELSE Count(j, way, other)])
  IN given > 0 /\ Count(j, way, way) * DirectedDen >= given * DirectedNum

Follows(j, follower) == Observed(j) >= MinHistory /\ \A way \in {"up", "down"} : Leads(j, way, follower)

InferDirection(j) ==
  IF Follows(j, "a") /\ ~Follows(j, "b") THEN "BtoA"
  ELSE IF Follows(j, "b") /\ ~Follows(j, "a") THEN "AtoB" ELSE "Undirected"

\* Enough samples, not published lately, and a high score.
Related(j) ==
  /\ Len(j.pairs) >= MinHistory
  /\ j.emitted = Never \/ state.clock - j.emitted >= EdgeTtl
  /\ Score(j) >= MinScore

----------------------------------------------------------------------------
Init ==
  /\ state = [histories |-> EmptyMap, joints |-> EmptyMap, since |-> 0, processed |-> 0, clock |-> 0]
  /\ out = <<>>
  /\ hist = EmptyMap

\* The markets silent for too long go, and with them the pairs they are in.
EvictStale(s) ==
  LET kept == {m \in DOMAIN s.histories : state.clock - s.histories[m].seen < MarketTtl}
      pairs == {p \in DOMAIN s.joints : {p[1], p[2]} \subseteq kept}
  IN [s EXCEPT !.histories = Restrict(@, kept), !.joints = Restrict(@, pairs)]

\* Once every EvictionInterval updates that get this far.
Swept(s) ==
  IF s.since + 1 >= EvictionInterval THEN EvictStale([s EXCEPT !.since = 0, !.processed = @ + 1])
  ELSE [s EXCEPT !.since = @ + 1, !.processed = @ + 1]

NewHistory == [len |-> 0, last |-> 0, dirty |-> FALSE, seen |-> state.clock]

\* Only where the last price of a market is recorded.
Used(h, s) == Restrict(h, DOMAIN h \cap DOMAIN s.histories)

Touched(m) == [GetOr(state.histories, m, NewHistory) EXCEPT !.seen = state.clock]
WithPrice(m, p) == [Touched(m) EXCEPT !.len = MinOf(@ + 1, MaxHistory), !.last = p, !.dirty = TRUE]

\* A price that hardly moved is noise.
IgnoreNoise(m, p) ==
  /\ Touched(m).len > 0
  /\ Magnitude(p - Touched(m).last) < MinChange
  /\ state' = [state EXCEPT !.histories = Insert(@, m, Touched(m)), !.processed = @ + 1]
  /\ out' = <<>> /\ UNCHANGED hist

Recorded(m, p) ==
  Touched(m).len = 0 \/ Magnitude(p - Touched(m).last) >= MinChange

WarmUp(m, p) ==
  /\ Recorded(m, p)
  /\ WithPrice(m, p).len < MinHistory
  /\ state' = [state EXCEPT !.histories = Insert(@, m, WithPrice(m, p)), !.processed = @ + 1]
  /\ hist' = Insert(hist, m, 0)
  /\ out' = <<>>

\* The peers that have a price no sample has used yet.
Peers(m) ==
  {k \in (DOMAIN state.histories) \ {m} : state.histories[k].len >= MinHistory /\ state.histories[k].dirty}

\* Mutant: the price of the peer stays good for the next pair.
Spent_Mine(histories, m, k) == [histories EXCEPT ![m].dirty = FALSE]

\* Both prices are spent.
Spent(histories, m, k) == [histories EXCEPT ![m].dirty = FALSE, ![k].dirty = FALSE]

\* The first peer found, whichever that is, and no other.
PairUp(m, p) ==
  LET mine == Insert(state.histories, m, WithPrice(m, p))
  IN /\ Recorded(m, p)
     /\ WithPrice(m, p).len >= MinHistory
     /\ \E k \in Peers(m) :
          LET pair == CanonicalPair(m, k)
              price(x) == IF x = m THEN p ELSE state.histories[k].last
              pushed == JointPush(GetOr(state.joints, pair, NewJoint), price(pair[1]), price(pair[2]))
              found == Related(pushed)
              joint == IF found THEN [pushed EXCEPT !.emitted = state.clock] ELSE pushed
              next == Swept([state EXCEPT !.histories = Spent(mine, m, k), !.joints = Insert(@, pair, joint)])
          IN /\ state' = next
             /\ out' = IF found THEN <<[pair |-> pair, dir |-> InferDirection(joint), n |-> Len(joint.pairs)]>>
                       ELSE <<>>
             /\ hist' = Used([Insert(hist, m, 1) EXCEPT ![k] = @ + 1], next)

NoPeer(m, p) ==
  LET next == Swept([state EXCEPT !.histories = Insert(@, m, WithPrice(m, p))])
  IN /\ Recorded(m, p)
     /\ WithPrice(m, p).len >= MinHistory
     /\ Peers(m) = {}
     /\ state' = next
     /\ hist' = Used(Insert(hist, m, 0), next)
     /\ out' = <<>>

ProcessMarketUpdate(m, p) ==
  state.processed < MaxEvents /\ (IgnoreNoise(m, p) \/ WarmUp(m, p) \/ PairUp(m, p) \/ NoPeer(m, p))

Tick ==
  /\ state.clock < MaxClock
  /\ state' = [state EXCEPT !.clock = @ + 1]
  /\ out' = <<>> /\ UNCHANGED hist

Next ==
  \/ \E m \in Markets, p \in Prices : ProcessMarketUpdate(m, p)
  \/ Tick

----------------------------------------------------------------------------
(***************************************************************************)
(* Properties.                                                             *)
(***************************************************************************)
\* No price is part of two samples, whichever peers the updates meet: what
\* is counted are simultaneous moves and not one move seen again and again.
\* And the counts of a pair are those of the moves in its window, through
\* every sample that left it and every market evicted.
SamplesAreFreshAndCounted ==
  /\ \A m \in DOMAIN hist : hist[m] <= 1
  /\ \A pair \in DOMAIN state.joints :
       LET j == state.joints[pair]
           moves == {i \in DOMAIN j.pairs : j.pairs[i].move # <<>>}
       IN /\ {pair[1], pair[2]} \subseteq DOMAIN state.histories
          /\ \A c \in DOMAIN j.counts : j.counts[c] = Cardinality({i \in moves : j.pairs[i].move = c})
          /\ Observed(j) = Cardinality(moves)
=============================================================================

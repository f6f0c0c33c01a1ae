--------------------------- MODULE ScenarioEngine ---------------------------
(***************************************************************************)
(* crates/scenario_engine: keeps the beliefs of the world model, the last  *)
(* prices and the dependencies it infers from GraphUpdates; every          *)
(* WorldProbability has it sample a batch of scenarios and publish their   *)
(* expectations and the markets priced apart from them.                    *)
(*                                                                         *)
(* Probabilities are in units of 1 / Scale; a draw of the generator is a   *)
(* choice over the outcomes of positive probability.  A batch counts       *)
(* scenarios instead of dividing by their number.                          *)
(***************************************************************************)
EXTENDS Integers, Sequences, SequencesExt, FiniteSets, RustStd

CONSTANTS
  Markets,        \* integers: their order is the order of sampling
  Scale,
  Worlds,         \* the updated_probabilities of WorldProbability events
  GraphUpdates,   \* [source, nodes], nodes a sequence of [market, delta]
  Prices, Confidences,
  SampleSize,     \* sample_size
  MaxDeps,        \* max_dependencies, 0 for no limit
  MaxJoint,       \* max_joint_market_pairs, 0 for no limit
  Threshold       \* min_mispricing_threshold

VARIABLES
  state,   \* [beliefs, prices, confidence, deps]
  out,     \* the batch published by the last step, or {}
  hist     \* market -> the last belief the world model published for it

vars == <<state, out, hist>>

Part(num, den) == IF num >= 0 THEN num \div den ELSE -((-num) \div den)

----------------------------------------------------------------------------
\* The outcomes of rng.gen() < p.
Draws(p) == {b \in BOOLEAN : IF b THEN p > 0 ELSE p < Scale}

FirstPass(beliefs) == {o \in [DOMAIN beliefs -> BOOLEAN] : \A m \in DOMAIN beliefs : o[m] \in Draws(beliefs[m])}

\* The parents are read from the outcomes being rewritten: one that comes
\* before its child has been drawn again already.
Adjustment(deps, outcomes, m) ==
  FoldLeft(LAMBDA sum, d : IF d.child = m /\ GetOr(outcomes, d.parent, FALSE) THEN sum + d.weight ELSE sum, 0, deps)

Redrawn(beliefs, deps, outcomes, m) ==
  LET a == Adjustment(deps, outcomes, m)
  IN IF a = 0 THEN {outcomes}
     ELSE {[outcomes EXCEPT ![m] = b] : b \in Draws(Clamp(beliefs[m] + a, 0, Scale))}

\* The scenarios sample_one can return.
SampleOne(beliefs, deps) ==
  FoldLeft(LAMBDA os, m : UNION {Redrawn(beliefs, deps, o, m) : o \in os},
           FirstPass(beliefs), SetToSortSeq(DOMAIN beliefs, <))

----------------------------------------------------------------------------
CountOf(batch, Test(_)) == Cardinality({i \in DOMAIN batch : Test(batch[i])})

Expected(batch, ms) == [m \in ms |-> CountOf(batch, LAMBDA o : o[m])]

Joint(batch, ms) ==
  [p \in {q \in ms \X ms : q[1] < q[2]} |-> CountOf(batch, LAMBDA o : o[p[1]] /\ o[p[2]])]

\* The pairs furthest from independence, as many as the limit allows.
TopJointPairs(expected, joint) ==
  LET deviation(p) == Magnitude(joint[p] * SampleSize - expected[p[1]] * expected[p[2]])
      take == IF MaxJoint = 0 THEN Cardinality(DOMAIN joint) ELSE MinOf(MaxJoint, Cardinality(DOMAIN joint))
  IN {ps \in SUBSET DOMAIN joint :
        /\ Cardinality(ps) = take
        /\ \A p \in ps, q \in (DOMAIN joint) \ ps : deviation(p) >= deviation(q)}

DetectMispricing(s, expected) ==
  LET gap(m) == expected[m] * Scale - s.prices[m] * SampleSize
  IN {[market |-> m, mispricing |-> gap(m), confidence |-> GetOr(s.confidence, m, Scale \div 2)]
        : m \in {k \in DOMAIN expected \cap DOMAIN s.prices : Magnitude(gap(k)) >= Threshold * SampleSize}}

\* A batch of independent scenarios, analysed and published outside the lock.
GenerateAndPublish(s) ==
  IF DOMAIN s.beliefs = {} THEN out' = {}
  ELSE \E batch \in [1..SampleSize -> SampleOne(s.beliefs, s.deps)] :
         LET expected == Expected(batch, DOMAIN s.beliefs)
             joint == Joint(batch, DOMAIN s.beliefs)
         IN \E top \in TopJointPairs(expected, joint) :
              out' = {[expected |-> expected, joint |-> Restrict(joint, top),
                       signals |-> DetectMispricing(s, expected)]}

----------------------------------------------------------------------------
Init ==
  /\ state = [beliefs |-> EmptyMap, prices |-> EmptyMap, confidence |-> EmptyMap, deps |-> <<>>]
  /\ out = {}
  /\ hist = EmptyMap

Valid(p) == p \in 0..Scale

OnWorldProbability(updated) ==
  LET valid == Restrict(updated, {m \in DOMAIN updated : Valid(updated[m])})
      merge(map) == [m \in DOMAIN map \cup DOMAIN valid |-> GetOr(valid, m, GetOr(map, m, 0))]
      next == [state EXCEPT !.beliefs = merge(@)]
  IN /\ state' = next
     /\ hist' = merge(hist)
     /\ GenerateAndPublish(next)

\* The weakest edge is replaced by the last one, and the new one appended.
WithoutWeakest(deps) ==
  LET weakest == SelectInSeq(deps, LAMBDA d : \A i \in DOMAIN deps : Magnitude(d.weight) <= Magnitude(deps[i].weight))
  IN Front([deps EXCEPT ![weakest] = Last(deps)])

UpsertDependency(deps, parent, child, w) ==
  LET at == SelectInSeq(deps, LAMBDA d : d.parent = parent /\ d.child = child)
      room == IF MaxDeps > 0 /\ Len(deps) >= MaxDeps THEN WithoutWeakest(deps) ELSE deps
  IN IF parent = child THEN deps
     ELSE IF at > 0 THEN [deps EXCEPT ![at].weight = Clamp(Part(@ * 7 + w * 3, 10), -Scale, Scale)]
     ELSE Append(room, [parent |-> parent, child |-> child, weight |-> w])

\* Edges only: the raw implied probabilities do not touch the beliefs.
OnGraphUpdate(u) ==
  /\ state' = [state EXCEPT !.deps =
                 FoldLeft(LAMBDA deps, nu : IF nu.delta = 0 THEN deps
                                            ELSE UpsertDependency(deps, u.source, nu.market,
                                                                  Clamp(nu.delta * 2, -(Scale \div 2), Scale \div 2)),
                          @, u.nodes)]
  /\ out' = {} /\ UNCHANGED hist

\* Mutant: a price replaces the belief.
Seeded_Always(beliefs, m, p) == Insert(beliefs, m, p)

\* The first price stands in for a belief.
Seeded(beliefs, m, p) == IF m \in DOMAIN beliefs THEN beliefs ELSE Insert(beliefs, m, p)

OnMarketUpdate(m, p) ==
  /\ Valid(p)
  /\ state' = [state EXCEPT !.prices = Insert(@, m, p), !.beliefs = Seeded(@, m, p)]
  /\ out' = {} /\ UNCHANGED hist

OnWorldSignal(m, c) ==
  /\ state' = [state EXCEPT !.confidence = Insert(@, m, Clamp(c, 0, Scale))]
  /\ out' = {} /\ UNCHANGED hist

Next ==
  \/ \E w \in Worlds : OnWorldProbability(w)
  \/ \E u \in GraphUpdates : OnGraphUpdate(u)
  \/ \E m \in Markets, p \in Prices : OnMarketUpdate(m, p)
  \/ \E m \in Markets, c \in Confidences : OnWorldSignal(m, c)

----------------------------------------------------------------------------
(***************************************************************************)
(* Properties.                                                             *)
(***************************************************************************)
\* What the world model is certain of is certain in every batch, whatever
\* prices and graph updates arrived since, unless an edge points to it; and
\* the edges stay one per ordered pair, within their number, without loops,
\* through blending and eviction.
ScenariosFollowTheWorldModel ==
  /\ \A batch \in out, m \in DOMAIN hist :
       (\A i \in DOMAIN state.deps : state.deps[i].child # m) =>
         /\ hist[m] = Scale => batch.expected[m] = SampleSize
         /\ hist[m] = 0 => batch.expected[m] = 0
  /\ MaxDeps > 0 => Len(state.deps) <= MaxDeps
  /\ \A i, j \in DOMAIN state.deps :
       /\ state.deps[i].parent # state.deps[i].child
       /\ state.deps[i].parent = state.deps[j].parent /\ state.deps[i].child = state.deps[j].child => i = j
=============================================================================

------------------------ MODULE SignalRouting_proofs ------------------------
(***************************************************************************)
(* Proofs about SignalRouting: what the optimizer allocates is fair        *)
(* whatever it is given (BatchIsFair), no signal is evaluated twice        *)
(* (AtMostOnce), and the priority engine's batches are the best of what    *)
(* came since the one before (TopOfWindow).                                *)
(*                                                                         *)
(* The allocation is a loop over a ranking; its rounds are a recursive     *)
(* function, and the proof carries one invariant from each round to the    *)
(* next (RoundInv).                                                        *)
(***************************************************************************)
EXTENDS SignalRouting, SumTheorems, FiniteSetTheorems, WellFoundedInduction, TLAPS

----------------------------------------------------------------------------
(***************************************************************************)
(* The constants and the instance.                                         *)
(***************************************************************************)

\* What is assumed of the optimizer's configuration and of signals.
LEMMA OptimizerFacts ==
  /\ Capital \in Nat \ {0} /\ TotalCapital \in 0..Capital
  /\ MaxMarket \in Nat /\ MaxNiche \in Nat
  /\ PenaltyDen \in Nat \ {0} /\ PenaltyNum \in 0..PenaltyDen
  /\ MaxPending \in Nat
  /\ \A sig \in Signals :
       /\ sig.market_id \in DOMAIN Cluster /\ sig.finite \in BOOLEAN
       /\ sig.expected_value \in Int /\ sig.confidence \in Int /\ sig.position_fraction \in Nat
       /\ O!Raev(sig) \in Int
BY RoutingConstants DEF O!OptimizerConstants, O!Raev

\* The same of the priority engine's configuration and of the scores.
LEMMA PriorityFacts ==
  /\ SlowQueueCapacity \in Nat \ {0} /\ TopN \in Nat \ {0} /\ InboxCapacity \in Nat \ {0}
  /\ \A sig \in Signals : S!Score(sig) \in Int
<1>1. S!PriorityConstants
  BY RoutingConstants, Zenon
<1> QED
  BY <1>1 DEF S!PriorityConstants, S!Score

\* The instance counts and sums as this module does.
LEMMA OptimizerCounts ==
  ASSUME NEW some, NEW f
  PROVE  /\ O!IsFiniteSet(some) = IsFiniteSet(some) /\ O!Cardinality(some) = Cardinality(some)
         /\ O!SumFunctionOnSet(f, some) = SumFunctionOnSet(f, some)
<1>1. O!IsFiniteSet(some) = IsFiniteSet(some) /\ O!Cardinality(some) = Cardinality(some)
  BY DEF O!IsFiniteSet, IsFiniteSet, O!Cardinality, Cardinality
<1>2. O!SumFunctionOnSet(f, some) = SumFunctionOnSet(f, some)
  BY DEF O!SumFunctionOnSet, O!FoldFunctionOnSet, O!MapThenFoldSet, SumFunctionOnSet,
     FoldFunctionOnSet, MapThenFoldSet
<1> QED
  BY <1>1, <1>2

\* A set of naturals has a least element, and O!Min picks it.
LEMMA OptimizerMin ==
  ASSUME NEW some \in SUBSET Nat, some # {}
  PROVE  O!Min(some) \in some
<1>1. PICK x \in some : \A k \in some : ~(<<k, x>> \in OpToRel(<, Nat))
  BY NatLessThanWellFounded, WFMin
<1>2. ASSUME NEW y \in some, ~(x <= y) PROVE FALSE
  <2>1. y \in Nat /\ x \in Nat /\ y < x
    BY <1>2
  <2>2. <<y, x>> \in OpToRel(<, Nat)
    BY <2>1 DEF OpToRel
  <2> QED
    BY <1>1, <2>2
<1> QED
  BY <1>2 DEF O!Min

----------------------------------------------------------------------------
(***************************************************************************)
(* Steps 1 and 2: the best of each market, and a ranking of them.          *)
(***************************************************************************)

\* The signal kept for a market is one of its signals, and none has more RAEV.
LEMMA BestOfIsBest ==
  ASSUME NEW signals \in Seq(Signals), NEW m \in O!MarketsOf(signals)
  PROVE  \E i \in O!OwnOf(signals, m) :
           /\ O!BestOf(signals, m) = signals[i]
           /\ \A j \in O!OwnOf(signals, m) : O!Raev(signals[i]) >= O!Raev(signals[j])
<1> DEFINE own == O!OwnOf(signals, m)
           top == {i \in own : \A j \in own : O!Raev(signals[i]) >= O!Raev(signals[j])}
           cost == [i \in own |-> -O!Raev(signals[i])]
<1>1. own \subseteq 1..Len(signals) /\ own # {}
  BY DEF O!OwnOf, O!MarketsOf
<1>2. IsFiniteSet(own)
  <2>1. Len(signals) \in Int /\ 1 \in Int
    OBVIOUS
  <2>2. IsFiniteSet(1..Len(signals))
    BY <2>1, FS_Interval
  <2> HIDE DEF own
  <2> QED
    BY <1>1, <2>2, FS_Subset
<1>3. \A i \in own : O!Raev(signals[i]) \in Int
  BY <1>1, OptimizerFacts
<1>4. PICK d \in own : TRUE
  BY <1>1
<1>5. \E k \in own : \A j \in own : cost[k] <= cost[j]
  <2>1. \A k \in own : cost[k] \in Int
    BY <1>3
  <2> HIDE DEF own, cost
  <2> QED
    BY <1>2, <1>4, <2>1, HasLeast
<1>6. top # {} /\ top \subseteq Nat
  <2>1. PICK k \in own : \A j \in own : cost[k] <= cost[j]
    BY <1>5
  <2>2. k \in top
    BY <1>3, <2>1
  <2>3. own \subseteq Nat
    <3>1. \A i \in 1..Len(signals) : i \in Nat
      OBVIOUS
    <3> HIDE DEF own
    <3> QED
      BY <1>1, <3>1
  <2> HIDE DEF own
  <2> QED
    BY <2>2, <2>3
<1>7. O!Min(top) \in top
  <2> HIDE DEF top
  <2> QED
    BY <1>6, OptimizerMin
<1>8. O!BestOf(signals, m) = signals[O!Min(top)]
  BY DEF O!BestOf
<1> QED
  BY <1>7, <1>8

\* The survivors are finitely many signals, one of each market that has a
\* finite signal.
LEMMA DedupedFacts ==
  ASSUME NEW signals \in Seq(Signals)
  PROVE  /\ O!Deduped(signals) \subseteq {signals[i] : i \in DOMAIN signals}
         /\ O!Deduped(signals) \subseteq Signals
         /\ IsFiniteSet(O!Deduped(signals))
         /\ \A a, b \in O!Deduped(signals) : a.market_id = b.market_id => a = b
         /\ \A i \in DOMAIN signals : signals[i].finite =>
              \E j \in O!OwnOf(signals, signals[i].market_id) :
                signals[j] \in O!Deduped(signals) /\ O!Raev(signals[j]) >= O!Raev(signals[i])
<1>1. \A m \in O!MarketsOf(signals) :
        \E i \in DOMAIN signals : O!BestOf(signals, m) = signals[i] /\ signals[i].market_id = m
  BY BestOfIsBest DEF O!OwnOf
<1>2. O!Deduped(signals) \subseteq {signals[i] : i \in DOMAIN signals}
  BY <1>1 DEF O!Deduped
<1>3. IsFiniteSet({signals[i] : i \in DOMAIN signals})
  <2>1. Len(signals) \in Int /\ 1 \in Int /\ DOMAIN signals = 1..Len(signals)
    OBVIOUS
  <2>2. IsFiniteSet(DOMAIN signals)
    BY <2>1, FS_Interval
  <2> DEFINE range == {signals[i] : i \in DOMAIN signals}
  <2>3. signals \in Surjection(DOMAIN signals, range)
    BY DEF Surjection
  <2> QED
    BY <2>2, <2>3, FS_Surjection
<1>4. O!Deduped(signals) \subseteq Signals
  BY <1>2
<1>5. IsFiniteSet(O!Deduped(signals))
  BY <1>2, <1>3, FS_Subset
<1>6. ASSUME NEW a \in O!Deduped(signals), NEW b \in O!Deduped(signals), a.market_id = b.market_id
      PROVE  a = b
  BY <1>1, <1>6 DEF O!Deduped
<1>7. ASSUME NEW i \in DOMAIN signals, signals[i].finite
      PROVE  \E j \in O!OwnOf(signals, signals[i].market_id) :
                signals[j] \in O!Deduped(signals) /\ O!Raev(signals[j]) >= O!Raev(signals[i])
  <2>1. signals[i].market_id \in O!MarketsOf(signals) /\ i \in O!OwnOf(signals, signals[i].market_id)
    BY <1>7 DEF O!MarketsOf, O!OwnOf
  <2> QED
    BY <2>1, BestOfIsBest DEF O!Deduped
<1> QED
  BY <1>2, <1>4, <1>5, <1>6, <1>7

\* A ranking is the survivors, each once, and better ones first.
LEMMA RankingFacts ==
  ASSUME NEW best, IsFiniteSet(best), NEW ranked \in O!Rankings(best)
  PROVE  /\ ranked \in Seq(best)
         /\ \A i, j \in DOMAIN ranked : i # j => ranked[i] # ranked[j]
         /\ \A i, j \in DOMAIN ranked : i < j => O!Raev(ranked[i]) >= O!Raev(ranked[j])
         /\ \A sig \in best : \E i \in DOMAIN ranked : ranked[i] = sig
<1> DEFINE n == Cardinality(best)
<1>1. n \in Nat
  BY FS_CardinalityType
<1>2. /\ ranked \in [1..n -> best]
      /\ \A i, j \in 1..n : i # j => ranked[i] # ranked[j]
      /\ \A i, j \in DOMAIN ranked : i < j => O!Raev(ranked[i]) >= O!Raev(ranked[j])
  BY OptimizerCounts DEF O!Rankings, O!SetToSeqs
<1>3. ranked \in Injection(1..n, best)
  BY <1>2 DEF Injection, IsInjective
<1>4. Cardinality(1..n) = n /\ IsFiniteSet(1..n)
  <2> HIDE DEF n
  <2>1. Cardinality(1..n) = (IF 1 > n THEN 0 ELSE n - 1 + 1) /\ IsFiniteSet(1..n)
    BY <1>1, FS_Interval
  <2> QED
    BY <1>1, <2>1
<1>5. ranked \in Surjection(1..n, best)
  BY <1>3, <1>4, FS_Injection
<1>6. DOMAIN ranked = 1..n /\ ranked \in Seq(best)
  <2> HIDE DEF n
  <2> QED
    BY <1>1, <1>2
<1> QED
  BY <1>2, <1>5, <1>6 DEF Surjection

----------------------------------------------------------------------------
(***************************************************************************)
(* Step 3, one signal: the arithmetic of an allocation.                    *)
(***************************************************************************)

\* Division that rounds up keeps what is positive positive and respects a bound.
LEMMA CeilDivFacts ==
  ASSUME NEW a \in Nat, NEW d \in Nat \ {0}, NEW c \in Nat, a <= c * d
  PROVE  /\ O!CeilDiv(a, d) \in Nat /\ O!CeilDiv(a, d) <= c
         /\ a > 0 => O!CeilDiv(a, d) > 0
<1>1. PICK q \in Int : q = (-a) \div d
  OBVIOUS
<1>2. q * d <= -a /\ -a < q * d + d
  BY <1>1
<1>3. q <= 0
  <2>1. SUFFICES ASSUME q >= 1 PROVE FALSE
    BY <1>1
  <2>2. q * d >= d
    BY <2>1
  <2> QED
    BY <1>2, <2>2
<1>4. -q <= c
  <2>1. SUFFICES ASSUME q + c + 1 <= 0 PROVE FALSE
    BY <1>1
  <2>2. (q + c + 1) * d <= 0
    BY <2>1
  <2>3. q * d + c * d + d <= 0
    BY <2>2
  <2> QED
    BY <1>2, <2>3
<1>5. a > 0 => q < 0
  BY <1>2, <1>3
<1>6. O!CeilDiv(a, d) = -q
  BY <1>1 DEF O!CeilDiv
<1> QED
  BY <1>3, <1>4, <1>5, <1>6

\* The penalty scales a size down, and to nothing only in a full niche.
LEMMA ScaleFacts ==
  ASSUME NEW used_up \in 0..MaxNiche, MaxNiche > 0, NEW whole, whole = PenaltyDen * MaxNiche
  PROVE  /\ whole \in Nat \ {0}
         /\ O!MaxOf(whole - PenaltyNum * used_up, 0) \in 0..whole
         /\ used_up < MaxNiche => O!MaxOf(whole - PenaltyNum * used_up, 0) > 0
<1>1. /\ MaxNiche \in Nat \ {0} /\ PenaltyDen \in Nat \ {0} /\ PenaltyNum \in 0..PenaltyDen
      /\ used_up \in 0..MaxNiche
  BY OptimizerFacts
<1>2. whole \in Nat \ {0}
  BY <1>1
<1>3. PenaltyNum * used_up \in Nat
  BY <1>1
<1>4. used_up < MaxNiche => PenaltyNum * used_up < whole
  <2>1. PenaltyNum * used_up <= PenaltyDen * used_up
    BY <1>1
  <2>2. used_up < MaxNiche => PenaltyDen * used_up < PenaltyDen * MaxNiche
    BY <1>1
  <2>3. PenaltyDen * used_up \in Nat
    BY <1>1
  <2> QED
    BY <1>2, <1>3, <2>1, <2>2, <2>3
<1> QED
  BY <1>2, <1>3, <1>4 DEF O!MaxOf

\* A size is within what is left of every cap; there is none only if none was
\* asked for or a cap is reached.
LEMMA AllocationFacts ==
  ASSUME NEW sig \in Signals, NEW budget \in Nat, NEW gone \in 0..budget,
         NEW used_up \in 0..MaxNiche, NEW alloc, alloc = O!Allocation(sig, budget, gone, used_up)
  PROVE  /\ alloc \in Nat /\ alloc <= MaxMarket
         /\ gone + alloc <= budget /\ used_up + alloc <= MaxNiche
         /\ alloc = 0 => \/ sig.position_fraction = 0 \/ MaxMarket = 0
                         \/ gone >= budget \/ used_up >= MaxNiche
<1> DEFINE capped == O!MinOf(O!MinOf(sig.position_fraction, MaxMarket),
                             O!MinOf(O!MaxOf(MaxNiche - used_up, 0), O!MaxOf(budget - gone, 0)))
<1>1. /\ capped \in Nat /\ capped <= MaxMarket
      /\ gone + capped <= budget /\ used_up + capped <= MaxNiche
      /\ capped = 0 => \/ sig.position_fraction = 0 \/ MaxMarket = 0
                       \/ gone >= budget \/ used_up >= MaxNiche
  BY OptimizerFacts DEF O!MinOf, O!MaxOf
<1>2. CASE MaxNiche > 0
  <2>1. PICK whole : whole = PenaltyDen * MaxNiche
    OBVIOUS
  <2>2. PICK scale : scale = O!MaxOf(whole - PenaltyNum * used_up, 0)
    OBVIOUS
  <2>3. whole \in Nat \ {0} /\ scale \in 0..whole /\ (used_up < MaxNiche => scale > 0)
    BY <1>2, <2>1, <2>2, ScaleFacts
  <2>4. alloc = O!CeilDiv(capped * scale, whole)
    BY <1>2, <2>1, <2>2 DEF O!Allocation
  <2>5. capped * scale \in Nat /\ capped * scale <= capped * whole
    <3> HIDE DEF capped
    <3> QED
      BY <1>1, <2>3
  <2>6. capped > 0 /\ scale > 0 => capped * scale > 0
    <3> HIDE DEF capped
    <3> QED
      BY <1>1, <2>3
  <2>7. alloc \in Nat /\ alloc <= capped /\ (capped * scale > 0 => alloc > 0)
    <3> HIDE DEF capped
    <3> QED
      BY <1>1, <2>3, <2>4, <2>5, CeilDivFacts
  <2> HIDE DEF capped
  <2> QED
    BY <1>1, <2>3, <2>6, <2>7, OptimizerFacts
<1>3. CASE ~(MaxNiche > 0)
  <2>1. MaxNiche = 0 /\ capped = 0
    BY <1>1, <1>3, OptimizerFacts
  <2>2. PICK scale : scale = O!MaxOf(PenaltyDen - PenaltyNum, 0)
    OBVIOUS
  <2>3. alloc = O!CeilDiv(capped * scale, PenaltyDen) /\ scale \in Nat
    BY <1>3, <2>2, OptimizerFacts DEF O!Allocation, O!MaxOf
  <2>4. capped * scale = 0
    <3> HIDE DEF capped
    <3> QED
      BY <2>1, <2>3
  <2>5. alloc \in Nat /\ alloc <= 0
    <3>1. PICK a : a = capped * scale
      OBVIOUS
    <3>2. PICK d \in Nat \ {0} : d = PenaltyDen
      BY OptimizerFacts
    <3>3. a \in Nat /\ 0 \in Nat /\ a <= 0 * d
      BY <2>4, <3>1, <3>2
    <3> HIDE DEF capped
    <3> QED
      BY <2>3, <3>1, <3>2, <3>3, CeilDivFacts
  <2> QED
    BY <1>1, <2>1, <2>5, OptimizerFacts
<1> QED
  BY <1>2, <1>3

----------------------------------------------------------------------------
(***************************************************************************)
(* What a batch adds up to.                                                *)
(***************************************************************************)

Item == [signal : Signals, fraction : Nat \ {0}]

\* A batch has finitely many sizes; the total is a natural number and grows
\* with the set of indices.
LEMMA TotalFacts ==
  ASSUME NEW batch \in Seq(Item), NEW some \in SUBSET (DOMAIN batch)
  PROVE  /\ IsFiniteSet(DOMAIN batch) /\ O!Total(batch, some) \in Nat
         /\ O!Total(batch, {}) = 0
<1> DEFINE f == [i \in DOMAIN batch |-> batch[i].fraction]
<1>1. IsFiniteSet(DOMAIN batch)
  <2>1. Len(batch) \in Int /\ 1 \in Int /\ DOMAIN batch = 1..Len(batch)
    OBVIOUS
  <2> QED
    BY <2>1, FS_Interval
<1>2. IsFiniteSet(some)
  BY <1>1, FS_Subset
<1>3. \A i \in some : f[i] \in Nat /\ f[i] \in Int
  <2>1. \A i \in DOMAIN batch : batch[i] \in Item
    OBVIOUS
  <2> QED
    BY <2>1 DEF Item
<1>4. SumFunctionOnSet(f, some) \in Nat
  <2> HIDE DEF f
  <2> QED
    BY <1>2, <1>3, SumNat
<1>5. SumFunctionOnSet(f, {}) = 0
  <2>1. IsFiniteSet({})
    BY FS_EmptySet
  <2> HIDE DEF f
  <2> QED
    BY <2>1, SumType
<1> QED
  BY <1>1, <1>4, <1>5, OptimizerCounts DEF O!Total

\* Some of a batch with one more item.
LEMMA TotalAppend ==
  ASSUME NEW batch \in Seq(Item), NEW item \in Item, NEW some \in SUBSET (DOMAIN batch)
  PROVE  /\ O!Total(Append(batch, item), some) = O!Total(batch, some)
         /\ O!Total(Append(batch, item), some \cup {Len(batch) + 1})
              = O!Total(batch, some) + item.fraction
<1>1. PICK n \in Nat : n = Len(batch) /\ DOMAIN batch = 1..n
  OBVIOUS
<1>2. PICK more : more = Append(batch, item)
  OBVIOUS
<1>3. more \in Seq(Item) /\ DOMAIN more = 1..(n + 1) /\ more[n + 1] = item
      /\ \A i \in 1..n : more[i] = batch[i]
  BY <1>1, <1>2
<1>4. PICK f : f = [i \in DOMAIN batch |-> batch[i].fraction]
  OBVIOUS
<1>5. PICK g : g = [i \in DOMAIN more |-> more[i].fraction]
  OBVIOUS
<1>6. PICK all : all = some \cup {n + 1}
  OBVIOUS
<1>7. \A i \in DOMAIN more : g[i] \in Int
  <2>1. \A i \in DOMAIN more : more[i] \in Item
    BY <1>3
  <2> QED
    BY <1>5, <2>1 DEF Item
<1>8. some \subseteq 1..n /\ n + 1 \notin some /\ all \subseteq DOMAIN more /\ some = all \ {n + 1}
  BY <1>1, <1>3, <1>6
<1>9. IsFiniteSet(all) /\ IsFiniteSet(some)
  <2>1. IsFiniteSet(DOMAIN more)
    BY <1>3, TotalFacts
  <2> QED
    BY <1>8, <2>1, FS_Subset
<1>10. \A i \in some : f[i] = g[i] /\ g[i] \in Int
  BY <1>1, <1>3, <1>4, <1>5, <1>7, <1>8
<1>11. SumFunctionOnSet(f, some) = SumFunctionOnSet(g, some)
  BY <1>9, <1>10, SumCong
<1>12. SumFunctionOnSet(g, all) = g[n + 1] + SumFunctionOnSet(g, some)
  <2>1. n + 1 \in all /\ \A i \in all : g[i] \in Int
    BY <1>6, <1>7, <1>8
  <2>2. SumFunctionOnSet(g, all) = g[n + 1] + SumFunctionOnSet(g, all \ {n + 1})
    BY <1>9, <2>1, SumRemove
  <2> QED
    BY <1>8, <2>2
<1>13. g[n + 1] = item.fraction /\ g[n + 1] \in Int
  BY <1>3, <1>5, <1>7
<1>14. SumFunctionOnSet(g, some) \in Int
  BY <1>9, <1>10, SumType
<1>15. O!Total(batch, some) = SumFunctionOnSet(f, some) /\ O!Total(more, some) = SumFunctionOnSet(g, some)
       /\ O!Total(more, all) = SumFunctionOnSet(g, all)
  BY <1>4, <1>5, OptimizerCounts DEF O!Total
<1>16. Append(batch, item) = more /\ some \cup {Len(batch) + 1} = all
  BY <1>1, <1>2, <1>6
<1>17. O!Total(more, some) = O!Total(batch, some)
  BY <1>11, <1>15, Zenon
<1>18. O!Total(more, all) = O!Total(batch, some) + item.fraction
  <2>1. PICK p \in Int, q \in Int : p = SumFunctionOnSet(g, some) /\ q = g[n + 1]
    BY <1>13, <1>14
  <2>2. q + p = p + q
    BY <2>1
  <2> QED
    BY <1>11, <1>12, <1>13, <1>15, <2>1, <2>2, Zenon
<1> QED
  BY <1>16, <1>17, <1>18, Zenon

----------------------------------------------------------------------------
(***************************************************************************)
(* The rounds of step 3.                                                   *)
(***************************************************************************)

Start == [used |-> 0, niche |-> O!EmptyMap, out |-> <<>>]

After(ranked, budget, rounds, k) ==
  IF k = 0 THEN Start ELSE O!Round(rounds[k - 1], ranked[k], budget)

Rounds(ranked, budget) ==
  CHOOSE rounds : rounds = [k \in 0..Len(ranked) |-> After(ranked, budget, rounds, k)]

LEMMA GreedyIsRounds ==
  ASSUME NEW ranked, NEW budget
  PROVE  O!Greedy(ranked, budget) = Rounds(ranked, budget)[Len(ranked)].out
BY DEF O!Greedy, Rounds, After, Start

\* The recursive function exists, so it satisfies its equation.
LEMMA RoundsEquation ==
  ASSUME NEW ranked, NEW budget, Len(ranked) \in Nat
  PROVE  \A k \in 0..Len(ranked) :
           Rounds(ranked, budget)[k] = After(ranked, budget, Rounds(ranked, budget), k)
<1> DEFINE G == {n \in Nat : \E g : g = [k \in 0..n |-> After(ranked, budget, g, k)]}
<1>1. 0 \in G
  <2>1. PICK g : g = [k \in 0..0 |-> Start]
    OBVIOUS
  <2>2. g = [k \in 0..0 |-> After(ranked, budget, g, k)]
    BY <2>1 DEF After
  <2> QED
    BY <2>2
<1>2. ASSUME NEW n \in G
      PROVE  n + 1 \in G
  <2>1. PICK g : g = [k \in 0..n |-> After(ranked, budget, g, k)]
    OBVIOUS
  <2>2. PICK h : h = [k \in 0..(n + 1) |-> After(ranked, budget, g, k)]
    OBVIOUS
  <2>3. n \in Nat
    OBVIOUS
  <2>4. \A k \in 0..n : h[k] = g[k]
    BY <2>1, <2>2, <2>3
  <2>5. ASSUME NEW k \in 0..(n + 1)
        PROVE  After(ranked, budget, g, k) = After(ranked, budget, h, k)
    <3>1. k = 0 \/ k - 1 \in 0..n
      BY <2>3
    <3>2. k # 0 => g[k - 1] = h[k - 1]
      BY <2>4, <3>1
    <3> QED
      BY <3>2 DEF After
  <2>6. h = [k \in 0..(n + 1) |-> After(ranked, budget, h, k)]
    BY <2>2, <2>5, Zenon
  <2>7. n + 1 \in Nat
    BY <2>3
  <2> QED
    BY <2>6, <2>7, Zenon
<1>3. Len(ranked) \in G
  <2> HIDE DEF G
  <2>1. G \in SUBSET Nat
    BY DEF G
  <2> QED
    BY <1>1, <1>2, <2>1, NatSetInduction
<1>4. PICK g : g = [k \in 0..Len(ranked) |-> After(ranked, budget, g, k)]
  BY <1>3
<1>5. Rounds(ranked, budget) =
        [k \in 0..Len(ranked) |-> After(ranked, budget, Rounds(ranked, budget), k)]
  BY <1>4 DEF Rounds
<1> QED
  BY <1>5

\* The items of a niche, and those at least as good as a signal.
Of(batch, c) == {i \in DOMAIN batch : Cluster[batch[i].signal.market_id] = c}
Better(batch, sig) == {i \in DOMAIN batch : O!Raev(batch[i].signal) >= O!Raev(sig)}

\* Why a signal is given nothing.
Excused(batch, budget, sig) ==
  \/ sig.position_fraction = 0 \/ MaxMarket = 0
  \/ O!Total(batch, Better(batch, sig)) >= budget
  \/ O!Total(batch, Better(batch, sig) \cap Of(batch, Cluster[sig.market_id])) >= MaxNiche

\* Where the loop is after k rounds: what it keeps count of is what it has
\* given, within the caps; every signal ranked so far was given something,
\* once, or has an excuse.
RoundInv(ranked, budget, acc, k) ==
  /\ acc = [used |-> acc.used, niche |-> acc.niche, out |-> acc.out]
  /\ acc.out \in Seq(Item)
  /\ acc.used = O!Total(acc.out, DOMAIN acc.out) /\ acc.used \in 0..budget
  /\ \A c : O!GetOr(acc.niche, c, 0) = O!Total(acc.out, Of(acc.out, c))
  /\ \A c : O!GetOr(acc.niche, c, 0) \in 0..MaxNiche
  /\ \A i \in DOMAIN acc.out :
       /\ acc.out[i].fraction <= MaxMarket
       /\ \E p \in 1..k : acc.out[i].signal = ranked[p]
  /\ \A i, j \in DOMAIN acc.out : acc.out[i].signal = acc.out[j].signal => i = j
  /\ \A p \in 1..k : \/ \E i \in DOMAIN acc.out : acc.out[i].signal = ranked[p]
                     \/ Excused(acc.out, budget, ranked[p])

\* A total that includes the new item or not is at least what it was.
LEMMA TotalGrows ==
  ASSUME NEW batch \in Seq(Item), NEW item \in Item, NEW some \in SUBSET (DOMAIN batch),
         NEW bound \in Int, O!Total(batch, some) >= bound
  PROVE  /\ O!Total(Append(batch, item), some) >= bound
         /\ O!Total(Append(batch, item), some \cup {Len(batch) + 1}) >= bound
<1>1. PICK p \in Nat : p = O!Total(batch, some)
  BY TotalFacts
<1>2. item.fraction \in Nat
  BY DEF Item
<1>3. p + item.fraction >= bound
  BY <1>1, <1>2
<1> QED
  BY <1>1, <1>3, TotalAppend

\* An excuse stays one.
LEMMA ExcusedStays ==
  ASSUME NEW batch \in Seq(Item), NEW item \in Item, NEW budget \in Nat, NEW sig,
         Excused(batch, budget, sig)
  PROVE  Excused(Append(batch, item), budget, sig)
<1>1. PICK more, n : more = Append(batch, item) /\ n = Len(batch) + 1
  OBVIOUS
<1>2. PICK b, m : b = Better(batch, sig) /\ m = Better(batch, sig) \cap Of(batch, Cluster[sig.market_id])
  OBVIOUS
<1>3. b \in SUBSET (DOMAIN batch) /\ m \in SUBSET (DOMAIN batch)
  BY <1>2 DEF Better, Of
<1>4. /\ n \notin DOMAIN batch /\ DOMAIN more = DOMAIN batch \cup {n}
      /\ \A i \in DOMAIN batch : more[i] = batch[i]
  BY <1>1
<1>5. Better(more, sig) \in {b, b \cup {n}}
  <2>1. \A i : i \in b <=> i \in DOMAIN batch /\ i \in Better(more, sig)
    BY <1>2, <1>4 DEF Better
  <2>2. Better(more, sig) \subseteq DOMAIN batch \cup {n}
    BY <1>4 DEF Better
  <2> QED
    BY <2>1, <2>2, <1>3
<1>6. Better(more, sig) \cap Of(more, Cluster[sig.market_id]) \in {m, m \cup {n}}
  <2> DEFINE both == Better(more, sig) \cap Of(more, Cluster[sig.market_id])
  <2>1. \A i : i \in m <=> i \in DOMAIN batch /\ i \in both
    BY <1>2, <1>4 DEF Better, Of
  <2>2. both \subseteq DOMAIN batch \cup {n}
    BY <1>4 DEF Better
  <2> HIDE DEF both
  <2>3. both \in {m, m \cup {n}}
    BY <2>1, <2>2, <1>3
  <2> QED
    BY <2>3 DEF both
<1>10. budget \in Int /\ MaxNiche \in Int
  BY OptimizerFacts
<1>7. CASE O!Total(batch, b) >= budget
  <2>1. O!Total(more, b) >= budget /\ O!Total(more, b \cup {n}) >= budget
    BY <1>1, <1>3, <1>7, <1>10, TotalGrows, Zenon
  <2>2. O!Total(more, Better(more, sig)) >= budget
    BY <1>5, <2>1
  <2> QED
    BY <1>1, <2>2 DEF Excused
<1>8. CASE O!Total(batch, m) >= MaxNiche
  <2>1. O!Total(more, m) >= MaxNiche /\ O!Total(more, m \cup {n}) >= MaxNiche
    BY <1>1, <1>3, <1>8, <1>10, TotalGrows, Zenon
  <2>2. O!Total(more, Better(more, sig) \cap Of(more, Cluster[sig.market_id])) >= MaxNiche
    BY <1>6, <2>1
  <2> QED
    BY <1>1, <2>2 DEF Excused
<1>9. CASE sig.position_fraction = 0 \/ MaxMarket = 0
  BY <1>9 DEF Excused
<1> QED
  BY <1>2, <1>7, <1>8, <1>9 DEF Excused

\* Nothing is given before the first round.
LEMMA StartInv ==
  ASSUME NEW ranked, NEW budget \in Nat
  PROVE  RoundInv(ranked, budget, Start, 0)
<1>1. Start.out = <<>> /\ Start.used = 0 /\ Start.out \in Seq(Item)
      /\ Start = [used |-> Start.used, niche |-> Start.niche, out |-> Start.out]
  BY DEF Start
<1>2. DOMAIN Start.out = {} /\ \A c : Of(Start.out, c) = {}
  BY <1>1 DEF Of
<1>3. O!Total(Start.out, {}) = 0
  BY <1>1, TotalFacts
<1>4. \A c : O!GetOr(Start.niche, c, 0) = 0
  BY DEF Start, O!GetOr, O!EmptyMap
<1>5. /\ Start.used = O!Total(Start.out, DOMAIN Start.out) /\ Start.used \in 0..budget
      /\ \A c : O!GetOr(Start.niche, c, 0) = O!Total(Start.out, Of(Start.out, c))
  <2>1. \A c : O!Total(Start.out, Of(Start.out, c)) = 0
    BY <1>2, <1>3, Zenon
  <2>2. Start.used = O!Total(Start.out, DOMAIN Start.out)
    BY <1>1, <1>2, <1>3, Zenon
  <2>3. Start.used \in 0..budget
    BY <1>1
  <2> QED
    BY <1>4, <2>1, <2>2, <2>3
<1>6. \A c : O!GetOr(Start.niche, c, 0) \in 0..MaxNiche
  <2>1. 0 \in 0..MaxNiche
    BY OptimizerFacts
  <2> QED
    BY <1>4, <2>1
<1>7. \A p \in 1..0 : FALSE
  OBVIOUS
<1> QED
  BY <1>1, <1>2, <1>5, <1>6, <1>7, Zenon DEF RoundInv

\* A ranking of signals, as RankingFacts has it.
Ranked(ranked) ==
  /\ ranked \in Seq(Signals)
  /\ \A i, j \in DOMAIN ranked : i # j => ranked[i] # ranked[j]
  /\ \A i, j \in DOMAIN ranked : i < j => O!Raev(ranked[i]) >= O!Raev(ranked[j])

\* One round more.
LEMMA RoundKeeps ==
  ASSUME NEW ranked, Ranked(ranked), NEW budget \in Nat, NEW acc, NEW k \in DOMAIN ranked,
         RoundInv(ranked, budget, acc, k - 1)
  PROVE  RoundInv(ranked, budget, O!Round(acc, ranked[k], budget), k)
<1> DEFINE sig     == ranked[k]
           c       == Cluster[sig.market_id]
           used_up == O!GetOr(acc.niche, c, 0)
           item(a) == [signal |-> sig, fraction |-> a]
           batch   == acc.out
<1>1. /\ sig \in Signals /\ k \in Nat \ {0}
      /\ batch \in Seq(Item) /\ acc.used \in 0..budget
      /\ acc.used = O!Total(batch, DOMAIN batch)
      /\ \A d : O!GetOr(acc.niche, d, 0) = O!Total(batch, Of(batch, d))
      /\ \A d : O!GetOr(acc.niche, d, 0) \in 0..MaxNiche
  BY DEF RoundInv, Ranked
<1>2. /\ \A i \in DOMAIN batch : /\ batch[i].fraction <= MaxMarket
                                 /\ \E p \in 1..(k - 1) : batch[i].signal = ranked[p]
      /\ \A i, j \in DOMAIN batch : batch[i].signal = batch[j].signal => i = j
      /\ \A p \in 1..(k - 1) : \/ \E i \in DOMAIN batch : batch[i].signal = ranked[p]
                               \/ Excused(batch, budget, ranked[p])
  BY DEF RoundInv
<1>3. PICK alloc : alloc = O!Allocation(sig, budget, acc.used, used_up)
  OBVIOUS
<1>4. /\ alloc \in Nat /\ alloc <= MaxMarket
      /\ acc.used + alloc <= budget /\ used_up + alloc <= MaxNiche
      /\ alloc = 0 => \/ sig.position_fraction = 0 \/ MaxMarket = 0
                      \/ acc.used >= budget \/ used_up >= MaxNiche
  BY <1>1, <1>3, AllocationFacts
<1>5. \A p \in 1..(k - 1) : p \in DOMAIN ranked /\ p < k
  <2>1. ranked \in Seq(Signals) /\ k \in 1..Len(ranked) /\ DOMAIN ranked = 1..Len(ranked)
    BY DEF Ranked
  <2> QED
    BY <2>1
<1>6. \A i \in DOMAIN batch : batch[i].signal # sig /\ O!Raev(batch[i].signal) >= O!Raev(sig)
  BY <1>2, <1>5 DEF Ranked
<1>7. \A p \in 1..k : p = k \/ p \in 1..(k - 1)
  BY <1>1
<1>8. \A p \in 1..(k - 1) : p \in 1..k
  BY <1>1
<1>9. k \in 1..k
  BY <1>1
<1>10. CASE alloc = 0
  <2>1. O!Round(acc, sig, budget) = acc
    <3>1. alloc <= 0
      BY <1>10
    <3> QED
      BY <1>3, <3>1 DEF O!Round, O!Charge
  <2>2. Better(batch, sig) = DOMAIN batch /\ Better(batch, sig) \cap Of(batch, c) = Of(batch, c)
    BY <1>6 DEF Better, Of
  <2>3. Excused(batch, budget, sig)
    <3>1. CASE acc.used >= budget
      BY <1>1, <2>2, <3>1 DEF Excused
    <3>2. CASE used_up >= MaxNiche
      <4>1. O!Total(batch, Better(batch, sig) \cap Of(batch, c)) >= MaxNiche
        BY <1>1, <2>2, <3>2
      <4> QED
        BY <4>1 DEF Excused
    <3> QED
      BY <1>4, <1>10, <3>1, <3>2 DEF Excused
  <2>4. \A p \in 1..k : \/ \E i \in DOMAIN batch : batch[i].signal = ranked[p]
                        \/ Excused(batch, budget, ranked[p])
    BY <1>2, <1>7, <2>3
  <2>5. \A i \in DOMAIN batch : batch[i].fraction <= MaxMarket /\ \E p \in 1..k : batch[i].signal = ranked[p]
    BY <1>2, <1>8
  <2>6. RoundInv(ranked, budget, acc, k)
    BY <1>1, <1>2, <2>4, <2>5, Zenon DEF RoundInv
  <2> QED
    BY <2>1, <2>6
<1>11. CASE alloc # 0
  <2>1. PICK new : new = [signal |-> sig, fraction |-> alloc]
    OBVIOUS
  <2>2. new \in Item /\ new.signal = sig /\ new.fraction = alloc
    BY <1>1, <1>4, <1>11, <2>1 DEF Item
  <2>3. PICK more, n : more = Append(batch, new) /\ n = Len(batch) + 1
    OBVIOUS
  <2>4. /\ more \in Seq(Item) /\ DOMAIN more = DOMAIN batch \cup {n} /\ n \notin DOMAIN batch
        /\ more[n] = new /\ \A i \in DOMAIN batch : more[i] = batch[i]
    <3>1. batch \in Seq(Item)
      BY <1>1
    <3>2. new \in Item
      BY <2>2
    <3>3. more = Append(batch, new) /\ n = Len(batch) + 1
      BY <2>3
    <3> HIDE DEF batch, sig
    <3> QED
      BY <3>1, <3>2, <3>3
  <2>5. PICK next : next = O!Round(acc, sig, budget)
    OBVIOUS
  <2>6. next = [used |-> acc.used + alloc,
                niche |-> O!Insert(acc.niche, c, used_up + alloc), out |-> more]
    <3>1. ~(alloc <= 0)
      BY <1>4, <1>11
    <3>2. O!Append(batch, new) = more
      BY <2>3
    <3> QED
      BY <1>3, <2>1, <2>5, <3>1, <3>2 DEF O!Round, O!Charge
  <2>7. next.used = acc.used + alloc /\ next.out = more
        /\ next.niche = O!Insert(acc.niche, c, used_up + alloc)
        /\ next = [used |-> next.used, niche |-> next.niche, out |-> next.out]
    BY <2>6
  <2>8. \A some \in SUBSET (DOMAIN batch) : /\ O!Total(more, some) = O!Total(batch, some)
                                            /\ O!Total(more, some \cup {n}) = O!Total(batch, some) + alloc
    BY <1>1, <2>2, <2>3, TotalAppend, Zenon
  <2>9. next.used = O!Total(next.out, DOMAIN next.out) /\ next.used \in 0..budget
    <3>1. O!Total(more, DOMAIN more) = acc.used + alloc
      BY <1>1, <2>4, <2>8
    <3> QED
      BY <1>1, <1>4, <2>7, <3>1
  <2>10. ASSUME NEW d
         PROVE  /\ O!GetOr(next.niche, d, 0) = O!Total(next.out, Of(next.out, d))
                /\ O!GetOr(next.niche, d, 0) \in 0..MaxNiche
    <3>1. Of(batch, d) \in SUBSET (DOMAIN batch)
      BY DEF Of
    <3>2. CASE d = c
      <4>1. Of(more, d) = Of(batch, d) \cup {n}
        BY <2>2, <2>4, <3>2 DEF Of
      <4>2. O!GetOr(next.niche, d, 0) = used_up + alloc
        BY <2>7, <3>2 DEF O!GetOr, O!Insert
      <4>3. O!Total(more, Of(more, d)) = used_up + alloc
        BY <1>1, <2>8, <3>1, <3>2, <4>1
      <4> QED
        BY <1>1, <1>4, <2>7, <4>2, <4>3
    <3>3. CASE d # c
      <4>1. Of(more, d) = Of(batch, d)
        BY <2>2, <2>4, <3>3 DEF Of
      <4>2. O!GetOr(next.niche, d, 0) = O!GetOr(acc.niche, d, 0)
        BY <2>7, <3>3 DEF O!GetOr, O!Insert
      <4> QED
        BY <1>1, <2>7, <2>8, <3>1, <4>1, <4>2
    <3> QED
      BY <3>2, <3>3
  <2>11. \A i \in DOMAIN more : more[i].fraction <= MaxMarket /\ \E p \in 1..k : more[i].signal = ranked[p]
    BY <1>2, <1>4, <1>8, <1>9, <2>2, <2>4
  <2>12. \A i, j \in DOMAIN more : more[i].signal = more[j].signal => i = j
    BY <1>2, <1>6, <2>2, <2>4
  <2>13. ASSUME NEW p \in 1..k
         PROVE  \/ \E i \in DOMAIN more : more[i].signal = ranked[p]
                \/ Excused(more, budget, ranked[p])
    <3>1. CASE p = k
      BY <2>2, <2>4, <3>1
    <3>2. CASE p # k
      <4>1. p \in 1..(k - 1)
        BY <1>7, <3>2
      <4>2. CASE \E i \in DOMAIN batch : batch[i].signal = ranked[p]
        BY <2>4, <4>2
      <4>3. CASE Excused(batch, budget, ranked[p])
        BY <1>1, <2>2, <2>3, <4>3, ExcusedStays, Zenon
      <4> QED
        BY <1>2, <4>1, <4>2, <4>3
    <3> QED
      BY <3>1, <3>2
  <2> HIDE DEF sig, c, used_up, batch
  <2>14. RoundInv(ranked, budget, next, k)
    BY <2>4, <2>7, <2>9, <2>10, <2>11, <2>12, <2>13, Zenon DEF RoundInv
  <2> QED
    BY <2>5, <2>14 DEF sig
<1> QED
  BY <1>10, <1>11

\* Every round leaves the loop as RoundInv says.
LEMMA RoundsKeep ==
  ASSUME NEW ranked, Ranked(ranked), NEW budget \in Nat
  PROVE  RoundInv(ranked, budget, Rounds(ranked, budget)[Len(ranked)], Len(ranked))
<1> DEFINE G == {k \in Nat : k <= Len(ranked) =>
                               RoundInv(ranked, budget, Rounds(ranked, budget)[k], k)}
<1>1. Len(ranked) \in Nat /\ DOMAIN ranked = 1..Len(ranked)
  BY DEF Ranked
<1>2. \A k \in 0..Len(ranked) :
        Rounds(ranked, budget)[k] = After(ranked, budget, Rounds(ranked, budget), k)
  BY <1>1, RoundsEquation
<1>3. 0 \in G
  <2>1. Rounds(ranked, budget)[0] = Start
    BY <1>1, <1>2 DEF After
  <2> QED
    BY <2>1, StartInv
<1>4. ASSUME NEW k \in G
      PROVE  k + 1 \in G
  <2>1. k \in Nat /\ k + 1 \in Nat
    OBVIOUS
  <2>2. CASE k + 1 <= Len(ranked)
    <3>1. RoundInv(ranked, budget, Rounds(ranked, budget)[k], k)
      BY <1>1, <2>1, <2>2
    <3>2. PICK n : n = k + 1
      OBVIOUS
    <3>3. n \in DOMAIN ranked /\ n \in 0..Len(ranked) /\ n - 1 = k /\ n # 0
      BY <1>1, <2>1, <2>2, <3>2
    <3>4. Rounds(ranked, budget)[n] = O!Round(Rounds(ranked, budget)[k], ranked[n], budget)
      BY <1>2, <3>3 DEF After
    <3>5. PICK acc : acc = Rounds(ranked, budget)[k]
      OBVIOUS
    <3>6. RoundInv(ranked, budget, acc, n - 1)
      BY <3>1, <3>3, <3>5
    <3>7. RoundInv(ranked, budget, O!Round(acc, ranked[n], budget), n)
      BY <3>3, <3>6, RoundKeeps
    <3> QED
      BY <2>1, <3>2, <3>4, <3>5, <3>7
  <2> QED
    BY <2>1, <2>2
<1>5. Len(ranked) \in G
  <2> HIDE DEF G
  <2>1. G \in SUBSET Nat
    BY DEF G
  <2> QED
    BY <1>1, <1>3, <1>4, <2>1, NatSetInduction
<1> QED
  BY <1>1, <1>5

\* What a batch computed from signals and a budget is like.
Fair(batch, signals, budget) ==
  /\ batch \in Seq(Item)
  /\ O!Total(batch, DOMAIN batch) <= budget
  /\ \A c : O!Total(batch, Of(batch, c)) <= MaxNiche
  /\ \A i \in DOMAIN batch : /\ batch[i].fraction <= MaxMarket
                             /\ \E j \in DOMAIN signals : batch[i].signal = signals[j]
  /\ \A i, j \in DOMAIN batch : batch[i].signal.market_id = batch[j].signal.market_id => i = j
  /\ \A j \in DOMAIN signals : signals[j].finite =>
       \E o \in O!OwnOf(signals, signals[j].market_id) :
         /\ O!Raev(signals[o]) >= O!Raev(signals[j])
         /\ \/ \E i \in DOMAIN batch : batch[i].signal = signals[o]
            \/ Excused(batch, budget, signals[o])

\* Every batch compute_allocations can return is such a batch.
LEMMA BatchFacts ==
  ASSUME NEW signals \in Seq(Signals), NEW budget \in Nat,
         NEW batch \in O!ComputeAllocations(signals, budget)
  PROVE  Fair(batch, signals, budget)
<1>1. PICK ranked \in O!Rankings(O!Deduped(signals)) : batch = O!Greedy(ranked, budget)
  BY DEF O!ComputeAllocations
<1>2. /\ O!Deduped(signals) \subseteq {signals[i] : i \in DOMAIN signals}
      /\ O!Deduped(signals) \subseteq Signals
      /\ IsFiniteSet(O!Deduped(signals))
      /\ \A a, b \in O!Deduped(signals) : a.market_id = b.market_id => a = b
      /\ \A i \in DOMAIN signals : signals[i].finite =>
           \E j \in O!OwnOf(signals, signals[i].market_id) :
             signals[j] \in O!Deduped(signals) /\ O!Raev(signals[j]) >= O!Raev(signals[i])
  BY DedupedFacts
<1>3. PICK best : best = O!Deduped(signals)
  OBVIOUS
<1>4. /\ ranked \in Seq(best)
      /\ \A i, j \in DOMAIN ranked : i # j => ranked[i] # ranked[j]
      /\ \A i, j \in DOMAIN ranked : i < j => O!Raev(ranked[i]) >= O!Raev(ranked[j])
      /\ \A sig \in best : \E i \in DOMAIN ranked : ranked[i] = sig
  BY <1>1, <1>2, <1>3, RankingFacts
<1>5. ranked \in Seq(Signals) /\ DOMAIN ranked = 1..Len(ranked) /\ \A p \in DOMAIN ranked : ranked[p] \in best
  BY <1>2, <1>3, <1>4
<1>6. Ranked(ranked)
  BY <1>4, <1>5 DEF Ranked
<1>7. PICK acc, k : acc = Rounds(ranked, budget)[Len(ranked)] /\ k = Len(ranked)
  OBVIOUS
<1>8. RoundInv(ranked, budget, acc, k)
  BY <1>6, <1>7, RoundsKeep
<1>9. batch = acc.out
  BY <1>1, <1>7, GreedyIsRounds
<1>10. /\ batch \in Seq(Item)
       /\ \A c : O!Total(batch, Of(batch, c)) <= MaxNiche
       /\ \A i \in DOMAIN batch : batch[i].fraction <= MaxMarket
       /\ \A i \in DOMAIN batch : \E p \in DOMAIN ranked : batch[i].signal = ranked[p]
       /\ \A i, j \in DOMAIN batch : batch[i].signal = batch[j].signal => i = j
       /\ \A p \in DOMAIN ranked : \/ \E i \in DOMAIN batch : batch[i].signal = ranked[p]
                                   \/ Excused(batch, budget, ranked[p])
  <2>1. \A c : O!GetOr(acc.niche, c, 0) <= MaxNiche
    BY <1>8, OptimizerFacts DEF RoundInv
  <2>2. \A c : O!GetOr(acc.niche, c, 0) = O!Total(batch, Of(batch, c))
    BY <1>8, <1>9 DEF RoundInv
  <2>3. DOMAIN ranked = 1..k
    BY <1>5, <1>7
  <2> QED
    BY <1>8, <1>9, <2>1, <2>2, <2>3 DEF RoundInv
<1>11. O!Total(batch, DOMAIN batch) <= budget
  <2>1. acc.used <= budget
    BY <1>8 DEF RoundInv
  <2>2. acc.used = O!Total(batch, DOMAIN batch)
    BY <1>8, <1>9 DEF RoundInv
  <2> QED
    BY <2>1, <2>2
<1>12. \A i \in DOMAIN batch : batch[i].signal \in best
  BY <1>5, <1>10
<1>13. \A i \in DOMAIN batch : \E j \in DOMAIN signals : batch[i].signal = signals[j]
  BY <1>2, <1>3, <1>12
<1>14. \A i, j \in DOMAIN batch : batch[i].signal.market_id = batch[j].signal.market_id => i = j
  BY <1>2, <1>3, <1>10, <1>12
<1>15. ASSUME NEW j \in DOMAIN signals, signals[j].finite
       PROVE  \E o \in O!OwnOf(signals, signals[j].market_id) :
                /\ O!Raev(signals[o]) >= O!Raev(signals[j])
                /\ \/ \E i \in DOMAIN batch : batch[i].signal = signals[o]
                   \/ Excused(batch, budget, signals[o])
  <2>1. PICK o \in O!OwnOf(signals, signals[j].market_id) :
          signals[o] \in best /\ O!Raev(signals[o]) >= O!Raev(signals[j])
    BY <1>2, <1>3, <1>15
  <2>2. PICK p \in DOMAIN ranked : ranked[p] = signals[o]
    BY <1>4, <2>1
  <2>3. \/ \E i \in DOMAIN batch : batch[i].signal = signals[o]
        \/ Excused(batch, budget, signals[o])
    BY <1>10, <2>2
  <2> QED
    BY <2>1, <2>3
<1> QED
  BY <1>10, <1>11, <1>13, <1>14, <1>15 DEF Fair

\* More items, no smaller a total.
LEMMA TotalMonotone ==
  ASSUME NEW batch \in Seq(Item), NEW all \in SUBSET (DOMAIN batch), NEW some \in SUBSET all,
         NEW bound \in Int, O!Total(batch, some) >= bound
  PROVE  O!Total(batch, all) >= bound
<1>1. PICK f : f = [i \in DOMAIN batch |-> batch[i].fraction]
  OBVIOUS
<1>2. PICK rest : rest = all \ some
  OBVIOUS
<1>3. IsFiniteSet(all) /\ IsFiniteSet(rest)
  BY <1>2, TotalFacts, FS_Subset
<1>4. \A i \in all : f[i] \in Nat /\ f[i] \in Int
  <2>1. \A i \in DOMAIN batch : batch[i] \in Item
    OBVIOUS
  <2> QED
    BY <1>1, <2>1 DEF Item
<1>5. PICK p : p = SumFunctionOnSet(f, rest)
  OBVIOUS
<1>6. p \in Nat
  BY <1>2, <1>3, <1>4, <1>5, SumNat
<1>7. O!Total(batch, all) = SumFunctionOnSet(f, all) /\ O!Total(batch, some) = SumFunctionOnSet(f, some)
  BY <1>1, OptimizerCounts DEF O!Total
<1>8. SumFunctionOnSet(f, all) = SumFunctionOnSet(f, some) + SumFunctionOnSet(f, all \ some)
  BY <1>3, <1>4, SumSplit
<1>9. PICK q, r : q = O!Total(batch, some) /\ r = O!Total(batch, all)
  OBVIOUS
<1>10. r = q + p
  BY <1>2, <1>5, <1>7, <1>8, <1>9, Zenon
<1>11. q \in Nat /\ q >= bound
  BY <1>9, TotalFacts
<1>12. r >= bound
  BY <1>6, <1>10, <1>11
<1> QED
  BY <1>9, <1>12

\* The excuse of a signal holds for a worse one of the same market.
LEMMA PassedOver ==
  ASSUME NEW signals \in Seq(Signals), NEW budget \in Nat, NEW batch, Fair(batch, signals, budget),
         NEW j \in DOMAIN signals, NEW sig, sig = signals[j],
         sig.finite, sig.position_fraction > 0, MaxMarket > 0,
         NEW better, better = Better(batch, sig)
  PROVE  \/ \E k \in better : batch[k].signal.market_id = sig.market_id
         \/ \E o \in O!OwnOf(signals, sig.market_id) :
              O!Raev(signals[o]) >= O!Raev(sig) /\ signals[o].position_fraction = 0
         \/ O!Total(batch, better) >= budget
         \/ O!Total(batch, better \cap Of(batch, Cluster[sig.market_id])) >= MaxNiche
<1>1. PICK o \in O!OwnOf(signals, sig.market_id) :
        /\ O!Raev(signals[o]) >= O!Raev(sig)
        /\ \/ \E i \in DOMAIN batch : batch[i].signal = signals[o]
           \/ Excused(batch, budget, signals[o])
  BY DEF Fair
<1>2. PICK own : own = signals[o]
  OBVIOUS
<1>3. own \in Signals /\ sig \in Signals /\ own.market_id = sig.market_id
  BY <1>2 DEF O!OwnOf
<1>4. batch \in Seq(Item)
  BY DEF Fair
<1>5. \A i \in DOMAIN batch : O!Raev(batch[i].signal) \in Int
  <2>1. \A i \in DOMAIN batch : batch[i] \in Item
    BY <1>4
  <2> QED
    BY <2>1, OptimizerFacts DEF Item
<1>6. O!Raev(own) \in Int /\ O!Raev(sig) \in Int /\ O!Raev(own) >= O!Raev(sig)
  BY <1>1, <1>2, <1>3, OptimizerFacts
<1>7. CASE \E i \in DOMAIN batch : batch[i].signal = signals[o]
  <2>1. PICK i \in DOMAIN batch : batch[i].signal = own
    BY <1>2, <1>7
  <2>2. i \in better /\ batch[i].signal.market_id = sig.market_id
    BY <1>3, <1>6, <2>1 DEF Better
  <2> QED
    BY <2>2
<1>8. CASE Excused(batch, budget, own)
  <2>1. PICK few : few = Better(batch, own)
    OBVIOUS
  <2>2. PICK niche : niche = Of(batch, Cluster[sig.market_id])
    OBVIOUS
  <2>3. few \in SUBSET better
    BY <1>5, <1>6, <2>1 DEF Better
  <2>4. better \in SUBSET (DOMAIN batch)
    BY DEF Better
  <2>5. few \cap niche \in SUBSET (better \cap niche) /\ better \cap niche \in SUBSET (DOMAIN batch)
    BY <2>3, <2>4
  <2>6. CASE own.position_fraction = 0
    BY <1>1, <1>2, <2>6
  <2>7. CASE O!Total(batch, few) >= budget
    <3>1. budget \in Int
      OBVIOUS
    <3> QED
      BY <1>4, <2>3, <2>4, <2>7, <3>1, TotalMonotone
  <2>8. CASE O!Total(batch, few \cap niche) >= MaxNiche
    <3>1. MaxNiche \in Int
      BY OptimizerFacts
    <3>2. O!Total(batch, better \cap niche) >= MaxNiche
      BY <1>4, <2>5, <2>8, <3>1, TotalMonotone
    <3> QED
      BY <2>2, <3>2
  <2>9. MaxMarket # 0
    BY OptimizerFacts
  <2>10. \/ own.position_fraction = 0 \/ MaxMarket = 0
         \/ O!Total(batch, few) >= budget
         \/ O!Total(batch, few \cap niche) >= MaxNiche
    BY <1>3, <1>8, <2>1, <2>2 DEF Excused
  <2> QED
    BY <2>6, <2>7, <2>8, <2>9, <2>10
<1> QED
  BY <1>1, <1>2, <1>7, <1>8

----------------------------------------------------------------------------
(***************************************************************************)
(* The optimizer by itself.                                                *)
(***************************************************************************)

\* The optimizer's state has its types.
OptimizerTyped ==
  /\ O!IsMap(positions, DOMAIN Cluster, Nat)
  /\ capital_available \in 0..Capital
  /\ pending_signals \in Seq(Signals) /\ Len(pending_signals) <= MaxPending

\* What was emitted last is a batch computed from what was flushed.
Computed ==
  \/ emitted = <<>> /\ flushed = O!NoFlush
  \/ /\ flushed.signals \in Seq(Signals) /\ flushed.budget \in Nat
     /\ emitted \in O!ComputeAllocations(flushed.signals, flushed.budget)

OptimizerInv == OptimizerTyped /\ Computed

\* Events only add to the positions.
LEMMA PositionsKeep ==
  ASSUME NEW update \in Updates, NEW old, O!IsMap(old, DOMAIN Cluster, Nat)
  PROVE  O!IsMap(O!InsertAll(old, update.positions), DOMAIN Cluster, Nat) /\ update.exposure \in Nat
<1>1. O!IsMap(update.positions, DOMAIN Cluster, Nat) /\ update.exposure \in Nat
  BY RoutingConstants DEF O!OptimizerConstants
<1> QED
  BY <1>1 DEF O!IsMap, O!InsertAll

\* The budget is a natural number.
LEMMA BudgetNat ==
  ASSUME capital_available \in 0..Capital
  PROVE  O!Budget \in Nat
<1>1. PICK c \in Nat \ {0}, t \in Nat, a \in Nat : c = Capital /\ t = TotalCapital /\ a = capital_available
  BY OptimizerFacts
<1>2. t * a \in Nat
  BY <1>1
<1>3. PICK p \in Nat : p = t * a
  BY <1>2
<1>4. p \div c \in Nat
  BY <1>1, <1>3
<1> QED
  BY <1>1, <1>3, <1>4 DEF O!Budget

\* The invariant is inductive.
LEMMA OptimizerInvKeeps ==
  OptimizerInv /\ (O!Next \/ UNCHANGED optimizerVars) => OptimizerInv'
<1> SUFFICES ASSUME OptimizerInv, O!Next \/ UNCHANGED optimizerVars
             PROVE  OptimizerInv'
  OBVIOUS
<1> USE DEF OptimizerInv
<1>1. ASSUME NEW signals \in Seq(Signals), O!Buffer(signals),
             Len(pending_signals) + Len(signals) <= MaxPending
      PROVE  OptimizerInv'
  <2>1. /\ pending_signals' = pending_signals \o signals
        /\ positions' = positions /\ capital_available' = capital_available
        /\ emitted' = <<>> /\ flushed' = O!NoFlush
    BY <1>1 DEF O!Buffer
  <2>2. pending_signals' \in Seq(Signals) /\ Len(pending_signals') <= MaxPending
    BY <1>1, <2>1 DEF OptimizerTyped
  <2> QED
    BY <2>1, <2>2 DEF OptimizerTyped, Computed, O!NoFlush
<1>2. ASSUME NEW sig \in Signals, Len(pending_signals) < MaxPending, O!OnSignal(sig)
      PROVE  OptimizerInv'
  <2>1. PICK signals : signals = <<sig>>
    OBVIOUS
  <2>2. signals \in Seq(Signals) /\ Len(signals) = 1
    BY <2>1
  <2>3. O!Buffer(signals)
    BY <1>2, <2>1 DEF O!OnSignal
  <2>4. Len(pending_signals) + Len(signals) <= MaxPending
    BY <1>2, <2>2, OptimizerFacts DEF OptimizerTyped
  <2> QED
    BY <1>1, <2>2, <2>3, <2>4
<1>3. ASSUME NEW sig1 \in Signals, NEW sig2 \in Signals, NEW batch \in {<<sig1>>, <<sig1, sig2>>},
             Len(pending_signals) + Len(batch) <= MaxPending, O!OnBatch(batch)
      PROVE  OptimizerInv'
  <2>1. <<sig1>> \in Seq(Signals) /\ <<sig1, sig2>> \in Seq(Signals)
    OBVIOUS
  <2>3. batch \in Seq(Signals)
    BY <1>3, <2>1, Zenon
  <2>2. O!Buffer(batch)
    BY <1>3 DEF O!OnBatch
  <2> QED
    BY <1>1, <1>3, <2>2, <2>3
<1>4. ASSUME NEW update \in Updates, O!OnPortfolio(update)
      PROVE  OptimizerInv'
  <2>1. /\ capital_available' = O!MaxOf(Capital - update.exposure, 0)
        /\ positions' = O!InsertAll(positions, update.positions)
        /\ emitted' = <<>> /\ flushed' = O!NoFlush
        /\ pending_signals' = pending_signals
    BY <1>4 DEF O!OnPortfolio
  <2>2. O!IsMap(positions', DOMAIN Cluster, Nat) /\ update.exposure \in Nat
    BY <2>1, PositionsKeep DEF OptimizerTyped
  <2>3. capital_available' \in 0..Capital
    BY <2>1, <2>2, OptimizerFacts DEF O!MaxOf
  <2> QED
    BY <2>1, <2>2, <2>3 DEF OptimizerTyped, Computed
<1>5. CASE O!Flush
  <2>1. /\ emitted' \in O!ComputeAllocations(pending_signals, O!Budget)
        /\ flushed' = [signals |-> pending_signals, budget |-> O!Budget]
        /\ pending_signals' = <<>>
        /\ positions' = positions /\ capital_available' = capital_available
    BY <1>5 DEF O!Flush
  <2>2. flushed'.signals = pending_signals /\ flushed'.budget = O!Budget
    BY <2>1
  <2>3. Computed'
    BY <2>1, <2>2, BudgetNat DEF Computed, OptimizerTyped
  <2>4. OptimizerTyped'
    <3>1. pending_signals' \in Seq(Signals) /\ Len(pending_signals') <= MaxPending
      BY <2>1, OptimizerFacts
    <3> QED
      BY <2>1, <3>1 DEF OptimizerTyped
  <2> QED
    BY <2>3, <2>4
<1>6. CASE UNCHANGED optimizerVars
  BY <1>6 DEF optimizerVars, OptimizerTyped, Computed
<1> QED
  BY <1>2, <1>3, <1>4, <1>5, <1>6 DEF O!Next

\* A batch computed from what was flushed is fair.
LEMMA InvIsFair ==
  OptimizerInv => BatchIsFair
<1> SUFFICES ASSUME OptimizerInv PROVE BatchIsFair
  OBVIOUS
<1>1. PICK signals, budget, batch : signals = flushed.signals /\ budget = flushed.budget /\ batch = emitted
  OBVIOUS
<1>2. \A c : O!InNiche(batch, c) = Of(batch, c)
  BY DEF O!InNiche, Of
<1>3. CASE emitted = <<>> /\ flushed = O!NoFlush
  <2>1. signals = <<>> /\ batch = <<>>
    BY <1>1, <1>3 DEF O!NoFlush
  <2> QED
    BY <1>1, <2>1 DEF BatchIsFair, O!BatchIsFair, O!TypeOK, O!BatchWithinCaps,
                      O!PassedOverForBetter, OptimizerInv, OptimizerTyped
<1>4. CASE /\ flushed.signals \in Seq(Signals) /\ flushed.budget \in Nat
           /\ emitted \in O!ComputeAllocations(flushed.signals, flushed.budget)
  <2>1. signals \in Seq(Signals) /\ budget \in Nat /\ Fair(batch, signals, budget)
    BY <1>1, <1>4, BatchFacts
  <2>2. \A i \in DOMAIN batch : batch[i].signal \in Signals /\ batch[i].fraction \in Nat \ {0}
    <3>1. \A i \in DOMAIN batch : batch[i] \in Item
      BY <2>1 DEF Fair
    <3> QED
      BY <3>1 DEF Item
  <2>3. O!TypeOK
    BY <1>1, <2>2 DEF O!TypeOK, OptimizerInv, OptimizerTyped
  <2>4. O!BatchWithinCaps
    <3>1. O!Total(batch, DOMAIN batch) <= budget
      BY <2>1 DEF Fair
    <3>2. \A c : O!Total(batch, O!InNiche(batch, c)) <= MaxNiche
      BY <1>2, <2>1 DEF Fair
    <3>3. \A i, j \in DOMAIN batch :
            /\ batch[i].fraction <= MaxMarket
            /\ batch[i].signal.market_id = batch[j].signal.market_id => i = j
      BY <2>1 DEF Fair
    <3> QED
      BY <1>1, <3>1, <3>2, <3>3, Zenon DEF O!BatchWithinCaps
  <2>5. O!PassedOverForBetter
    <3> SUFFICES ASSUME MaxMarket > 0, NEW j \in DOMAIN signals,
                        signals[j].finite, signals[j].position_fraction > 0
                 PROVE  LET sig    == signals[j]
                            better == {k \in DOMAIN batch : O!Raev(batch[k].signal) >= O!Raev(sig)}
                        IN  \/ \E k \in better : batch[k].signal.market_id = sig.market_id
                            \/ \E o \in O!OwnOf(signals, sig.market_id) :
                                 /\ O!Raev(signals[o]) >= O!Raev(sig)
                                 /\ signals[o].position_fraction = 0
                            \/ O!Total(batch, better) >= budget
                            \/ O!Total(batch, better \cap O!InNiche(batch, Cluster[sig.market_id]))
                                 >= MaxNiche
      BY <1>1, Zenon DEF O!PassedOverForBetter
    <3>1. PICK sig : sig = signals[j]
      OBVIOUS
    <3>2. PICK better : better = Better(batch, sig)
      OBVIOUS
    <3>3. sig.finite /\ sig.position_fraction > 0
      BY <3>1
    <3>4. \/ \E k \in better : batch[k].signal.market_id = sig.market_id
          \/ \E o \in O!OwnOf(signals, sig.market_id) :
               O!Raev(signals[o]) >= O!Raev(sig) /\ signals[o].position_fraction = 0
          \/ O!Total(batch, better) >= budget
          \/ O!Total(batch, better \cap Of(batch, Cluster[sig.market_id])) >= MaxNiche
      BY <2>1, <3>1, <3>2, <3>3, PassedOver
    <3>5. better = {k \in DOMAIN batch : O!Raev(batch[k].signal) >= O!Raev(sig)}
      BY <3>2 DEF Better
    <3> QED
      BY <1>2, <3>1, <3>4, <3>5, Zenon
  <2> QED
    BY <2>3, <2>4, <2>5 DEF BatchIsFair, O!BatchIsFair
<1> QED
  BY <1>3, <1>4 DEF OptimizerInv, Computed

\* Whatever signals, batches and portfolios the optimizer gets, every batch it
\* emits is within the market, niche and total caps with one signal a market,
\* and passes over a signal only for ones at least as good.
THEOREM OptimizerBatchIsFair == OptimizerSpec => []BatchIsFair
<1>1. Init => OptimizerInv
  <2> SUFFICES ASSUME Init PROVE OptimizerInv
    OBVIOUS
  <2>1. /\ positions = O!EmptyMap /\ capital_available = Capital
        /\ pending_signals = <<>> /\ emitted = <<>> /\ flushed = O!NoFlush
    BY DEF Init, O!Init
  <2>2. O!IsMap(O!EmptyMap, DOMAIN Cluster, Nat)
    BY DEF O!IsMap, O!EmptyMap
  <2>3. Capital \in 0..Capital /\ MaxPending \in Nat
    BY OptimizerFacts
  <2>4. pending_signals \in Seq(Signals) /\ Len(pending_signals) <= MaxPending
    BY <2>1, <2>3
  <2> QED
    BY <2>1, <2>2, <2>3, <2>4 DEF OptimizerInv, OptimizerTyped, Computed
<1>2. OptimizerInv /\ [OptimizerAlone(O!Next)]_vars => OptimizerInv'
  <2>1. UNCHANGED vars => UNCHANGED optimizerVars
    BY DEF vars, optimizerVars
  <2> QED
    BY <2>1, OptimizerInvKeeps DEF OptimizerAlone
<1>3. OptimizerInv => BatchIsFair
  BY InvIsFair
<1> QED
  BY <1>1, <1>2, <1>3, PTL DEF OptimizerSpec

----------------------------------------------------------------------------
(***************************************************************************)
(* The way of a signal: it is at one stage at a time, and moves on.        *)
(***************************************************************************)

IsSeq(s) == \E E : s \in Seq(E)
Once(s) == \A i, j \in DOMAIN s : s[i] = s[j] => i = j
Values(s) == {s[i] : i \in DOMAIN s}

\* The batches in the optimizer's inbox.
Batches(s) == {i \in DOMAIN s : s[i].kind = "TopSignalsBatch"}
Batched(s) == UNION {DOMAIN s[i].signals : i \in Batches(s)}
BatchesApart(s) ==
  \A i, j \in Batches(s) : i # j => DOMAIN s[i].signals \cap DOMAIN s[j].signals = {}

\* The signals in the risk engine's inbox that it is to evaluate.
Honest(s) == {i \in DOMAIN s : s[i].kind # "Signal"}
Given(s) == {s[i].signal : i \in Honest(s)}
GivenOnce(s) == \A i, j \in Honest(s) : s[i].signal = s[j].signal => i = j

\* The head and the tail of a sequence.
LEMMA TailFacts ==
  ASSUME NEW s, IsSeq(s), s # <<>>, NEW t, t = Tail(s)
  PROVE  /\ IsSeq(t) /\ 1 \in DOMAIN s /\ Head(s) = s[1]
         /\ \A i \in DOMAIN t : i + 1 \in DOMAIN s /\ t[i] = s[i + 1] /\ i + 1 # 1
         /\ \A i, j \in DOMAIN t : i + 1 = j + 1 => i = j
<1>1. PICK E : s \in Seq(E)
  BY DEF IsSeq
<1>2. t \in Seq(E)
  BY <1>1
<1> QED
  BY <1>1, <1>2 DEF IsSeq

\* A sequence with one more element.
LEMMA AppendFacts ==
  ASSUME NEW s, IsSeq(s), NEW x, NEW t, t = Append(s, x)
  PROVE  /\ IsSeq(t)
         /\ \E n : /\ DOMAIN t = DOMAIN s \cup {n} /\ n \notin DOMAIN s /\ t[n] = x
                   /\ \A i \in DOMAIN s : t[i] = s[i]
<1>1. PICK E : s \in Seq(E)
  BY DEF IsSeq
<1>2. PICK F : F = E \cup {x}
  OBVIOUS
<1>3. s \in Seq(F) /\ x \in F
  BY <1>1, <1>2
<1>4. t \in Seq(F)
  BY <1>3
<1>5. PICK n : n = Len(s) + 1
  OBVIOUS
<1>6. /\ DOMAIN t = DOMAIN s \cup {n} /\ n \notin DOMAIN s /\ t[n] = x
      /\ \A i \in DOMAIN s : t[i] = s[i]
  BY <1>3, <1>5
<1> QED
  BY <1>4, <1>6, Zenon DEF IsSeq

\* Taking the head of a sequence without repetition removes its value.
LEMMA ValuesTail ==
  ASSUME NEW s, IsSeq(s), s # <<>>, Once(s), NEW t, t = Tail(s), NEW h, h = Head(s)
  PROVE  IsSeq(t) /\ Once(t) /\ Values(t) \subseteq Values(s) \ {h} /\ h \in Values(s)
<1>1. /\ IsSeq(t) /\ 1 \in DOMAIN s /\ Head(s) = s[1]
      /\ \A i \in DOMAIN t : i + 1 \in DOMAIN s /\ t[i] = s[i + 1] /\ i + 1 # 1
      /\ \A i, j \in DOMAIN t : i + 1 = j + 1 => i = j
  BY TailFacts, ZenonT(60)
<1> QED
  BY <1>1 DEF Once, Values

\* Adding a new value keeps a sequence without repetition.
LEMMA ValuesAppend ==
  ASSUME NEW s, IsSeq(s), Once(s), NEW x, x \notin Values(s), NEW t, t = Append(s, x)
  PROVE  IsSeq(t) /\ Once(t) /\ Values(t) = Values(s) \cup {x}
<1>0. IsSeq(t)
  BY AppendFacts, Zenon
<1>1. PICK n : /\ DOMAIN t = DOMAIN s \cup {n} /\ n \notin DOMAIN s /\ t[n] = x
               /\ \A i \in DOMAIN s : t[i] = s[i]
  BY AppendFacts
<1> QED
  BY <1>0, <1>1 DEF Once, Values

\* The optimizer takes an event.
LEMMA BatchedTail ==
  ASSUME NEW s, IsSeq(s), s # <<>>, BatchesApart(s), NEW t, t = Tail(s), NEW h, h = Head(s)
  PROVE  /\ IsSeq(t) /\ BatchesApart(t) /\ Batched(t) \subseteq Batched(s)
         /\ h.kind = "TopSignalsBatch" => DOMAIN h.signals \subseteq Batched(s) \ Batched(t)
<1>1. /\ IsSeq(t) /\ 1 \in DOMAIN s /\ Head(s) = s[1]
      /\ \A i \in DOMAIN t : i + 1 \in DOMAIN s /\ t[i] = s[i + 1] /\ i + 1 # 1
      /\ \A i, j \in DOMAIN t : i + 1 = j + 1 => i = j
  BY TailFacts, ZenonT(60)
<1>2. \A i \in Batches(t) : i \in DOMAIN t /\ i + 1 \in Batches(s)
  BY <1>1 DEF Batches
<1>3. BatchesApart(t)
  BY <1>1, <1>2 DEF BatchesApart
<1>4. Batched(t) \subseteq Batched(s)
  BY <1>1, <1>2 DEF Batched
<1>5. ASSUME h.kind = "TopSignalsBatch"
      PROVE  DOMAIN h.signals \subseteq Batched(s) \ Batched(t)
  <2>1. 1 \in Batches(s) /\ h = s[1]
    BY <1>1, <1>5 DEF Batches
  <2>2. \A i \in Batches(t) : DOMAIN t[i].signals \cap DOMAIN h.signals = {}
    BY <1>1, <1>2, <2>1 DEF BatchesApart
  <2> QED
    BY <2>1, <2>2 DEF Batched
<1> QED
  BY <1>1, <1>3, <1>4, <1>5

\* The optimizer is sent an event.
LEMMA BatchedAppend ==
  ASSUME NEW s, IsSeq(s), BatchesApart(s), NEW ev, NEW t, t = Append(s, ev)
  PROVE  /\ IsSeq(t)
         /\ ev.kind # "TopSignalsBatch" => BatchesApart(t) /\ Batched(t) = Batched(s)
         /\ ev.kind = "TopSignalsBatch" /\ DOMAIN ev.signals \cap Batched(s) = {} =>
              BatchesApart(t) /\ Batched(t) = Batched(s) \cup DOMAIN ev.signals
<1>0. IsSeq(t)
  BY AppendFacts, Zenon
<1>1. PICK n : /\ DOMAIN t = DOMAIN s \cup {n} /\ n \notin DOMAIN s /\ t[n] = ev
               /\ \A i \in DOMAIN s : t[i] = s[i]
  BY AppendFacts
<1>2. CASE ev.kind # "TopSignalsBatch"
  <2>1. Batches(t) = Batches(s)
    BY <1>1, <1>2 DEF Batches
  <2>2. \A i \in Batches(s) : t[i] = s[i]
    BY <1>1 DEF Batches
  <2> QED
    BY <1>2, <2>1, <2>2, <1>0, ZenonT(60) DEF BatchesApart, Batched
<1>3. CASE ev.kind = "TopSignalsBatch" /\ DOMAIN ev.signals \cap Batched(s) = {}
  <2>1. Batches(t) = Batches(s) \cup {n}
    BY <1>1, <1>3 DEF Batches
  <2>2. t[n] = ev /\ \A i \in Batches(s) : t[i] = s[i]
    BY <1>1 DEF Batches
  <2>3. \A i \in Batches(s) : DOMAIN s[i].signals \cap DOMAIN ev.signals = {}
    BY <1>3 DEF Batched
  <2>4. BatchesApart(t)
    BY <2>1, <2>2, <2>3 DEF BatchesApart
  <2>5. Batched(t) = Batched(s) \cup DOMAIN ev.signals
    <3>1. \A x : x \in Batched(t) <=> \E i \in Batches(t) : x \in DOMAIN t[i].signals
      BY DEF Batched
    <3>2. \A x : x \in Batched(s) <=> \E i \in Batches(s) : x \in DOMAIN s[i].signals
      BY DEF Batched
    <3>3. \A x : x \in Batched(t) <=> x \in Batched(s) \/ x \in DOMAIN ev.signals
      BY <2>1, <2>2, <3>1, <3>2
    <3> QED
      BY <3>3
  <2> QED
    BY <1>3, <2>4, <2>5, <1>0
<1> QED
  BY <1>0, <1>2, <1>3

\* The risk engine takes an event.
LEMMA GivenTail ==
  ASSUME NEW s, IsSeq(s), s # <<>>, GivenOnce(s), NEW t, t = Tail(s), NEW h, h = Head(s)
  PROVE  /\ IsSeq(t) /\ GivenOnce(t) /\ Given(t) \subseteq Given(s)
         /\ h.kind # "Signal" => h.signal \in Given(s) \ Given(t)
<1>1. /\ IsSeq(t) /\ 1 \in DOMAIN s /\ Head(s) = s[1]
      /\ \A i \in DOMAIN t : i + 1 \in DOMAIN s /\ t[i] = s[i + 1] /\ i + 1 # 1
      /\ \A i, j \in DOMAIN t : i + 1 = j + 1 => i = j
  BY TailFacts, ZenonT(60)
<1>2. \A i \in Honest(t) : i \in DOMAIN t /\ i + 1 \in Honest(s)
  BY <1>1 DEF Honest
<1>3. GivenOnce(t) /\ Given(t) \subseteq Given(s)
  BY <1>1, <1>2 DEF GivenOnce, Given
<1>4. ASSUME h.kind # "Signal"
      PROVE  h.signal \in Given(s) \ Given(t)
  <2>1. 1 \in Honest(s) /\ h = s[1]
    BY <1>1, <1>4 DEF Honest
  <2>2. \A i \in Honest(t) : t[i].signal # h.signal
    BY <1>1, <1>2, <2>1 DEF GivenOnce
  <2> QED
    BY <2>1, <2>2 DEF Given
<1> QED
  BY <1>1, <1>3, <1>4

\* The risk engine is sent an event.
LEMMA GivenAppend ==
  ASSUME NEW s, IsSeq(s), GivenOnce(s), NEW ev, NEW t, t = Append(s, ev)
  PROVE  /\ IsSeq(t)
         /\ ev.kind = "Signal" => GivenOnce(t) /\ Given(t) = Given(s)
         /\ ev.kind # "Signal" /\ ev.signal \notin Given(s) =>
              GivenOnce(t) /\ Given(t) = Given(s) \cup {ev.signal}
<1>0. IsSeq(t)
  BY AppendFacts, Zenon
<1>1. PICK n : /\ DOMAIN t = DOMAIN s \cup {n} /\ n \notin DOMAIN s /\ t[n] = ev
               /\ \A i \in DOMAIN s : t[i] = s[i]
  BY AppendFacts
<1>2. CASE ev.kind = "Signal"
  <2>1. Honest(t) = Honest(s) /\ \A i \in Honest(s) : t[i] = s[i]
    BY <1>1, <1>2 DEF Honest
  <2>2. GivenOnce(t)
    BY <2>1 DEF GivenOnce
  <2>3. Given(t) = Given(s)
    BY <2>1 DEF Given
  <2> QED
    BY <1>0, <1>2, <2>2, <2>3
<1>3. CASE ev.kind # "Signal" /\ ev.signal \notin Given(s)
  <2>1. Honest(t) = Honest(s) \cup {n} /\ t[n] = ev /\ \A i \in Honest(s) : t[i] = s[i]
    BY <1>1, <1>3 DEF Honest
  <2>2. \A i \in Honest(s) : s[i].signal \in Given(s)
    BY DEF Given
  <2>5. t[n].signal = ev.signal /\ \A i \in Honest(s) : t[i].signal = s[i].signal
    BY <2>1
  <2>3. GivenOnce(t)
    <3> SUFFICES ASSUME NEW i \in Honest(t), NEW j \in Honest(t), t[i].signal = t[j].signal
                 PROVE  i = j
      BY DEF GivenOnce
    <3>1. CASE i = n /\ j = n
      BY <3>1
    <3>2. CASE i \in Honest(s) /\ j \in Honest(s)
      BY <2>5, <3>2 DEF GivenOnce
    <3>3. ~(i \in Honest(s) /\ j = n) /\ ~(i = n /\ j \in Honest(s))
      BY <1>3, <2>2, <2>5
    <3>4. i \in Honest(s) \cup {n} /\ j \in Honest(s) \cup {n}
      BY <2>1
    <3> QED
      BY <3>1, <3>2, <3>3, <3>4
  <2>4. Given(t) = Given(s) \cup {ev.signal}
    <3>1. \A x : x \in Given(t) <=> \E i \in Honest(t) : x = t[i].signal
      BY DEF Given
    <3>2. \A x : x \in Given(s) <=> \E i \in Honest(s) : x = s[i].signal
      BY DEF Given
    <3>3. \A x : x \in Given(t) <=> x \in Given(s) \/ x = ev.signal
      <4>1. Honest(t) = Honest(s) \cup {n}
        BY <2>1
      <4>2. ASSUME NEW x, x \in Given(t)
            PROVE  x \in Given(s) \/ x = ev.signal
        <5>1. PICK i \in Honest(t) : x = t[i].signal
          BY <3>1, <4>2
        <5>2. i = n \/ (i \in Honest(s) /\ x = s[i].signal)
          BY <2>5, <4>1, <5>1
        <5> QED
          BY <2>2, <2>5, <5>1, <5>2
      <4>3. ASSUME NEW x, x \in Given(s)
            PROVE  x \in Given(t)
        <5>1. PICK i \in Honest(s) : x = s[i].signal
          BY <3>2, <4>3
        <5>2. i \in Honest(t) /\ x = t[i].signal
          BY <2>5, <4>1, <5>1
        <5> QED
          BY <3>1, <5>2
      <4>4. ev.signal \in Given(t)
        <5>1. n \in Honest(t)
          BY <4>1
        <5> QED
          BY <2>5, <3>1, <5>1
      <4> QED
        BY <4>2, <4>3, <4>4
    <3> QED
      BY <3>3
  <2> QED
    BY <1>0, <1>3, <2>3, <2>4
<1> QED
  BY <1>0, <1>2, <1>3

\* The risk engine is sent the signals of a batch.
LEMMA GivenBatch ==
  ASSUME NEW s, IsSeq(s), GivenOnce(s), NEW batch \in Seq(Item),
         \A i, j \in DOMAIN batch : batch[i].signal = batch[j].signal => i = j,
         \A i \in DOMAIN batch : batch[i].signal \notin Given(s),
         NEW t, t = s \o [i \in DOMAIN batch |-> [kind |-> "OptimizedSignal", signal |-> batch[i].signal]]
  PROVE  /\ IsSeq(t) /\ GivenOnce(t)
         /\ Given(t) = Given(s) \cup {batch[i].signal : i \in DOMAIN batch}
<1>1. PICK E : s \in Seq(E)
  BY DEF IsSeq
<1>2. PICK tail : tail = [i \in DOMAIN batch |-> [kind |-> "OptimizedSignal", signal |-> batch[i].signal]]
  OBVIOUS
<1>3. PICK F : F = E \cup {tail[i] : i \in DOMAIN batch}
  OBVIOUS
<1>4. PICK m \in Nat : m = Len(batch) /\ DOMAIN batch = 1..m
  OBVIOUS
<1>5. PICK n \in Nat : n = Len(s) /\ DOMAIN s = 1..n
  BY <1>1
<1>6. tail \in Seq(F) /\ Len(tail) = m
  <2>1. tail \in [1..m -> F]
    BY <1>2, <1>3, <1>4
  <2> QED
    BY <1>4, <2>1
<1>7. s \in Seq(F)
  BY <1>1, <1>3
<1>8. t \in Seq(F)
  BY <1>2, <1>6, <1>7
<1>9. DOMAIN t = 1..(n + m)
  BY <1>2, <1>5, <1>6, <1>7
<1>10. \A i \in 1..n : t[i] = s[i]
  BY <1>2, <1>5, <1>6, <1>7
<1>11. \A i \in 1..m : t[n + i] = tail[i]
  BY <1>2, <1>5, <1>6, <1>7
<1>12. \A i \in 1..m : t[n + i].kind = "OptimizedSignal" /\ t[n + i].signal = batch[i].signal
  <2>1. \A i \in 1..m : tail[i].kind = "OptimizedSignal" /\ tail[i].signal = batch[i].signal
    BY <1>2, <1>4
  <2> QED
    BY <1>11, <2>1
<1>13. \A i \in 1..(n + m) : i \in 1..n \/ (i - n \in 1..m /\ n + (i - n) = i)
  OBVIOUS
<1>14. \A i \in 1..m : n + i \in 1..(n + m) /\ n + i \notin 1..n
  OBVIOUS
<1>15. \A i \in DOMAIN t : \/ i \in DOMAIN s /\ t[i] = s[i]
                           \/ /\ i - n \in DOMAIN batch /\ t[i].kind = "OptimizedSignal"
                              /\ t[i].signal = batch[i - n].signal
  BY <1>4, <1>5, <1>9, <1>10, <1>12, <1>13
<1>16. \A i \in Honest(t) : \/ i \in Honest(s) /\ t[i] = s[i]
                            \/ i - n \in DOMAIN batch /\ t[i].signal = batch[i - n].signal
  BY <1>15 DEF Honest
<1>17. \A i, j \in DOMAIN t : i - n = j - n => i = j
  BY <1>9
<1>18. GivenOnce(t)
  <2>1. Honest(t) \subseteq DOMAIN t
    BY DEF Honest
  <2>2. \A i \in Honest(s) : s[i].signal \in Given(s)
    BY DEF Given
  <2>3. ASSUME NEW i \in Honest(t), NEW j \in Honest(t), t[i].signal = t[j].signal
        PROVE  i = j
    <3>1. i \in DOMAIN t /\ j \in DOMAIN t
      BY <2>1
    <3>2. CASE i \in Honest(s) /\ t[i] = s[i]
      <4>1. t[j].signal \in Given(s)
        BY <2>2, <2>3, <3>2
      <4>2. j \in Honest(s) /\ t[j] = s[j]
        BY <1>16, <4>1
      <4> QED
        BY <2>3, <3>2, <4>2 DEF GivenOnce
    <3>3. CASE i - n \in DOMAIN batch /\ t[i].signal = batch[i - n].signal
      <4>1. t[j].signal \notin Given(s)
        BY <2>3, <3>3
      <4>2. j - n \in DOMAIN batch /\ t[j].signal = batch[j - n].signal
        BY <1>16, <2>2, <4>1
      <4>3. i - n = j - n
        BY <2>3, <3>3, <4>2
      <4> QED
        BY <1>17, <3>1, <4>3
    <3> QED
      BY <1>16, <3>2, <3>3
  <2> QED
    BY <2>3 DEF GivenOnce
<1>19. \A i \in Honest(s) : i \in Honest(t) /\ t[i] = s[i]
  BY <1>5, <1>9, <1>10 DEF Honest
<1>20. \A i \in DOMAIN batch : n + i \in Honest(t) /\ t[n + i].signal = batch[i].signal
  BY <1>4, <1>9, <1>12, <1>14 DEF Honest
<1>21. Given(t) = Given(s) \cup {batch[i].signal : i \in DOMAIN batch}
  <2>1. \A x : x \in Given(t) <=> \E i \in Honest(t) : x = t[i].signal
    BY DEF Given
  <2>2. \A x : x \in Given(s) <=> \E i \in Honest(s) : x = s[i].signal
    BY DEF Given
  <2>3. ASSUME NEW x
        PROVE  x \in Given(t) <=> x \in Given(s) \/ \E i \in DOMAIN batch : x = batch[i].signal
    <3>1. ASSUME x \in Given(t), x \notin Given(s)
          PROVE  \E i \in DOMAIN batch : x = batch[i].signal
      <4>1. PICK i \in Honest(t) : x = t[i].signal
        BY <2>1, <3>1
      <4>2. ~(i \in Honest(s) /\ t[i] = s[i])
        BY <2>2, <3>1, <4>1, Zenon
      <4>3. i - n \in DOMAIN batch /\ t[i].signal = batch[i - n].signal
        BY <1>16, <4>2
      <4> QED
        BY <4>1, <4>3
    <3>2. ASSUME x \in Given(s)
          PROVE  x \in Given(t)
      <4>1. PICK i \in Honest(s) : x = s[i].signal
        BY <2>2, <3>2
      <4>2. i \in Honest(t) /\ x = t[i].signal
        BY <1>19, <4>1
      <4> QED
        BY <2>1, <4>2
    <3>3. (\E i \in DOMAIN batch : x = batch[i].signal) => x \in Given(t)
      BY <1>20, <2>1
    <3> QED
      BY <3>1, <3>2, <3>3
  <2> QED
    BY <2>3
<1> QED
  BY <1>8, <1>18, <1>21 DEF IsSeq

\* Where the signals of u can be: each at one of six stages, or dropped.
Staged(a, q, b, p, r, d, u) ==
  /\ a \cup q \cup b \cup p \cup r \cup d \subseteq u
  /\ a \cap (q \cup b \cup p \cup r \cup d) = {}
  /\ q \cap (b \cup p \cup r \cup d) = {}
  /\ b \cap (p \cup r \cup d) = {}
  /\ p \cap (r \cup d) = {}
  /\ r \cap d = {}

\* The receivers hold sequences, and what counts in them is there once.
InboxesOk ==
  /\ IsSeq(inbox) /\ Once(inbox)
  /\ IsSeq(opt_inbox) /\ BatchesApart(opt_inbox)
  /\ IsSeq(risk_inbox) /\ GivenOnce(risk_inbox)
  /\ IsSeq(processed) /\ Once(processed)

\* With the priority engine in front and raw signals skipped, every published
\* signal is at one stage.
RouteInv ==
  /\ use_priority_engine = TRUE
  /\ capital_available \in 0..Capital
  /\ used \in SUBSET Signals /\ IsFiniteSet(used)
  /\ pending_signals \in Seq(Signals)
  /\ InboxesOk
  /\ Staged(Values(inbox), DOMAIN queue, Batched(opt_inbox), Values(pending_signals),
            Given(risk_inbox), Values(processed), used)

\* Buffering a signal adds nothing else to the queue.
LEMMA BufferAdds ==
  ASSUME NEW sig, S!BufferSlow(sig)
  PROVE  DOMAIN queue' \subseteq DOMAIN queue \cup {sig} /\ out'.kind = "None"
<1>1. out'.kind = "None"
  BY DEF S!BufferSlow, S!Nothing
<1>2. CASE queue' = queue
  BY <1>1, <1>2
<1>3. CASE S!Admitted(sig)
  <2>1. PICK b : queue' \in S!Best(b, SlowQueueCapacity) /\ DOMAIN b = DOMAIN queue \cup {sig}
    <3>1. PICK one : one = S!One(sig)
      OBVIOUS
    <3>2. DOMAIN one = {sig}
      BY <3>1 DEF S!One, S!SetToBag
    <3>3. PICK b : b = [e \in DOMAIN queue \cup DOMAIN one |->
                     (IF e \in DOMAIN queue THEN queue[e] ELSE 0)
                     + (IF e \in DOMAIN one THEN one[e] ELSE 0)]
      OBVIOUS
    <3>4. DOMAIN b = DOMAIN queue \cup {sig}
      BY <3>2, <3>3
    <3>5. queue' \in S!Best(b, SlowQueueCapacity)
      BY <1>3, <3>1, <3>3, Zenon DEF S!BufferSlow, S!(+)
    <3> QED
      BY <3>4, <3>5
  <2>2. DOMAIN queue' \subseteq DOMAIN b
    BY <2>1 DEF S!Best, S!Contained, S!BagToSet
  <2> QED
    BY <1>1, <2>1, <2>2
<1> QED
  BY <1>2, <1>3 DEF S!BufferSlow

\* A flush empties the queue, into a batch if into anything.
LEMMA FlushMoves ==
  ASSUME S!Flush
  PROVE  /\ DOMAIN queue' = {}
         /\ \/ out'.kind = "None"
            \/ out'.kind = "TopSignalsBatch" /\ DOMAIN out'.signals \subseteq DOMAIN queue
<1>1. DOMAIN queue' = {}
  BY DEF S!Flush, S!EmptyBag, S!SetToBag
<1>2. PICK batch \in S!Best(queue, TopN) :
        out' = (IF queue = S!EmptyBag THEN S!Nothing
                ELSE [kind |-> "TopSignalsBatch", signals |-> batch])
  BY DEF S!Flush
<1>3. DOMAIN batch \subseteq DOMAIN queue
  BY DEF S!Best, S!Contained, S!BagToSet
<1>4. CASE queue = S!EmptyBag
  BY <1>1, <1>2, <1>4 DEF S!Nothing
<1>5. CASE queue # S!EmptyBag
  BY <1>1, <1>2, <1>3, <1>5
<1> QED
  BY <1>4, <1>5

\* A strategy publishes a signal.
LEMMA EmitKeeps ==
  ASSUME RouteInv, NEW sig \in Signals, Emit(sig)
  PROVE  RouteInv'
<1>1. /\ sig \notin used /\ used' = used \cup {sig}
      /\ inbox' = Append(IF Len(inbox) = InboxCapacity THEN Tail(inbox) ELSE inbox, sig)
      /\ queue' = queue
      /\ opt_inbox' = Append(opt_inbox, AsSignal(sig))
      /\ risk_inbox' = Append(risk_inbox, AsSignal(sig))
      /\ UNCHANGED <<use_priority_engine, capital_available, pending_signals, processed>>
  BY DEF Emit, S!Arrive, optimizerVars
<1>2. PICK a, q, b, p, r, d, u :
        /\ a = Values(inbox) /\ q = DOMAIN queue /\ b = Batched(opt_inbox)
        /\ p = Values(pending_signals) /\ r = Given(risk_inbox) /\ d = Values(processed) /\ u = used
  OBVIOUS
<1>3. Staged(a, q, b, p, r, d, u) /\ InboxesOk
  BY <1>2 DEF RouteInv
<1>4. PICK base : base = IF Len(inbox) = InboxCapacity THEN Tail(inbox) ELSE inbox
  OBVIOUS
<1>5. IsSeq(base) /\ Once(base) /\ Values(base) \subseteq a
  <2>1. CASE Len(inbox) = InboxCapacity
    <3>1. inbox # <<>>
      BY <2>1, PriorityFacts
    <3>2. IsSeq(inbox) /\ Once(inbox)
      BY <1>3 DEF InboxesOk
    <3>3. base = Tail(inbox)
      BY <1>4, <2>1
    <3>4. PICK h : h = Head(inbox)
      OBVIOUS
    <3>5. IsSeq(base) /\ Once(base) /\ Values(base) \subseteq Values(inbox) \ {h}
      BY <3>1, <3>2, <3>3, <3>4, ValuesTail, Zenon
    <3> QED
      BY <1>2, <3>5
  <2>2. CASE Len(inbox) # InboxCapacity
    BY <1>2, <1>3, <1>4, <2>2 DEF InboxesOk
  <2> QED
    BY <2>1, <2>2
<1>6. sig \notin u /\ sig \notin Values(base)
  BY <1>1, <1>2, <1>3, <1>5 DEF Staged
<1>7. IsSeq(inbox') /\ Once(inbox') /\ Values(inbox') = Values(base) \cup {sig}
  <2>1. inbox' = Append(base, sig)
    BY <1>1, <1>4
  <2> QED
    BY <1>5, <1>6, <2>1, ValuesAppend
<1>8. PICK ev : ev = [kind |-> "Signal", signal |-> sig]
  OBVIOUS
<1>15. ev = AsSignal(sig) /\ ev.kind = "Signal" /\ ev.kind # "TopSignalsBatch"
  BY <1>8 DEF AsSignal
<1>9. IsSeq(opt_inbox') /\ BatchesApart(opt_inbox') /\ Batched(opt_inbox') = b
  <2>1. IsSeq(opt_inbox) /\ BatchesApart(opt_inbox) /\ opt_inbox' = Append(opt_inbox, ev)
    BY <1>1, <1>3, <1>15 DEF InboxesOk
  <2>2. IsSeq(opt_inbox') /\ BatchesApart(opt_inbox') /\ Batched(opt_inbox') = Batched(opt_inbox)
    BY <1>15, <2>1, BatchedAppend, Zenon
  <2> QED
    BY <1>2, <2>2
<1>10. IsSeq(risk_inbox') /\ GivenOnce(risk_inbox') /\ Given(risk_inbox') = r
  <2>1. IsSeq(risk_inbox) /\ GivenOnce(risk_inbox) /\ risk_inbox' = Append(risk_inbox, ev)
    BY <1>1, <1>3, <1>15 DEF InboxesOk
  <2> QED
    BY <1>2, <1>15, <2>1, GivenAppend
<1>11. Staged(Values(inbox'), q, b, p, r, d, used')
  BY <1>1, <1>2, <1>3, <1>5, <1>6, <1>7 DEF Staged
<1>12. used' \in SUBSET Signals /\ IsFiniteSet(used')
  BY <1>1, FS_AddElement DEF RouteInv
<1>13. InboxesOk'
  BY <1>1, <1>3, <1>7, <1>9, <1>10 DEF InboxesOk
<1>14. /\ DOMAIN queue' = q /\ Values(pending_signals') = p /\ Values(processed') = d
       /\ pending_signals' \in Seq(Signals) /\ use_priority_engine' = TRUE
       /\ capital_available' \in 0..Capital
  BY <1>1, <1>2 DEF RouteInv
<1> QED
  BY <1>9, <1>10, <1>11, <1>12, <1>13, <1>14 DEF RouteInv

\* What is not a batch or a fast signal is not forwarded; a batch takes signals
\* that were at no later stage, and so does a fast signal.
LEMMA ForwardKeeps ==
  ASSUME InboxesOk, Forwarded, NEW b, NEW r, b = Batched(opt_inbox), r = Given(risk_inbox),
         \/ out'.kind = "None"
         \/ out'.kind = "TopSignalsBatch" /\ DOMAIN out'.signals \cap b = {}
         \/ out'.kind = "FastSignal" /\ out'.signal \notin r
  PROVE  /\ IsSeq(opt_inbox') /\ BatchesApart(opt_inbox')
         /\ IsSeq(risk_inbox') /\ GivenOnce(risk_inbox')
         /\ Batched(opt_inbox') = IF out'.kind = "TopSignalsBatch" THEN b \cup DOMAIN out'.signals ELSE b
         /\ Given(risk_inbox') = IF out'.kind = "FastSignal" THEN r \cup {out'.signal} ELSE r
<1>1. IsSeq(opt_inbox) /\ BatchesApart(opt_inbox) /\ IsSeq(risk_inbox) /\ GivenOnce(risk_inbox)
  BY DEF InboxesOk
<1>2. PICK ev : ev = out'
  OBVIOUS
<1>3. /\ opt_inbox' = IF ev.kind = "TopSignalsBatch" THEN Append(opt_inbox, ev) ELSE opt_inbox
      /\ risk_inbox' = IF ev.kind = "FastSignal" THEN Append(risk_inbox, ev) ELSE risk_inbox
  BY <1>2 DEF Forwarded
<1>4. CASE ev.kind = "None"
  <2>1. opt_inbox' = opt_inbox /\ risk_inbox' = risk_inbox
    BY <1>3, <1>4
  <2> QED
    BY <1>1, <1>2, <1>4, <2>1
<1>5. CASE ev.kind = "TopSignalsBatch" /\ DOMAIN ev.signals \cap b = {}
  <2>1. opt_inbox' = Append(opt_inbox, ev) /\ risk_inbox' = risk_inbox
    BY <1>3, <1>5
  <2>2. IsSeq(opt_inbox') /\ BatchesApart(opt_inbox') /\ Batched(opt_inbox') = b \cup DOMAIN ev.signals
    BY <1>1, <1>5, <2>1, BatchedAppend, Zenon
  <2> QED
    BY <1>1, <1>2, <1>5, <2>1, <2>2
<1>6. CASE ev.kind = "FastSignal" /\ ev.signal \notin r
  <2>1. opt_inbox' = opt_inbox /\ risk_inbox' = Append(risk_inbox, ev)
    BY <1>3, <1>6
  <2>2. ev.kind # "Signal"
    BY <1>6
  <2>3. IsSeq(risk_inbox') /\ GivenOnce(risk_inbox') /\ Given(risk_inbox') = r \cup {ev.signal}
    BY <1>1, <1>6, <2>1, <2>2, GivenAppend, Zenon
  <2> QED
    BY <1>1, <1>2, <1>6, <2>1, <2>3
<1> QED
  BY <1>2, <1>4, <1>5, <1>6

\* The priority engine receives an event or flushes.
LEMMA PriorityStepKeeps ==
  ASSUME RouteInv, PriorityStep
  PROVE  RouteInv'
<1>1. /\ S!Receive \/ S!OnTick
      /\ Forwarded
      /\ UNCHANGED <<use_priority_engine, capital_available, pending_signals, used, processed>>
  BY DEF PriorityStep, optimizerVars
<1>2. PICK a, q, b, p, r, d, u :
        /\ a = Values(inbox) /\ q = DOMAIN queue /\ b = Batched(opt_inbox)
        /\ p = Values(pending_signals) /\ r = Given(risk_inbox) /\ d = Values(processed) /\ u = used
  OBVIOUS
<1>3. Staged(a, q, b, p, r, d, u) /\ InboxesOk
  BY <1>2 DEF RouteInv
<1>4. PICK aa, qq : aa = Values(inbox') /\ qq = DOMAIN queue'
  OBVIOUS
<1>5. /\ IsSeq(inbox') /\ Once(inbox')
      /\ \/ /\ out'.kind = "None" /\ aa \subseteq a
            /\ qq \subseteq q \cup (a \ aa)
         \/ /\ out'.kind = "FastSignal" /\ out'.signal \in a \ aa /\ aa \subseteq a /\ qq = q
         \/ /\ out'.kind = "TopSignalsBatch" /\ aa = a /\ qq = {} /\ DOMAIN out'.signals \subseteq q
  <2>1. CASE S!Receive
    <3>1. PICK h : h = Head(inbox)
      OBVIOUS
    <3>2. inbox # <<>> /\ inbox' = Tail(inbox)
      BY <2>1 DEF S!Receive
    <3>3. IsSeq(inbox) /\ Once(inbox)
      BY <1>3 DEF InboxesOk
    <3>4. IsSeq(inbox') /\ Once(inbox') /\ Values(inbox') \subseteq Values(inbox) \ {h} /\ h \in Values(inbox)
      BY <3>1, <3>2, <3>3, ValuesTail, Zenon
    <3>5. aa \subseteq a /\ h \in a \ aa
      BY <1>2, <1>4, <3>4
    <3>6. CASE out' = S!Nothing /\ UNCHANGED <<queue, window>>
      BY <1>2, <1>4, <3>4, <3>5, <3>6 DEF S!Nothing
    <3>7. CASE S!EmitFast(h)
      <4>1. out' = [kind |-> "FastSignal", signal |-> h] /\ queue' = queue
        BY <3>7 DEF S!EmitFast
      <4>2. out'.kind = "FastSignal" /\ out'.signal = h
        BY <4>1
      <4> QED
        BY <1>2, <1>4, <3>4, <3>5, <4>1, <4>2
    <3>8. CASE S!BufferSlow(h)
      <4>1. DOMAIN queue' \subseteq DOMAIN queue \cup {h} /\ out'.kind = "None"
        BY <3>8, BufferAdds
      <4> QED
        BY <1>2, <1>4, <3>4, <3>5, <4>1
    <3> QED
      BY <2>1, <3>1, <3>6, <3>7, <3>8, Zenon DEF S!Receive
  <2>2. CASE S!OnTick
    <3>1. S!Flush /\ inbox' = inbox
      BY <2>2 DEF S!OnTick
    <3>2. /\ DOMAIN queue' = {}
          /\ \/ out'.kind = "None"
             \/ out'.kind = "TopSignalsBatch" /\ DOMAIN out'.signals \subseteq DOMAIN queue
      BY <3>1, FlushMoves
    <3>3. IsSeq(inbox') /\ Once(inbox') /\ aa = a
      BY <1>2, <1>3, <1>4, <3>1 DEF InboxesOk
    <3> QED
      BY <1>2, <1>4, <3>2, <3>3
  <2> QED
    BY <1>1, <2>1, <2>2
<1>6. \/ out'.kind = "None"
      \/ out'.kind = "TopSignalsBatch" /\ DOMAIN out'.signals \cap b = {}
      \/ out'.kind = "FastSignal" /\ out'.signal \notin r
  BY <1>3, <1>5 DEF Staged
<1>7. PICK bb, rr : bb = Batched(opt_inbox') /\ rr = Given(risk_inbox')
  OBVIOUS
<1>8. /\ IsSeq(opt_inbox') /\ BatchesApart(opt_inbox')
      /\ IsSeq(risk_inbox') /\ GivenOnce(risk_inbox')
      /\ bb = IF out'.kind = "TopSignalsBatch" THEN b \cup DOMAIN out'.signals ELSE b
      /\ rr = IF out'.kind = "FastSignal" THEN r \cup {out'.signal} ELSE r
  BY <1>1, <1>2, <1>3, <1>6, <1>7, ForwardKeeps
<1>9. Staged(aa, qq, bb, p, rr, d, u)
  <2>1. CASE /\ out'.kind = "None" /\ aa \subseteq a /\ qq \subseteq q \cup (a \ aa)
    <3>1. bb = b /\ rr = r
      BY <1>8, <2>1
    <3> QED
      BY <1>3, <2>1, <3>1 DEF Staged
  <2>2. CASE /\ out'.kind = "FastSignal" /\ out'.signal \in a \ aa /\ aa \subseteq a /\ qq = q
    <3>1. PICK sig : sig = out'.signal
      OBVIOUS
    <3>2. bb = b /\ rr = r \cup {sig} /\ sig \in a \ aa
      BY <1>8, <2>2, <3>1
    <3> QED
      BY <1>3, <2>2, <3>2 DEF Staged
  <2>3. CASE /\ out'.kind = "TopSignalsBatch" /\ aa = a /\ qq = {} /\ DOMAIN out'.signals \subseteq q
    <3>1. PICK batch : batch = DOMAIN out'.signals
      OBVIOUS
    <3>2. bb = b \cup batch /\ rr = r /\ batch \subseteq q
      BY <1>8, <2>3, <3>1
    <3> QED
      BY <1>3, <2>3, <3>2 DEF Staged
  <2> QED
    BY <1>5, <2>1, <2>2, <2>3
<1>10. InboxesOk'
  BY <1>1, <1>3, <1>5, <1>8 DEF InboxesOk
<1>11. /\ Values(pending_signals') = p /\ Values(processed') = d /\ used' = u
       /\ pending_signals' \in Seq(Signals) /\ use_priority_engine' = TRUE
       /\ capital_available' \in 0..Capital /\ used' \in SUBSET Signals /\ IsFiniteSet(used')
  BY <1>1, <1>2 DEF RouteInv
<1> QED
  BY <1>4, <1>7, <1>9, <1>10, <1>11 DEF RouteInv

\* The optimizer receives an event.
LEMMA ReceiveKeeps ==
  ASSUME RouteInv, OptimizerReceives
  PROVE  RouteInv'
<1>1. /\ opt_inbox # <<>> /\ opt_inbox' = Tail(opt_inbox)
      /\ UNCHANGED <<inbox, queue, risk_inbox, used, processed>>
      /\ use_priority_engine = TRUE
  BY DEF OptimizerReceives, priorityVars, RouteInv
<1>2. PICK a, q, b, p, r, d, u :
        /\ a = Values(inbox) /\ q = DOMAIN queue /\ b = Batched(opt_inbox)
        /\ p = Values(pending_signals) /\ r = Given(risk_inbox) /\ d = Values(processed) /\ u = used
  OBVIOUS
<1>3. Staged(a, q, b, p, r, d, u) /\ InboxesOk
  BY <1>2 DEF RouteInv
<1>4. PICK ev : ev = Head(opt_inbox)
  OBVIOUS
<1>5. IsSeq(opt_inbox) /\ BatchesApart(opt_inbox)
  BY <1>3 DEF InboxesOk
<1>6. /\ IsSeq(opt_inbox') /\ BatchesApart(opt_inbox') /\ Batched(opt_inbox') \subseteq Batched(opt_inbox)
      /\ ev.kind = "TopSignalsBatch" => DOMAIN ev.signals \subseteq Batched(opt_inbox) \ Batched(opt_inbox')
  BY <1>1, <1>4, <1>5, BatchedTail, Zenon
<1>7. PICK bb, pp : bb = Batched(opt_inbox') /\ pp = Values(pending_signals')
  OBVIOUS
<1>8. /\ UNCHANGED <<use_priority_engine, capital_available>>
      /\ pending_signals' \in Seq(Signals) /\ pp \subseteq p \cup (b \ bb)
  <2>1. CASE UNCHANGED optimizerVars
    BY <1>2, <1>7, <2>1 DEF RouteInv, optimizerVars
  <2>2. CASE ev.kind = "TopSignalsBatch" /\ \E batch \in BatchOrders(ev.signals) : O!OnBatch(batch)
    <3>1. PICK batch \in BatchOrders(ev.signals) : O!OnBatch(batch)
      BY <2>2
    <3>2. /\ pending_signals' = pending_signals \o batch
          /\ UNCHANGED <<use_priority_engine, capital_available>>
      BY <3>1 DEF O!OnBatch, O!Buffer
    <3>3. PICK x : x = DOMAIN ev.signals
      OBVIOUS
    <3>4. x \subseteq b \ bb
      BY <1>2, <1>6, <1>7, <2>2, <3>3
    <3>5. x \subseteq u /\ u \in SUBSET Signals /\ IsFiniteSet(u)
      BY <1>2, <1>3, <3>4 DEF Staged, RouteInv
    <3>6. IsFiniteSet(x)
      BY <3>5, FS_Subset
    <3>7. batch \in O!Rankings(x)
      BY <3>1, <3>3 DEF BatchOrders
    <3>8. batch \in Seq(x)
      BY <3>6, <3>7, RankingFacts
    <3>9. batch \in Seq(Signals) /\ \A i \in DOMAIN batch : batch[i] \in x
      BY <3>5, <3>8
    <3>10. pending_signals \in Seq(Signals)
      BY DEF RouteInv
    <3>11. pending_signals' \in Seq(Signals)
      BY <3>2, <3>9, <3>10
    <3>12. \A i \in DOMAIN pending_signals' :
             \/ i \in DOMAIN pending_signals /\ pending_signals'[i] = pending_signals[i]
             \/ \E j \in DOMAIN batch : pending_signals'[i] = batch[j]
      <4>1. PICK s \in Seq(Signals), t \in Seq(Signals) : s = pending_signals /\ t = batch
        BY <3>9, <3>10
      <4>2. \A i \in DOMAIN (s \o t) : \/ i \in DOMAIN s /\ (s \o t)[i] = s[i]
                                       \/ i - Len(s) \in DOMAIN t /\ (s \o t)[i] = t[i - Len(s)]
        OBVIOUS
      <4> QED
        BY <3>2, <4>1, <4>2
    <3>13. pp \subseteq p \cup x
      BY <1>2, <1>7, <3>9, <3>12 DEF Values
    <3> QED
      BY <3>2, <3>4, <3>11, <3>13
  <2>3. ~O!OnSignal(ev.signal)
    BY <1>1 DEF O!OnSignal
  <2> QED
    BY <1>4, <2>1, <2>2, <2>3, Zenon DEF OptimizerReceives
<1>9. Staged(a, q, bb, pp, r, d, u)
  <2>1. bb \subseteq b
    BY <1>2, <1>6, <1>7
  <2> QED
    BY <1>3, <1>8, <2>1 DEF Staged
<1>10. InboxesOk'
  BY <1>1, <1>3, <1>6 DEF InboxesOk
<1>11. /\ Values(inbox') = a /\ DOMAIN queue' = q /\ Given(risk_inbox') = r /\ Values(processed') = d
       /\ used' = u /\ use_priority_engine' = TRUE
       /\ capital_available' \in 0..Capital /\ used' \in SUBSET Signals /\ IsFiniteSet(used')
  BY <1>1, <1>2, <1>8 DEF RouteInv
<1> QED
  BY <1>7, <1>8, <1>9, <1>10, <1>11 DEF RouteInv

\* The optimizer's tick: what is emitted comes out of the pending signals, and
\* no signal twice.
LEMMA TickKeeps ==
  ASSUME RouteInv, OptimizerTick
  PROVE  RouteInv'
<1>1. UNCHANGED <<inbox, queue, opt_inbox, used, processed>>
  BY DEF OptimizerTick, priorityVars
<1>2. PICK a, q, b, p, r, d, u :
        /\ a = Values(inbox) /\ q = DOMAIN queue /\ b = Batched(opt_inbox)
        /\ p = Values(pending_signals) /\ r = Given(risk_inbox) /\ d = Values(processed) /\ u = used
  OBVIOUS
<1>3. Staged(a, q, b, p, r, d, u) /\ InboxesOk
  BY <1>2 DEF RouteInv
<1>4. PICK pp, rr : pp = Values(pending_signals') /\ rr = Given(risk_inbox')
  OBVIOUS
<1>5. /\ UNCHANGED <<use_priority_engine, capital_available>>
      /\ pending_signals' \in Seq(Signals)
      /\ IsSeq(risk_inbox') /\ GivenOnce(risk_inbox')
      /\ pp \subseteq p /\ r \subseteq rr /\ rr \ r \subseteq p \ pp
  <2>1. CASE UNCHANGED <<optimizerVars, risk_inbox>>
    BY <1>2, <1>3, <1>4, <2>1 DEF RouteInv, optimizerVars, InboxesOk
  <2>2. CASE /\ O!Flush
             /\ risk_inbox' = risk_inbox \o
                  [i \in DOMAIN emitted' |-> [kind |-> "OptimizedSignal", signal |-> emitted'[i].signal]]
    <3>1. /\ emitted' \in O!ComputeAllocations(pending_signals, O!Budget)
          /\ pending_signals' = <<>>
          /\ UNCHANGED <<use_priority_engine, capital_available>>
      BY <2>2 DEF O!Flush
    <3>2. PICK batch, budget, pending : batch = emitted' /\ budget = O!Budget /\ pending = pending_signals
      OBVIOUS
    <3>3. pending \in Seq(Signals) /\ budget \in Nat
      BY <3>2, BudgetNat DEF RouteInv
    <3>4. Fair(batch, pending, budget)
      BY <3>1, <3>2, <3>3, BatchFacts
    <3>5. batch \in Seq(Item) /\ \A i \in DOMAIN batch : batch[i].signal \in p
      BY <1>2, <3>2, <3>4 DEF Fair, Values
    <3>6. \A i, j \in DOMAIN batch : batch[i].signal = batch[j].signal => i = j
      BY <3>4 DEF Fair
    <3>7. \A i \in DOMAIN batch : batch[i].signal \notin Given(risk_inbox)
      BY <1>2, <1>3, <3>5 DEF Staged
    <3>8. IsSeq(risk_inbox) /\ GivenOnce(risk_inbox)
      BY <1>3 DEF InboxesOk
    <3>9. PICK s, t : s = risk_inbox /\ t = risk_inbox'
      OBVIOUS
    <3>10. t = s \o [i \in DOMAIN batch |-> [kind |-> "OptimizedSignal", signal |-> batch[i].signal]]
      BY <2>2, <3>2, <3>9
    <3>11. IsSeq(t) /\ GivenOnce(t) /\ Given(t) = Given(s) \cup {batch[i].signal : i \in DOMAIN batch}
      <4>1. batch \in Seq(Item)
        BY <3>5
      <4>2. IsSeq(s) /\ GivenOnce(s)
        BY <3>8, <3>9
      <4>3. \A i \in DOMAIN batch : batch[i].signal \notin Given(s)
        BY <3>7, <3>9
      <4> QED
        BY <3>6, <3>10, <4>1, <4>2, <4>3, GivenBatch, ZenonT(60)
    <3>12. pending_signals' \in Seq(Signals) /\ pp = {}
      BY <1>4, <3>1 DEF Values
    <3>13. r \subseteq rr /\ rr \ r \subseteq p
      BY <1>2, <1>4, <3>5, <3>9, <3>11
    <3> QED
      BY <3>1, <3>9, <3>11, <3>12, <3>13
  <2> QED
    BY <2>1, <2>2, Zenon DEF OptimizerTick
<1>6. Staged(a, q, b, pp, rr, d, u)
  BY <1>3, <1>5 DEF Staged
<1>7. InboxesOk'
  BY <1>1, <1>3, <1>5 DEF InboxesOk
<1>8. /\ Values(inbox') = a /\ DOMAIN queue' = q /\ Batched(opt_inbox') = b /\ Values(processed') = d
      /\ used' = u /\ use_priority_engine' = TRUE
      /\ capital_available' \in 0..Capital /\ used' \in SUBSET Signals /\ IsFiniteSet(used')
  BY <1>1, <1>2, <1>5 DEF RouteInv
<1> QED
  BY <1>4, <1>5, <1>6, <1>7, <1>8 DEF RouteInv

\* The risk engine receives an event.
LEMMA RiskKeeps ==
  ASSUME RouteInv, RiskReceives, ~AcceptRawSignals
  PROVE  RouteInv'
<1>1. /\ risk_inbox # <<>> /\ risk_inbox' = Tail(risk_inbox)
      /\ UNCHANGED <<inbox, queue, opt_inbox, used, use_priority_engine, capital_available, pending_signals>>
      /\ processed' = IF Honoured(Head(risk_inbox))
                      THEN Append(processed, Head(risk_inbox).signal) ELSE processed
  BY DEF RiskReceives, priorityVars, optimizerVars
<1>2. PICK a, q, b, p, r, d, u :
        /\ a = Values(inbox) /\ q = DOMAIN queue /\ b = Batched(opt_inbox)
        /\ p = Values(pending_signals) /\ r = Given(risk_inbox) /\ d = Values(processed) /\ u = used
  OBVIOUS
<1>3. Staged(a, q, b, p, r, d, u) /\ InboxesOk
  BY <1>2 DEF RouteInv
<1>4. PICK ev : ev = Head(risk_inbox)
  OBVIOUS
<1>5. /\ IsSeq(risk_inbox) /\ GivenOnce(risk_inbox)
      /\ IsSeq(processed) /\ Once(processed)
  BY <1>3 DEF InboxesOk
<1>6. /\ IsSeq(risk_inbox') /\ GivenOnce(risk_inbox') /\ Given(risk_inbox') \subseteq Given(risk_inbox)
      /\ ev.kind # "Signal" => ev.signal \in Given(risk_inbox) \ Given(risk_inbox')
  BY <1>1, <1>4, <1>5, GivenTail, Zenon
<1>7. PICK rr, dd : rr = Given(risk_inbox') /\ dd = Values(processed')
  OBVIOUS
<1>8. /\ IsSeq(processed') /\ Once(processed')
      /\ d \subseteq dd /\ dd \ d \subseteq r \ rr
  <2>1. CASE ev.kind = "Signal"
    <3>1. ~Honoured(ev)
      BY <2>1 DEF Honoured
    <3>2. processed' = processed
      BY <1>1, <1>4, <3>1
    <3> QED
      BY <1>2, <1>5, <1>7, <3>2
  <2>2. CASE ev.kind # "Signal"
    <3>1. PICK sig : sig = ev.signal
      OBVIOUS
    <3>2. Honoured(ev)
      BY <2>2 DEF Honoured
    <3>3. processed' = Append(processed, sig)
      BY <1>1, <1>4, <3>1, <3>2
    <3>4. sig \in r \ rr
      BY <1>2, <1>6, <1>7, <2>2, <3>1
    <3>5. sig \notin Values(processed)
      BY <1>2, <1>3, <3>4 DEF Staged
    <3>6. IsSeq(processed') /\ Once(processed') /\ Values(processed') = Values(processed) \cup {sig}
      BY <1>5, <3>3, <3>5, ValuesAppend, Zenon
    <3> QED
      BY <1>2, <1>7, <3>4, <3>6
  <2> QED
    BY <2>1, <2>2
<1>9. Staged(a, q, b, p, rr, dd, u)
  <2>1. rr \subseteq r
    BY <1>2, <1>6, <1>7
  <2> QED
    BY <1>3, <1>8, <2>1 DEF Staged
<1>10. InboxesOk'
  BY <1>1, <1>3, <1>6, <1>8 DEF InboxesOk
<1>11. /\ Values(inbox') = a /\ DOMAIN queue' = q /\ Batched(opt_inbox') = b
       /\ Values(pending_signals') = p /\ pending_signals' \in Seq(Signals)
       /\ used' = u /\ use_priority_engine' = TRUE
       /\ capital_available' \in 0..Capital /\ used' \in SUBSET Signals /\ IsFiniteSet(used')
  BY <1>1, <1>2 DEF RouteInv
<1> QED
  BY <1>7, <1>9, <1>10, <1>11 DEF RouteInv

\* main.rs puts the priority engine in front, and RiskConfig skips raw signals
\* by default.
WiredAsInMain == PriorityModes = {TRUE} /\ ~AcceptRawSignals

\* Wired as in main.rs, no signal is evaluated twice, although it is delivered
\* to three loops and republished by two of them.
THEOREM RoutedAtMostOnce == WiredAsInMain => (Spec => []AtMostOnce)
<1> SUFFICES ASSUME WiredAsInMain
             PROVE  Spec => []AtMostOnce
  OBVIOUS
<1>1. Init => RouteInv
  <2> SUFFICES ASSUME Init PROVE RouteInv
    OBVIOUS
  <2>1. /\ use_priority_engine \in PriorityModes /\ capital_available = Capital
        /\ pending_signals = <<>> /\ inbox = <<>> /\ queue = S!EmptyBag
        /\ opt_inbox = <<>> /\ risk_inbox = <<>> /\ used = {} /\ processed = <<>>
    BY DEF Init, O!Init, S!Init
  <2>2. use_priority_engine = TRUE
    BY <2>1 DEF WiredAsInMain
  <2>3. capital_available \in 0..Capital
    BY <2>1, OptimizerFacts
  <2>4. IsFiniteSet(used)
    BY <2>1, FS_EmptySet
  <2>5. PICK empty : empty = <<>>
    OBVIOUS
  <2>6. DOMAIN empty = {} /\ empty \in Seq(Signals)
    BY <2>5
  <2>7. IsSeq(empty)
    BY <2>6 DEF IsSeq
  <2>8. /\ Once(empty) /\ BatchesApart(empty) /\ GivenOnce(empty)
        /\ Values(empty) = {} /\ Batched(empty) = {} /\ Given(empty) = {}
    BY <2>6 DEF Once, BatchesApart, GivenOnce, Values, Batched, Given, Batches, Honest
  <2>9. DOMAIN queue = {}
    BY <2>1 DEF S!EmptyBag, S!SetToBag
  <2>10. InboxesOk
    BY <2>1, <2>5, <2>7, <2>8 DEF InboxesOk
  <2>11. Staged(Values(inbox), DOMAIN queue, Batched(opt_inbox), Values(pending_signals),
                Given(risk_inbox), Values(processed), used)
    BY <2>1, <2>5, <2>8, <2>9 DEF Staged
  <2>12. used \in SUBSET Signals /\ pending_signals \in Seq(Signals)
    BY <2>1
  <2> QED
    BY <2>2, <2>3, <2>4, <2>10, <2>11, <2>12 DEF RouteInv
<1>2. RouteInv /\ [Next]_vars => RouteInv'
  <2> SUFFICES ASSUME RouteInv, [Next]_vars PROVE RouteInv'
    OBVIOUS
  <2>1. ASSUME UNCHANGED <<inbox, queue, optimizerVars, opt_inbox, risk_inbox, used, processed>>
        PROVE  RouteInv'
    BY <2>1 DEF RouteInv, InboxesOk, optimizerVars
  <2>2. CASE PriorityTimer
    BY <2>1, <2>2 DEF PriorityTimer, S!Timer
  <2>3. CASE OptimizerTimer
    BY <2>1, <2>3 DEF OptimizerTimer, priorityVars
  <2>4. CASE UNCHANGED vars
    BY <2>1, <2>4 DEF vars, priorityVars
  <2>5. CASE \E sig \in Signals : Emit(sig)
    BY <2>5, EmitKeeps
  <2>6. CASE PriorityStep
    BY <2>6, PriorityStepKeeps
  <2>7. CASE OptimizerReceives
    BY <2>7, ReceiveKeeps
  <2>8. CASE OptimizerTick
    BY <2>8, TickKeeps
  <2>9. CASE RiskReceives
    BY <2>9, RiskKeeps DEF WiredAsInMain
  <2> QED
    BY <2>2, <2>3, <2>4, <2>5, <2>6, <2>7, <2>8, <2>9 DEF Next
<1>3. RouteInv => AtMostOnce
  BY DEF RouteInv, InboxesOk, Once, AtMostOnce
<1> QED
  BY <1>1, <1>2, <1>3, PTL DEF Spec
----------------------------------------------------------------------------
(***************************************************************************)
(* The priority engine.  The queue is one of the best of the window, as    *)
(* many as it has room for (PriorityInv): what is evicted when a signal    *)
(* comes is outranked by all that stays, and so was all that was evicted   *)
(* before, so that the best of the best are the best of all.               *)
(*                                                                         *)
(* Bags are compared by the copies they have of anything, none outside     *)
(* their domain.                                                           *)
(***************************************************************************)

Copies(b, x) == IF x \in DOMAIN b THEN b[x] ELSE 0

FiniteBag(b) == b \in [DOMAIN b -> Nat \ {0}] /\ IsFiniteSet(DOMAIN b)

LEMMA CopiesNat ==
  ASSUME NEW b, FiniteBag(b), NEW x
  PROVE  Copies(b, x) \in Nat /\ (Copies(b, x) > 0 <=> x \in DOMAIN b)
  BY DEF Copies, FiniteBag

LEMMA ZeroSum ==
  ASSUME NEW D, IsFiniteSet(D), NEW f, \A x \in D : f[x] = 0
  PROVE  SumFunctionOnSet(f, D) = 0
<1>1. PICK n : n = SumFunctionOnSet(f, D)
  OBVIOUS
<1>2. \A x \in D : f[x] \in Int /\ f[x] = f[x] + f[x]
  OBVIOUS
<1>3. n \in Int
  BY <1>1, <1>2, SumType
<1>4. n = n + n
  BY <1>1, <1>2, SumAdd
<1>5. n = 0
  BY <1>3, <1>4
<1> QED
  BY <1>1, <1>5

\* The size of a bag counts the copies over any finite set that holds it.
LEMMA SizeOver ==
  ASSUME NEW b, FiniteBag(b), NEW D, IsFiniteSet(D), DOMAIN b \subseteq D,
         NEW f, \A x \in D : f[x] = Copies(b, x)
  PROVE  S!Size(b) = SumFunctionOnSet(f, D)
<1>1. \A x \in D : f[x] \in Int
  BY CopiesNat
<1>2. SumFunctionOnSet(f, D) = SumFunctionOnSet(f, DOMAIN b) + SumFunctionOnSet(f, D \ DOMAIN b)
  BY <1>1, SumSplit
<1>3. SumFunctionOnSet(f, D \ DOMAIN b) = 0
  <2>1. IsFiniteSet(D \ DOMAIN b)
    BY FS_Difference
  <2>2. \A x \in D \ DOMAIN b : f[x] = 0
    BY DEF Copies
  <2> QED
    BY <2>1, <2>2, ZeroSum
<1>4. /\ IsFiniteSet(DOMAIN b) /\ \A x \in DOMAIN b : b[x] \in Int /\ f[x] = b[x]
  BY DEF Copies, FiniteBag
<1>5. SumFunctionOnSet(f, DOMAIN b) = SumFunctionOnSet(b, DOMAIN b)
  BY <1>4, SumCong
<1>6. SumFunctionOnSet(b, DOMAIN b) \in Int
  BY <1>4, SumType
<1>7. S!Size(b) = SumFunctionOnSet(b, DOMAIN b)
  BY DEF S!Size, S!SumFunction, S!SumFunctionOnSet, S!FoldFunctionOnSet, S!MapThenFoldSet,
         SumFunctionOnSet, FoldFunctionOnSet, MapThenFoldSet
<1> QED
  BY <1>2, <1>3, <1>5, <1>6, <1>7

LEMMA SizeNat ==
  ASSUME NEW b, FiniteBag(b)
  PROVE  S!Size(b) \in Nat /\ \A x \in DOMAIN b : b[x] <= S!Size(b)
<1>1. /\ IsFiniteSet(DOMAIN b) /\ \A x \in DOMAIN b : b[x] \in Nat /\ b[x] = Copies(b, x)
  BY DEF Copies, FiniteBag
<1>2. S!Size(b) = SumFunctionOnSet(b, DOMAIN b)
  BY <1>1, SizeOver
<1> QED
  BY <1>1, <1>2, SumNat

----------------------------------------------------------------------------
\* t has no more of anything than b.
Within(t, b) == \A x : Copies(t, x) <= Copies(b, x)

LEMMA SizeWithin ==
  ASSUME NEW t, FiniteBag(t), NEW b, FiniteBag(b), Within(t, b)
  PROVE  /\ S!Size(t) <= S!Size(b)
         /\ (\E y : Copies(t, y) < Copies(b, y)) => S!Size(t) < S!Size(b)
         /\ S!Size(t) < S!Size(b) => \E y : Copies(t, y) < Copies(b, y)
<1>1. PICK D : D = DOMAIN b
  OBVIOUS
<1>2. IsFiniteSet(D) /\ DOMAIN t \subseteq D
  <2>1. \A x \in DOMAIN t : Copies(t, x) > 0 /\ Copies(t, x) \in Nat /\ Copies(b, x) \in Nat
    BY CopiesNat
  <2>2. \A x \in DOMAIN t : Copies(b, x) > 0
    BY <2>1 DEF Within
  <2>3. \A x \in DOMAIN t : x \in D
    BY <1>1, <2>2, CopiesNat
  <2> QED
    BY <1>1, <2>3 DEF FiniteBag
<1>3. PICK f, g, h : /\ f = [x \in D |-> Copies(t, x)] /\ g = [x \in D |-> Copies(b, x)]
                     /\ h = [x \in D |-> Copies(b, x) - Copies(t, x)]
  OBVIOUS
<1>4. \A x : Copies(t, x) \in Nat /\ Copies(b, x) \in Nat /\ Copies(t, x) <= Copies(b, x)
  BY CopiesNat DEF Within
<1>5. \A x \in D : /\ f[x] \in Int /\ h[x] \in Nat /\ g[x] \in Int /\ g[x] = f[x] + h[x]
                   /\ f[x] = Copies(t, x) /\ g[x] = Copies(b, x)
  BY <1>3, <1>4
<1>6. S!Size(t) = SumFunctionOnSet(f, D) /\ S!Size(b) = SumFunctionOnSet(g, D)
  <2>1. S!Size(t) = SumFunctionOnSet(f, D)
    BY <1>2, <1>5, SizeOver
  <2>2. S!Size(b) = SumFunctionOnSet(g, D)
    BY <1>1, <1>2, <1>5, SizeOver
  <2> QED
    BY <2>1, <2>2
<1>7. SumFunctionOnSet(g, D) = SumFunctionOnSet(f, D) + SumFunctionOnSet(h, D)
  BY <1>2, <1>5, SumAdd
<1>8. /\ SumFunctionOnSet(h, D) \in Nat /\ SumFunctionOnSet(f, D) \in Int
      /\ \A x \in D : h[x] <= SumFunctionOnSet(h, D)
  BY <1>2, <1>5, SumNat, SumType
<1>9. ASSUME NEW y, Copies(t, y) < Copies(b, y)
      PROVE  S!Size(t) < S!Size(b)
  <2>1. y \in D
    BY <1>1, <1>4, <1>9, CopiesNat
  <2>2. h[y] > 0
    BY <1>3, <1>4, <1>9, <2>1
  <2> QED
    BY <1>5, <1>6, <1>7, <1>8, <2>1, <2>2
<1>10. ASSUME S!Size(t) < S!Size(b), \A y : ~(Copies(t, y) < Copies(b, y))
       PROVE  FALSE
  <2>1. \A x \in D : h[x] = 0
    BY <1>3, <1>4, <1>10
  <2>2. SumFunctionOnSet(h, D) = 0
    BY <1>2, <2>1, ZeroSum
  <2> QED
    BY <1>6, <1>7, <1>8, <1>10, <2>2
<1> QED
  BY <1>6, <1>7, <1>8, <1>9, <1>10

\* c is b with one more copy of sig.
OneMore(c, b, sig) ==
  /\ FiniteBag(c) /\ DOMAIN c = DOMAIN b \cup {sig} /\ S!Size(c) = S!Size(b) + 1
  /\ \A x : Copies(c, x) = IF x = sig THEN Copies(b, x) + 1 ELSE Copies(b, x)

LEMMA SizeWithOne ==
  ASSUME NEW b, FiniteBag(b), NEW sig, NEW c, c = S!(+)(b, S!One(sig))
  PROVE  OneMore(c, b, sig)
<1>1. PICK one : one = S!One(sig)
  OBVIOUS
<1>2. DOMAIN one = {sig} /\ one[sig] = 1
  BY <1>1 DEF S!One, S!SetToBag
<1>3. c = [e \in DOMAIN b \cup DOMAIN one |-> (IF e \in DOMAIN b THEN b[e] ELSE 0)
                                              + (IF e \in DOMAIN one THEN one[e] ELSE 0)]
  BY <1>1, Zenon DEF S!(+)
<1>4. DOMAIN c = DOMAIN b \cup {sig}
  BY <1>2, <1>3
<1>5. \A x \in DOMAIN c : c[x] = IF x = sig THEN Copies(b, x) + 1 ELSE Copies(b, x)
  <2> SUFFICES ASSUME NEW x \in DOMAIN c
               PROVE  c[x] = IF x = sig THEN Copies(b, x) + 1 ELSE Copies(b, x)
    OBVIOUS
  <2>1. Copies(b, x) \in Nat
    BY CopiesNat
  <2>2. c[x] = Copies(b, x) + (IF x \in DOMAIN one THEN one[x] ELSE 0)
    BY <1>3, <1>4 DEF Copies
  <2> QED
    BY <1>2, <2>1, <2>2
<1>6. \A x : Copies(c, x) = IF x = sig THEN Copies(b, x) + 1 ELSE Copies(b, x)
  BY <1>4, <1>5 DEF Copies
<1>7. FiniteBag(c)
  <2>1. IsFiniteSet(DOMAIN c)
    BY <1>4, FS_AddElement DEF FiniteBag
  <2>2. \A x \in DOMAIN c : c[x] \in Nat \ {0}
    <3> SUFFICES ASSUME NEW x \in DOMAIN c PROVE c[x] \in Nat \ {0}
      OBVIOUS
    <3>1. Copies(b, x) \in Nat /\ (x \in DOMAIN b => Copies(b, x) > 0)
      BY CopiesNat
    <3> QED
      BY <1>4, <1>5, <3>1
  <2>3. c = [e \in DOMAIN c |-> c[e]]
    BY <1>3
  <2> QED
    BY <2>1, <2>2, <2>3 DEF FiniteBag
<1>8. S!Size(c) = S!Size(b) + 1
  <2>1. PICK D : D = DOMAIN c
    OBVIOUS
  <2>2. IsFiniteSet(D) /\ DOMAIN b \subseteq D /\ sig \in D
    BY <1>4, <1>7, <2>1 DEF FiniteBag
  <2>3. PICK f : f = [x \in D |-> Copies(b, x)]
    OBVIOUS
  <2>4. \A x \in D : f[x] = Copies(b, x) /\ f[x] \in Int
    BY <2>3, CopiesNat
  <2>5. S!Size(b) = SumFunctionOnSet(f, D)
    BY <2>2, <2>4, SizeOver
  <2>6. PICK g : g = [x \in D |-> Copies(c, x)]
    OBVIOUS
  <2>7. \A x \in D : g[x] = Copies(c, x)
    BY <2>6
  <2>8. S!Size(c) = SumFunctionOnSet(g, D)
    BY <1>7, <2>1, <2>2, <2>7, SizeOver
  <2>9. g[sig] = f[sig] + 1 /\ g[sig] \in Int /\ \A x \in D \ {sig} : g[x] = f[x]
    BY <1>6, <2>2, <2>4, <2>7
  <2>10. SumFunctionOnSet(g, D) = SumFunctionOnSet(f, D) - f[sig] + g[sig]
    BY <2>2, <2>4, <2>9, SumUpdate
  <2>11. SumFunctionOnSet(f, D) \in Int
    BY <2>2, <2>4, SumType
  <2> QED
    BY <2>2, <2>4, <2>5, <2>8, <2>9, <2>10, <2>11
<1> QED
  BY <1>4, <1>6, <1>7, <1>8 DEF OneMore

----------------------------------------------------------------------------
\* x outranks y, or is its equal.
NoWorse(x, y) == S!Score(x) >= S!Score(y)

\* t is n of b, or all of them, and no better one is left out.
BestOf(t, b, n) ==
  /\ FiniteBag(t) /\ Within(t, b)
  /\ S!Size(t) = S!MinOf(n, S!Size(b))
  /\ \A x, y : Copies(t, x) > 0 /\ Copies(t, y) < Copies(b, y) => NoWorse(x, y)

\* What the bag difference leaves is what t has fewer copies of.
LEMMA LeftOut ==
  ASSUME NEW b, FiniteBag(b), NEW t, FiniteBag(t), NEW y
  PROVE  y \in S!BagToSet(S!(-)(b, t)) <=> Copies(t, y) < Copies(b, y)
<1>1. PICK r : r = [e \in DOMAIN b |-> IF e \in DOMAIN t THEN b[e] - t[e] ELSE b[e]]
  OBVIOUS
<1>2. DOMAIN S!(-)(b, t) = {d \in DOMAIN r : r[d] > 0}
  BY <1>1 DEF S!(-)
<1>3. DOMAIN r = DOMAIN b
  BY <1>1
<1>4. \A e \in DOMAIN b : r[e] = Copies(b, e) - Copies(t, e)
  <2> SUFFICES ASSUME NEW e \in DOMAIN b PROVE r[e] = Copies(b, e) - Copies(t, e)
    OBVIOUS
  <2>1. r[e] = IF e \in DOMAIN t THEN b[e] - t[e] ELSE b[e]
    BY <1>1
  <2>2. b[e] \in Nat
    BY DEF FiniteBag
  <2> QED
    BY <2>1, <2>2 DEF Copies
<1>5. Copies(b, y) \in Nat /\ Copies(t, y) \in Nat /\ (y \notin DOMAIN b => Copies(b, y) = 0)
  BY CopiesNat DEF Copies
<1> QED
  BY <1>2, <1>3, <1>4, <1>5 DEF S!BagToSet

LEMMA BestIsBestOf ==
  ASSUME NEW b, FiniteBag(b), NEW n \in Nat, NEW t
  PROVE  t \in S!Best(b, n) <=> BestOf(t, b, n)
<1>1. \A x \in DOMAIN b : Copies(b, x) = b[x] /\ b[x] \in Nat
  BY DEF Copies, FiniteBag
<1>2. ASSUME t \in S!Contained(b)
      PROVE  FiniteBag(t) /\ Within(t, b)
  <2>1. PICK D \in SUBSET (DOMAIN b) : t \in [D -> 1..S!Size(b)]
    BY <1>2 DEF S!Contained, S!BagToSet
  <2>2. \A e \in DOMAIN t : t[e] <= b[e]
    BY <1>2 DEF S!Contained, S!\sqsubseteq
  <2>3. DOMAIN t = D /\ IsFiniteSet(D)
    BY <2>1, FS_Subset DEF FiniteBag
  <2>4. FiniteBag(t)
    BY <2>1, <2>3 DEF FiniteBag
  <2>5. ASSUME NEW x PROVE Copies(t, x) <= Copies(b, x)
    <3>1. CASE x \in DOMAIN t
      <4>1. x \in DOMAIN b /\ t[x] <= b[x]
        BY <2>1, <2>2, <2>3, <3>1
      <4> QED
        BY <3>1, <4>1 DEF Copies
    <3>2. CASE x \notin DOMAIN t
      <4>1. Copies(t, x) = 0 /\ Copies(b, x) \in Nat
        BY <3>2, CopiesNat DEF Copies
      <4> QED
        BY <4>1
    <3> QED
      BY <3>1, <3>2
  <2> QED
    BY <2>4, <2>5 DEF Within
<1>3. ASSUME FiniteBag(t), Within(t, b)
      PROVE  t \in S!Contained(b)
  <2>1. \A x \in DOMAIN t : /\ Copies(t, x) = t[x] /\ t[x] \in Nat \ {0} /\ Copies(b, x) \in Nat
                            /\ Copies(t, x) <= Copies(b, x)
    BY <1>3, CopiesNat DEF Copies, FiniteBag, Within
  <2>2. \A x \in DOMAIN t : x \in DOMAIN b
    BY <2>1, CopiesNat
  <2>3. \A x \in DOMAIN t : t[x] <= b[x] /\ t[x] \in 1..S!Size(b)
    <3> SUFFICES ASSUME NEW x \in DOMAIN t PROVE t[x] <= b[x] /\ t[x] \in 1..S!Size(b)
      OBVIOUS
    <3>1. x \in DOMAIN b /\ b[x] \in Nat /\ Copies(b, x) = b[x] /\ b[x] <= S!Size(b) /\ S!Size(b) \in Nat
      BY <1>1, <2>2, SizeNat
    <3>2. t[x] \in Nat \ {0} /\ t[x] <= b[x]
      BY <2>1, <3>1
    <3> QED
      BY <3>1, <3>2
  <2>4. t \in [DOMAIN t -> 1..S!Size(b)]
    <3>1. t = [x \in DOMAIN t |-> t[x]]
      BY <1>3 DEF FiniteBag
    <3> QED
      BY <2>3, <3>1
  <2>5. S!\sqsubseteq(t, b)
    BY <2>2, <2>3 DEF S!\sqsubseteq
  <2> QED
    BY <2>2, <2>4, <2>5 DEF S!Contained, S!BagToSet
<1>4. ASSUME FiniteBag(t)
      PROVE  (\A x \in S!BagToSet(t), y \in S!BagToSet(S!(-)(b, t)) : S!Score(x) >= S!Score(y))
             <=> \A x, y : Copies(t, x) > 0 /\ Copies(t, y) < Copies(b, y) => NoWorse(x, y)
  <2>1. \A x : Copies(t, x) > 0 <=> x \in S!BagToSet(t)
    BY <1>4, CopiesNat DEF S!BagToSet
  <2>2. \A y : y \in S!BagToSet(S!(-)(b, t)) <=> Copies(t, y) < Copies(b, y)
    BY <1>4, LeftOut
  <2> QED
    BY <2>1, <2>2, Zenon DEF NoWorse
<1>5. t \in S!Best(b, n) <=>
        /\ t \in S!Contained(b) /\ S!Size(t) = S!MinOf(n, S!Size(b))
        /\ \A x \in S!BagToSet(t), y \in S!BagToSet(S!(-)(b, t)) : S!Score(x) >= S!Score(y)
  BY Zenon DEF S!Best
<1> QED
  BY <1>2, <1>3, <1>4, <1>5, Zenon DEF BestOf

\* The bests of c, itself the best of b.
LEMMA BestOfBest ==
  ASSUME NEW b, FiniteBag(b), NEW n \in Nat, NEW c, BestOf(c, b, n),
         NEW k \in Nat, NEW t, BestOf(t, c, k)
  PROVE  BestOf(t, b, S!MinOf(k, n))
<1>1. FiniteBag(t) /\ FiniteBag(c) /\ Within(t, c) /\ Within(c, b)
  BY DEF BestOf
<1>2. \A x : /\ Copies(t, x) \in Nat /\ Copies(c, x) \in Nat /\ Copies(b, x) \in Nat
             /\ Copies(t, x) <= Copies(c, x) /\ Copies(c, x) <= Copies(b, x)
  BY <1>1, CopiesNat DEF Within
<1>3. Within(t, b)
  <2> SUFFICES ASSUME NEW x PROVE Copies(t, x) <= Copies(b, x)
    BY DEF Within
  <2> QED
    BY <1>2
<1>4. S!Size(t) = S!MinOf(S!MinOf(k, n), S!Size(b))
  <2>1. S!Size(b) \in Nat /\ S!Size(c) = S!MinOf(n, S!Size(b)) /\ S!Size(t) = S!MinOf(k, S!Size(c))
    BY SizeNat DEF BestOf
  <2> QED
    BY <2>1 DEF S!MinOf
<1>5. ASSUME NEW x, NEW y, Copies(t, x) > 0, Copies(t, y) < Copies(b, y)
      PROVE  NoWorse(x, y)
  <2>1. CASE Copies(t, y) < Copies(c, y)
    BY <1>5, <2>1 DEF BestOf
  <2>2. CASE ~(Copies(t, y) < Copies(c, y))
    <3>1. Copies(c, x) > 0 /\ Copies(c, y) < Copies(b, y)
      BY <1>2, <1>5, <2>2
    <3> QED
      BY <3>1 DEF BestOf
  <2> QED
    BY <2>1, <2>2
<1> QED
  BY <1>1, <1>3, <1>4, <1>5 DEF BestOf

\* A signal more, and the best of what was kept and the new one are the best of all.
LEMMA BestWithOne ==
  ASSUME NEW b, FiniteBag(b), NEW n \in Nat, NEW c, BestOf(c, b, n), NEW sig,
         \A x, y, z : NoWorse(x, y) /\ NoWorse(y, z) /\ x \in DOMAIN b \cup {sig} /\ y \in DOMAIN b \cup {sig}
                      /\ z \in DOMAIN b \cup {sig} => NoWorse(x, z),
         NEW bs, OneMore(bs, b, sig), NEW cs, OneMore(cs, c, sig),
         NEW t, BestOf(t, cs, n)
  PROVE  BestOf(t, bs, n)
<1>1. FiniteBag(t) /\ FiniteBag(c) /\ Within(t, cs) /\ Within(c, b)
  BY DEF BestOf
<1>2. /\ FiniteBag(bs) /\ S!Size(bs) = S!Size(b) + 1
      /\ \A x : Copies(bs, x) = IF x = sig THEN Copies(b, x) + 1 ELSE Copies(b, x)
  BY DEF OneMore
<1>3. /\ FiniteBag(cs) /\ S!Size(cs) = S!Size(c) + 1
      /\ \A x : Copies(cs, x) = IF x = sig THEN Copies(c, x) + 1 ELSE Copies(c, x)
  BY DEF OneMore
<1>4. \A x : /\ Copies(t, x) \in Nat /\ Copies(c, x) \in Nat /\ Copies(b, x) \in Nat
             /\ Copies(t, x) <= Copies(cs, x) /\ Copies(c, x) <= Copies(b, x)
  BY <1>1, CopiesNat DEF Within
<1>5. \A x : Copies(cs, x) <= Copies(bs, x)
  BY <1>2, <1>3, <1>4
<1>6. /\ S!Size(b) \in Nat /\ S!Size(c) = S!MinOf(n, S!Size(b)) /\ S!Size(t) = S!MinOf(n, S!Size(cs))
  BY SizeNat DEF BestOf
<1>7. S!Size(t) = S!MinOf(n, S!Size(bs))
  BY <1>2, <1>3, <1>6 DEF S!MinOf
<1>8. Within(t, bs)
  <2> SUFFICES ASSUME NEW x PROVE Copies(t, x) <= Copies(bs, x)
    BY DEF Within
  <2>1. Copies(bs, x) \in Nat /\ Copies(cs, x) \in Nat
    BY <1>2, <1>3, CopiesNat
  <2> QED
    BY <1>4, <1>5, <2>1
<1>9. ASSUME NEW x, NEW y, Copies(t, x) > 0, Copies(t, y) < Copies(bs, y)
      PROVE  NoWorse(x, y)
  <2>1. CASE Copies(t, y) < Copies(cs, y)
    BY <1>9, <2>1 DEF BestOf
  <2>2. CASE ~(Copies(t, y) < Copies(cs, y))
    <3>1. Copies(cs, y) < Copies(bs, y)
      <4>1. Copies(cs, y) \in Nat /\ Copies(bs, y) \in Nat
        BY <1>2, <1>3, CopiesNat
      <4> QED
        BY <1>4, <1>9, <2>2, <4>1
    <3>2. Copies(c, y) < Copies(b, y)
      BY <1>2, <1>3, <1>4, <3>1
    <3>3. \A v : Copies(c, v) > 0 => NoWorse(v, y)
      BY <3>2 DEF BestOf
    <3>4. CASE Copies(c, x) > 0
      BY <3>3, <3>4
    <3>5. CASE ~(Copies(c, x) > 0)
      <4>1. x = sig /\ Copies(c, sig) = 0 /\ Copies(t, sig) > 0
        BY <1>3, <1>4, <1>9, <3>5
      <4>2. S!Size(c) < S!Size(b)
        BY <1>1, <3>2, SizeWithin
      <4>3. S!Size(t) < S!Size(cs)
        BY <1>3, <1>6, <4>2 DEF S!MinOf
      <4>4. PICK z : Copies(t, z) < Copies(cs, z)
        BY <1>1, <1>3, <4>3, SizeWithin
      <4>5. NoWorse(sig, z)
        BY <4>1, <4>4 DEF BestOf
      <4>6. z # sig
        BY <1>3, <1>4, <4>1, <4>4
      <4>7. Copies(c, z) > 0
        BY <1>3, <1>4, <4>4, <4>6
      <4>8. NoWorse(z, y)
        BY <3>3, <4>7
      <4>9. z \in DOMAIN b /\ y \in DOMAIN b
        BY <1>4, <3>2, <4>7, CopiesNat
      <4> QED
        BY <4>1, <4>5, <4>8, <4>9
    <3> QED
      BY <3>4, <3>5
  <2> QED
    BY <2>1, <2>2
<1> QED
  BY <1>1, <1>7, <1>8, <1>9 DEF BestOf

----------------------------------------------------------------------------
\* The signals that get into the queue.
Slow == {s \in Signals : S!Admitted(s) /\ ~S!IsFast(s)}

OtherEvent == [kind |-> "Other"]

PriorityTyped ==
  /\ inbox \in Seq(Signals \cup {OtherEvent}) /\ Len(inbox) <= InboxCapacity
  /\ tick_due \in BOOLEAN /\ running \in BOOLEAN

\* The queue holds the best of the window, as many as it has room for.
PriorityInv ==
  /\ PriorityTyped
  /\ FiniteBag(window) /\ DOMAIN window \subseteq Slow
  /\ BestOf(queue, window, SlowQueueCapacity)

\* Outranking is transitive.
LEMMA RankTransitive ==
  ASSUME NEW x \in Signals, NEW y \in Signals, NEW z \in Signals, NoWorse(x, y), NoWorse(y, z)
  PROVE  NoWorse(x, z)
BY PriorityFacts DEF NoWorse

\* An empty bag is the best of an empty bag.
LEMMA EmptyIsBest ==
  ASSUME NEW b, b = S!EmptyBag, NEW n \in Nat
  PROVE  FiniteBag(b) /\ DOMAIN b = {} /\ BestOf(b, b, n)
<1>1. DOMAIN b = {}
  BY DEF S!EmptyBag, S!SetToBag
<1>2. b = [x \in DOMAIN b |-> b[x]]
  BY DEF S!EmptyBag, S!SetToBag
<1>3. FiniteBag(b)
  BY <1>1, <1>2, FS_EmptySet DEF FiniteBag
<1>4. \A x : Copies(b, x) = 0
  BY <1>1 DEF Copies
<1>5. PICK f : f = [x \in {} |-> 0]
  OBVIOUS
<1>6. S!Size(b) = SumFunctionOnSet(f, {})
  <2>1. DOMAIN b \subseteq {} /\ IsFiniteSet({}) /\ \A x \in {} : f[x] = Copies(b, x)
    BY <1>1, FS_EmptySet
  <2> QED
    BY <1>3, <2>1, SizeOver
<1>7. SumFunctionOnSet(f, {}) = 0
  BY ZeroSum, FS_EmptySet
<1>8. S!Size(b) = S!MinOf(n, S!Size(b))
  BY <1>6, <1>7 DEF S!MinOf
<1>9. Within(b, b)
  BY <1>4 DEF Within
<1>10. ASSUME NEW x, NEW y, Copies(b, x) > 0 PROVE NoWorse(x, y)
  BY <1>4, <1>10
<1> QED
  BY <1>1, <1>3, <1>8, <1>9, <1>10 DEF BestOf

LEMMA PriorityStart ==
  ASSUME S!Init
  PROVE  PriorityInv
<1>1. /\ inbox = <<>> /\ tick_due = TRUE /\ running = TRUE
      /\ queue = S!EmptyBag /\ window = S!EmptyBag
  BY DEF S!Init
<1>2. PriorityTyped
  <2>1. PICK E : E = Signals \cup {OtherEvent}
    OBVIOUS
  <2>2. inbox \in Seq(E) /\ Len(inbox) = 0
    BY <1>1
  <2> QED
    BY <1>1, <2>1, <2>2, PriorityFacts DEF PriorityTyped
<1>3. FiniteBag(window) /\ DOMAIN window = {} /\ BestOf(window, window, SlowQueueCapacity)
  BY <1>1, PriorityFacts, EmptyIsBest
<1> QED
  BY <1>1, <1>2, <1>3 DEF PriorityInv

\* The queue's signals are the window's.
LEMMA QueueFacts ==
  ASSUME PriorityInv
  PROVE  /\ FiniteBag(queue) /\ DOMAIN queue \subseteq Slow
         /\ S!Size(queue) \in Nat /\ S!Size(queue) <= SlowQueueCapacity
<1>1. FiniteBag(queue) /\ FiniteBag(window) /\ Within(queue, window)
  BY DEF PriorityInv, BestOf
<1>2. ASSUME NEW x \in DOMAIN queue PROVE x \in Slow
  <2>1. /\ Copies(queue, x) \in Nat /\ Copies(queue, x) > 0 /\ Copies(window, x) \in Nat
        /\ Copies(queue, x) <= Copies(window, x)
    BY <1>1, <1>2, CopiesNat DEF Within
  <2>2. x \in DOMAIN window
    BY <1>1, <2>1, CopiesNat
  <2> QED
    BY <2>2 DEF PriorityInv
<1>3. S!Size(queue) \in Nat /\ S!Size(window) \in Nat
  BY <1>1, SizeNat
<1>4. S!Size(queue) = S!MinOf(SlowQueueCapacity, S!Size(window))
  BY DEF PriorityInv, BestOf
<1>5. S!Size(queue) <= SlowQueueCapacity
  BY <1>3, <1>4, PriorityFacts DEF S!MinOf
<1> QED
  BY <1>1, <1>2, <1>3, <1>5

LEMMA PriorityIsTyped ==
  ASSUME PriorityInv
  PROVE  S!TypeOK
<1>1. inbox \in Seq(Signals \cup {[kind |-> "Other"]}) /\ Len(inbox) <= InboxCapacity
  BY DEF PriorityInv, PriorityTyped, OtherEvent
<1>2. tick_due \in BOOLEAN /\ running \in BOOLEAN
  BY DEF PriorityInv, PriorityTyped
<1>3. ASSUME NEW b, FiniteBag(b), DOMAIN b \subseteq Slow
      PROVE  /\ S!IsABag(b)
             /\ S!BagToSet(b) \subseteq {s \in Signals : S!Admitted(s) /\ ~S!IsFast(s)}
  <2>1. b \in [DOMAIN b -> {n \in Nat : n > 0}]
    <3>1. b \in [DOMAIN b -> Nat \ {0}]
      BY <1>3 DEF FiniteBag
    <3>2. Nat \ {0} = {n \in Nat : n > 0}
      OBVIOUS
    <3> QED
      BY <3>1, <3>2
  <2>2. S!IsABag(b)
    BY <2>1, Zenon DEF S!IsABag
  <2> QED
    BY <1>3, <2>2, Zenon DEF S!BagToSet, Slow
<1>4. FiniteBag(window) /\ DOMAIN window \subseteq Slow
  BY DEF PriorityInv
<1>5. FiniteBag(queue) /\ DOMAIN queue \subseteq Slow /\ S!Size(queue) <= SlowQueueCapacity
  BY QueueFacts
<1>6. \A b \in {queue, window} :
        S!IsABag(b) /\ S!BagToSet(b) \subseteq {s \in Signals : S!Admitted(s) /\ ~S!IsFast(s)}
  BY <1>3, <1>4, <1>5
<1> QED
  BY <1>1, <1>2, <1>5, <1>6, Zenon DEF S!TypeOK

\* A slow signal is kept with the best of the window, or evicts the worst.
LEMMA BufferKeeps ==
  ASSUME PriorityInv, PriorityTyped', NEW sig \in Signals, S!BufferSlow(sig)
  PROVE  PriorityInv'
<1>1. CASE ~S!Admitted(sig)
  <2>1. queue' = queue /\ window' = window
    BY <1>1 DEF S!BufferSlow
  <2> QED
    BY <2>1 DEF PriorityInv
<1>2. CASE S!Admitted(sig)
  <2>1. /\ ~S!IsFast(sig) /\ queue' \in S!Best(S!(+)(queue, S!One(sig)), SlowQueueCapacity)
        /\ window' = S!(+)(window, S!One(sig))
    BY <1>2 DEF S!BufferSlow
  <2>2. sig \in Slow
    BY <1>2, <2>1 DEF Slow
  <2>3. FiniteBag(queue) /\ FiniteBag(window) /\ DOMAIN window \subseteq Slow
    BY QueueFacts DEF PriorityInv
  <2>4. OneMore(window', window, sig)
    BY <2>1, <2>3, SizeWithOne
  <2>5. PICK both : both = S!(+)(queue, S!One(sig))
    OBVIOUS
  <2>6. OneMore(both, queue, sig) /\ FiniteBag(both)
    <3>1. OneMore(both, queue, sig)
      BY <2>3, <2>5, SizeWithOne
    <3> QED
      BY <3>1 DEF OneMore
  <2>7. BestOf(queue', both, SlowQueueCapacity)
    <3>1. queue' \in S!Best(both, SlowQueueCapacity)
      BY <2>1, <2>5
    <3> QED
      BY <2>6, <3>1, BestIsBestOf, PriorityFacts
  <2>8. DOMAIN window \cup {sig} \subseteq Signals
    BY <2>2, <2>3 DEF Slow
  <2>9. \A x, y, z : NoWorse(x, y) /\ NoWorse(y, z) /\ x \in DOMAIN window \cup {sig}
                     /\ y \in DOMAIN window \cup {sig} /\ z \in DOMAIN window \cup {sig} => NoWorse(x, z)
    BY <2>8, RankTransitive
  <2>10. BestOf(queue, window, SlowQueueCapacity) /\ SlowQueueCapacity \in Nat
    BY PriorityFacts DEF PriorityInv
  <2>11. BestOf(queue', window', SlowQueueCapacity)
    BY <2>3, <2>4, <2>6, <2>7, <2>9, <2>10, BestWithOne
  <2>12. FiniteBag(window') /\ DOMAIN window' = DOMAIN window \cup {sig}
    BY <2>4 DEF OneMore
  <2>13. DOMAIN window' \subseteq Slow
    BY <2>2, <2>3, <2>12
  <2> QED
    BY <2>11, <2>12, <2>13 DEF PriorityInv
<1> QED
  BY <1>1, <1>2

\* A flush starts a new window.
LEMMA FlushStarts ==
  ASSUME PriorityTyped', S!Flush
  PROVE  PriorityInv'
<1>1. queue' = S!EmptyBag /\ window' = S!EmptyBag
  BY DEF S!Flush
<1>2. FiniteBag(window') /\ DOMAIN window' = {} /\ BestOf(window', window', SlowQueueCapacity)
  BY <1>1, PriorityFacts, EmptyIsBest
<1> QED
  BY <1>1, <1>2 DEF PriorityInv

\* What a flush publishes is the best of the window.
LEMMA FlushPublishes ==
  ASSUME PriorityInv, S!Flush, out'.kind = "TopSignalsBatch"
  PROVE  out'.signals \in S!Best(window, S!MinOf(TopN, SlowQueueCapacity))
<1>1. PICK batch : /\ batch \in S!Best(queue, TopN)
                   /\ out' = (IF queue = S!EmptyBag THEN S!Nothing
                              ELSE [kind |-> "TopSignalsBatch", signals |-> batch])
  BY DEF S!Flush
<1>2. queue # S!EmptyBag
  BY <1>1 DEF S!Nothing
<1>3. out'.signals = batch
  BY <1>1, <1>2
<1>4. FiniteBag(queue) /\ FiniteBag(window) /\ BestOf(queue, window, SlowQueueCapacity)
  BY QueueFacts DEF PriorityInv
<1>5. BestOf(batch, queue, TopN)
  BY <1>1, <1>4, BestIsBestOf, PriorityFacts
<1>6. BestOf(batch, window, S!MinOf(TopN, SlowQueueCapacity))
  BY <1>4, <1>5, BestOfBest, PriorityFacts
<1>7. S!MinOf(TopN, SlowQueueCapacity) \in Nat
  BY PriorityFacts DEF S!MinOf
<1> QED
  BY <1>3, <1>4, <1>6, <1>7, BestIsBestOf

\* An event that arrives pushes out the oldest when the inbox is full.
LEMMA ArrivesTyped ==
  ASSUME PriorityTyped, NEW ev \in Signals \cup {OtherEvent}, S!Arrive(ev)
  PROVE  PriorityTyped'
<1>1. PICK E : E = Signals \cup {OtherEvent}
  OBVIOUS
<1>2. /\ inbox \in Seq(E) /\ Len(inbox) <= InboxCapacity /\ ev \in E
      /\ tick_due \in BOOLEAN /\ running \in BOOLEAN
  BY <1>1 DEF PriorityTyped
<1>3. /\ inbox' = Append(IF Len(inbox) = InboxCapacity THEN Tail(inbox) ELSE inbox, ev)
      /\ tick_due' = tick_due /\ running' = running
  BY DEF S!Arrive
<1>4. inbox' \in Seq(E) /\ Len(inbox') <= InboxCapacity
  <2>1. CASE Len(inbox) = InboxCapacity
    <3>1. inbox # <<>>
      BY <1>2, <2>1, PriorityFacts
    <3>2. Tail(inbox) \in Seq(E) /\ Len(Tail(inbox)) = Len(inbox) - 1
      BY <1>2, <3>1
    <3> QED
      BY <1>2, <1>3, <2>1, <3>2, PriorityFacts
  <2>2. CASE Len(inbox) # InboxCapacity
    BY <1>2, <1>3, <2>2, PriorityFacts
  <2> QED
    BY <2>1, <2>2
<1> QED
  BY <1>1, <1>2, <1>3, <1>4 DEF PriorityTyped

LEMMA ReceivesTyped ==
  ASSUME PriorityTyped, S!Receive
  PROVE  PriorityTyped' /\ Head(inbox) \in Signals \cup {OtherEvent}
<1>1. PICK E : E = Signals \cup {OtherEvent}
  OBVIOUS
<1>2. /\ inbox \in Seq(E) /\ Len(inbox) <= InboxCapacity
      /\ tick_due \in BOOLEAN /\ running \in BOOLEAN
  BY <1>1 DEF PriorityTyped
<1>3. inbox # <<>> /\ inbox' = Tail(inbox) /\ tick_due' = tick_due /\ running' = running
  BY DEF S!Receive
<1>4. inbox' \in Seq(E) /\ Len(inbox') <= InboxCapacity /\ Head(inbox) \in E
  <2>1. Tail(inbox) \in Seq(E) /\ Len(Tail(inbox)) = Len(inbox) - 1 /\ Head(inbox) \in E
    BY <1>2, <1>3
  <2> QED
    BY <1>2, <1>3, <2>1, PriorityFacts
<1> QED
  BY <1>1, <1>2, <1>3, <1>4 DEF PriorityTyped

\* The invariant is kept, and with it every batch is as it should be.
BatchIsTop ==
  out'.kind = "TopSignalsBatch" => out'.signals \in S!Best(window, S!MinOf(TopN, SlowQueueCapacity))

LEMMA PriorityKeeps ==
  ASSUME PriorityInv, [S!Next]_(S!vars)
  PROVE  PriorityInv' /\ [BatchIsTop]_(S!vars)
<1>1. PriorityTyped
  BY DEF PriorityInv
<1>2. ASSUME UNCHANGED <<queue, window>>, PriorityTyped'
      PROVE  PriorityInv'
  BY <1>2 DEF PriorityInv
<1>3. ASSUME out' = S!Nothing PROVE BatchIsTop
  BY <1>3 DEF BatchIsTop, S!Nothing
<1>4. CASE UNCHANGED S!vars
  BY <1>1, <1>2, <1>4 DEF S!vars, PriorityTyped
<1>5. ASSUME NEW ev \in Signals \cup {OtherEvent}, S!Arrive(ev)
      PROVE  PriorityInv' /\ BatchIsTop
  <2>1. out' = S!Nothing /\ UNCHANGED <<queue, window>>
    BY <1>5 DEF S!Arrive
  <2> QED
    BY <1>1, <1>2, <1>3, <1>5, <2>1, ArrivesTyped
<1>6. CASE S!Timer
  <2>1. /\ out' = S!Nothing /\ UNCHANGED <<inbox, queue, running, window>>
        /\ tick_due' = TRUE
    BY <1>6 DEF S!Timer
  <2>2. PriorityTyped'
    BY <1>1, <2>1 DEF PriorityTyped
  <2> QED
    BY <1>2, <1>3, <2>1, <2>2
<1>7. CASE S!Receive
  <2>1. PriorityTyped' /\ Head(inbox) \in Signals \cup {OtherEvent}
    BY <1>1, <1>7, ReceivesTyped
  <2>2. \/ out' = S!Nothing /\ UNCHANGED <<queue, window>>
        \/ S!EmitFast(Head(inbox))
        \/ Head(inbox) # OtherEvent /\ S!BufferSlow(Head(inbox))
    BY <1>7, Zenon DEF S!Receive, OtherEvent
  <2>3. CASE out' = S!Nothing /\ UNCHANGED <<queue, window>>
    BY <1>2, <1>3, <2>1, <2>3
  <2>4. CASE S!EmitFast(Head(inbox))
    <3>1. out' = [kind |-> "FastSignal", signal |-> Head(inbox)] /\ UNCHANGED <<queue, window>>
      BY <2>4 DEF S!EmitFast
    <3>2. out'.kind # "TopSignalsBatch"
      BY <3>1
    <3> QED
      BY <1>2, <2>1, <3>1, <3>2 DEF BatchIsTop
  <2>5. CASE Head(inbox) # OtherEvent /\ S!BufferSlow(Head(inbox))
    <3>1. Head(inbox) \in Signals
      BY <2>1, <2>5
    <3>2. out' = S!Nothing
      BY <2>5 DEF S!BufferSlow
    <3> QED
      BY <1>3, <2>1, <2>5, <3>1, <3>2, BufferKeeps
  <2> QED
    BY <2>2, <2>3, <2>4, <2>5
<1>8. CASE S!OnTick \/ S!Shutdown
  <2>1. S!Flush /\ inbox' = inbox /\ tick_due' \in {tick_due, FALSE} /\ running' \in {running, FALSE}
    BY <1>8 DEF S!OnTick, S!Shutdown
  <2>2. PriorityTyped'
    BY <1>1, <2>1 DEF PriorityTyped
  <2> QED
    BY <2>1, <2>2, FlushStarts, FlushPublishes DEF BatchIsTop
<1>9. CASE S!Next
  <2>1. \/ \E ev \in Signals \cup {OtherEvent} : S!Arrive(ev)
        \/ S!Timer \/ S!Receive \/ S!OnTick \/ S!Shutdown
    BY <1>9, Zenon DEF S!Next, OtherEvent
  <2> QED
    BY <1>5, <1>6, <1>7, <1>8, <2>1
<1> QED
  BY <1>4, <1>9

\* Whatever arrives, and whenever the timer fires or the engine is cancelled, a
\* batch is the best of everything admitted since the one before, and of nothing
\* older: what a full queue evicts and a flush leaves behind is outranked.
THEOREM PriorityTopOfWindow == PrioritySpec => TopOfWindow
<1>1. Init => PriorityInv
  BY PriorityStart DEF Init
<1>2. [PriorityAlone(S!Next)]_vars => [S!Next]_(S!vars)
  BY DEF PriorityAlone, vars, priorityVars, S!vars
<1>3. PriorityInv /\ [PriorityAlone(S!Next)]_vars => PriorityInv' /\ [BatchIsTop]_(S!vars)
  BY <1>2, PriorityKeeps
<1>4. PriorityInv => S!TypeOK
  BY PriorityIsTyped
<1>5. TopOfWindow <=> []S!TypeOK /\ [][BatchIsTop]_(S!vars)
  BY Zenon DEF TopOfWindow, S!TopOfWindow, BatchIsTop
<1> QED
  BY <1>1, <1>3, <1>4, <1>5, PTL DEF PrioritySpec

\* The same of the engine on its place in the pipeline.
THEOREM RoutedTopOfWindow == Spec => TopOfWindow
<1>1. Init => PriorityInv
  BY PriorityStart DEF Init
<1>2. [Next]_vars => [S!Next]_(S!vars)
  <2> SUFFICES ASSUME [Next]_vars PROVE [S!Next]_(S!vars)
    OBVIOUS
  <2>1. ASSUME UNCHANGED priorityVars PROVE UNCHANGED S!vars
    BY <2>1 DEF priorityVars, S!vars
  <2>2. CASE UNCHANGED vars
    BY <2>1, <2>2 DEF vars
  <2>3. CASE \E sig \in Signals : Emit(sig)
    BY <2>3, Zenon DEF Emit, S!Next
  <2>4. CASE PriorityStep
    BY <2>4, Zenon DEF PriorityStep, S!Next
  <2>5. CASE PriorityTimer
    BY <2>5, Zenon DEF PriorityTimer, S!Next
  <2>6. CASE OptimizerReceives \/ OptimizerTick \/ OptimizerTimer \/ RiskReceives
    BY <2>1, <2>6, Zenon DEF OptimizerReceives, OptimizerTick, OptimizerTimer, RiskReceives
  <2> QED
    BY <2>2, <2>3, <2>4, <2>5, <2>6 DEF Next
<1>3. PriorityInv /\ [Next]_vars => PriorityInv' /\ [BatchIsTop]_(S!vars)
  BY <1>2, PriorityKeeps
<1>4. PriorityInv => S!TypeOK
  BY PriorityIsTyped
<1>5. TopOfWindow <=> []S!TypeOK /\ [][BatchIsTop]_(S!vars)
  BY Zenon DEF TopOfWindow, S!TopOfWindow, BatchIsTop
<1> QED
  BY <1>1, <1>3, <1>4, <1>5, PTL DEF Spec
=============================================================================

----------------------- MODULE PortfolioEngine_proofs -----------------------
(***************************************************************************)
(* Proofs about PortfolioEngine: the ledger of the portfolio balances      *)
(* after every handler, for every bankroll, cap, set of markets and input. *)
(***************************************************************************)
EXTENDS PortfolioEngine, SumTheorems

\* What the three functions on the state keep true: a well-typed state whose
\* cash and positions add up and whose unrealised total is a sum.  The cap is
\* not part of it: apply_execution exceeds it until positions are trimmed.
Balanced(s) ==
  /\ IsState(s)
  /\ s.cash + TotalDeployed(s) = Bankroll
  /\ s.cash >= 0
  /\ \A m \in DOMAIN s.positions : s.positions[m].size >= 0
  /\ s.total_unrealized_pnl = SumFunction(UnrealizedOf(s.positions))

\* The books of a map of positions: finite domain, integer sizes and marks.
LEMMA BookFacts ==
  ASSUME NEW p, IsMap(p, Markets, Positions)
  PROVE  /\ IsFiniteSet(DOMAIN p)
         /\ DOMAIN SizeOf(p) = DOMAIN p /\ DOMAIN UnrealizedOf(p) = DOMAIN p
         /\ \A m \in DOMAIN p : /\ SizeOf(p)[m] = p[m].size
                                /\ SizeOf(p)[m] \in Int
                                /\ UnrealizedOf(p)[m] = p[m].unrealized_pnl
                                /\ UnrealizedOf(p)[m] \in Int
<1>1. IsFiniteSet(DOMAIN p)
  BY PortfolioConstants, FS_Subset DEF IsMap
<1>2. \A m \in DOMAIN p : p[m] \in Positions
  BY DEF IsMap
<1> QED
  BY <1>1, <1>2 DEF SizeOf, UnrealizedOf, Positions

\* Closing positions keeps the ledger balanced: what leaves the book returns
\* to cash, and its mark leaves the unrealised total.
LEMMA CloseBalanced ==
  ASSUME NEW s, Balanced(s), NEW closing \in SUBSET (DOMAIN s.positions),
         NEW pnl, \A m \in closing : pnl[m] \in Int
  PROVE  /\ Balanced(CloseAll(s, closing, pnl))
         /\ CloseAll(s, closing, pnl).positions = RemoveAll(s.positions, closing)
<1> DEFINE c == CloseAll(s, closing, pnl)
           D == DOMAIN s.positions
           kept == D \ closing
<1>1. /\ IsFiniteSet(D) /\ IsFiniteSet(closing) /\ IsFiniteSet(kept)
      /\ \A W \in SUBSET closing : IsFiniteSet(W)
  <2>1. IsFiniteSet(D)
    BY BookFacts DEF Balanced, IsState
  <2> QED
    BY <2>1, FS_Subset
<1>2. \A m \in D : /\ SizeOf(s.positions)[m] = s.positions[m].size
                   /\ SizeOf(s.positions)[m] \in Int
                   /\ UnrealizedOf(s.positions)[m] \in Int
  BY BookFacts DEF Balanced, IsState
<1>3. /\ c.positions = [m \in kept |-> s.positions[m]]
      /\ c.positions = RemoveAll(s.positions, closing)
      /\ c.total_realized_pnl = s.total_realized_pnl + SumFunctionOnSet(pnl, closing)
      /\ c.total_unrealized_pnl = s.total_unrealized_pnl
                                  - SumFunctionOnSet(UnrealizedOf(s.positions), closing)
      /\ c.cash = s.cash + SumFunctionOnSet(SizeOf(s.positions), closing)
      /\ c.pnl_by_source = [src \in DOMAIN s.pnl_by_source |->
            s.pnl_by_source[src] + SumFunctionOnSet(pnl,
                                      {m \in closing : s.positions[m].source = src})]
      /\ c = [positions |-> c.positions, cash |-> c.cash,
              total_realized_pnl |-> c.total_realized_pnl,
              total_unrealized_pnl |-> c.total_unrealized_pnl,
              pnl_by_source |-> c.pnl_by_source]
  BY DEF Balanced, IsState, CloseAll, RemoveAll, Restrict
<1>4. IsMap(c.positions, Markets, Positions)
  BY <1>3 DEF Balanced, IsState, IsMap
<1>5. c.pnl_by_source \in [Sources \ {NoSource} -> Int]
  <2>1. \A src \in Sources \ {NoSource} :
           SumFunctionOnSet(pnl, {m \in closing : s.positions[m].source = src}) \in Int
    BY <1>1, SumType
  <2> QED
    BY <1>3, <2>1 DEF Balanced, IsState
<1>6. /\ SumFunctionOnSet(pnl, closing) \in Int
      /\ SumFunctionOnSet(UnrealizedOf(s.positions), closing) \in Int
      /\ SumFunctionOnSet(SizeOf(s.positions), closing) \in Nat
  <2>1. \A m \in closing : SizeOf(s.positions)[m] \in Nat
    BY <1>2 DEF Balanced
  <2> QED
    BY <1>1, <1>2, <2>1, SumType, SumNat
<1>7. IsState(c)
  BY <1>3, <1>4, <1>5, <1>6 DEF Balanced, IsState
<1>8. TotalDeployed(s) = SumFunctionOnSet(SizeOf(s.positions), closing) + TotalDeployed(c)
  <2>1. SumFunctionOnSet(SizeOf(c.positions), kept) = SumFunctionOnSet(SizeOf(s.positions), kept)
    <3>1. \A m \in kept : SizeOf(c.positions)[m] = SizeOf(s.positions)[m]
      BY <1>3 DEF SizeOf
    <3> QED
      BY <1>1, <1>2, <3>1, SumCong
  <2>2. SumFunctionOnSet(SizeOf(s.positions), D) =
          SumFunctionOnSet(SizeOf(s.positions), closing)
          + SumFunctionOnSet(SizeOf(s.positions), kept)
    BY <1>1, <1>2, SumSplit
  <2>3. DOMAIN SizeOf(s.positions) = D /\ DOMAIN SizeOf(c.positions) = kept
    BY <1>3 DEF SizeOf
  <2> HIDE DEF c, kept
  <2> QED
    BY <2>1, <2>2, <2>3 DEF TotalDeployed, SumFunction
<1>9. c.total_unrealized_pnl = SumFunction(UnrealizedOf(c.positions))
  <2>1. SumFunctionOnSet(UnrealizedOf(c.positions), kept)
          = SumFunctionOnSet(UnrealizedOf(s.positions), kept)
    <3>1. \A m \in kept : UnrealizedOf(c.positions)[m] = UnrealizedOf(s.positions)[m]
      BY <1>3 DEF UnrealizedOf
    <3> QED
      BY <1>1, <1>2, <3>1, SumCong
  <2>2. SumFunctionOnSet(UnrealizedOf(s.positions), D) =
          SumFunctionOnSet(UnrealizedOf(s.positions), closing)
          + SumFunctionOnSet(UnrealizedOf(s.positions), kept)
    BY <1>1, <1>2, SumSplit
  <2>3. DOMAIN UnrealizedOf(s.positions) = D /\ DOMAIN UnrealizedOf(c.positions) = kept
    BY <1>3 DEF UnrealizedOf
  <2>4. SumFunctionOnSet(UnrealizedOf(s.positions), kept) \in Int
    BY <1>1, <1>2, SumType
  <2> HIDE DEF c, kept
  <2> QED
    BY <1>3, <1>6, <2>1, <2>2, <2>3, <2>4 DEF SumFunction, Balanced
<1>10. TotalDeployed(c) \in Int
  <2>1. \A m \in DOMAIN c.positions : SizeOf(c.positions)[m] \in Int
    BY <1>4, BookFacts
  <2>2. IsFiniteSet(DOMAIN c.positions) /\ DOMAIN SizeOf(c.positions) = DOMAIN c.positions
    BY <1>4, BookFacts
  <2> QED
    BY <2>1, <2>2, SumType DEF TotalDeployed, SumFunction
<1>11. /\ c.cash + TotalDeployed(c) = Bankroll
       /\ c.cash >= 0
  BY <1>3, <1>6, <1>8, <1>10 DEF Balanced, IsState
<1>12. \A m \in DOMAIN c.positions : c.positions[m].size >= 0
  BY <1>3 DEF Balanced
<1> QED
  BY <1>3, <1>7, <1>9, <1>11, <1>12 DEF Balanced

\* Adding a position of a market that has none adds its size and its mark to
\* the two sums.
LEMMA InsertSums ==
  ASSUME NEW p, IsMap(p, Markets, Positions), NEW m \in Markets, m \notin DOMAIN p,
         NEW pos \in Positions
  PROVE  /\ IsMap(Insert(p, m, pos), Markets, Positions)
         /\ SumFunction(SizeOf(Insert(p, m, pos))) = SumFunction(SizeOf(p)) + pos.size
         /\ SumFunction(UnrealizedOf(Insert(p, m, pos)))
              = SumFunction(UnrealizedOf(p)) + pos.unrealized_pnl
<1> DEFINE q == Insert(p, m, pos)
           D == DOMAIN p
           E == DOMAIN q
<1>1. E = D \cup {m} /\ q[m] = pos /\ \A k \in D : q[k] = p[k]
  BY DEF Insert
<1>2. IsMap(q, Markets, Positions)
  BY DEF Insert, IsMap
<1>3. E \ {m} = D /\ m \in E
  BY <1>1
<1>4. /\ IsFiniteSet(D) /\ IsFiniteSet(E)
      /\ DOMAIN SizeOf(p) = D /\ DOMAIN SizeOf(q) = E
      /\ DOMAIN UnrealizedOf(p) = D /\ DOMAIN UnrealizedOf(q) = E
      /\ \A k \in D : SizeOf(p)[k] \in Int /\ UnrealizedOf(p)[k] \in Int
      /\ \A k \in E : SizeOf(q)[k] \in Int /\ UnrealizedOf(q)[k] \in Int
  BY <1>2, BookFacts
<1>5. /\ SizeOf(q)[m] = pos.size /\ UnrealizedOf(q)[m] = pos.unrealized_pnl
      /\ \A k \in D : SizeOf(q)[k] = SizeOf(p)[k] /\ UnrealizedOf(q)[k] = UnrealizedOf(p)[k]
  BY <1>1 DEF SizeOf, UnrealizedOf
<1> HIDE DEF q, D, E
<1>6. /\ SumFunctionOnSet(SizeOf(q), E) = SizeOf(q)[m] + SumFunctionOnSet(SizeOf(q), E \ {m})
      /\ SumFunctionOnSet(UnrealizedOf(q), E)
           = UnrealizedOf(q)[m] + SumFunctionOnSet(UnrealizedOf(q), E \ {m})
  BY <1>3, <1>4, SumRemove
<1>7. /\ SumFunctionOnSet(SizeOf(q), D) = SumFunctionOnSet(SizeOf(p), D)
      /\ SumFunctionOnSet(UnrealizedOf(q), D) = SumFunctionOnSet(UnrealizedOf(p), D)
  BY <1>4, <1>5, SumCong
<1>8. /\ SumFunctionOnSet(SizeOf(p), D) \in Int
      /\ SumFunctionOnSet(UnrealizedOf(p), D) \in Int
      /\ pos.size \in Int /\ pos.unrealized_pnl \in Int
  BY <1>4, SumType DEF Positions
<1>10. /\ SumFunctionOnSet(SizeOf(q), E \ {m}) = SumFunctionOnSet(SizeOf(p), D)
       /\ SumFunctionOnSet(UnrealizedOf(q), E \ {m}) = SumFunctionOnSet(UnrealizedOf(p), D)
  BY <1>3, <1>7
<1>9. /\ SumFunction(SizeOf(q)) = SumFunction(SizeOf(p)) + pos.size
      /\ SumFunction(UnrealizedOf(q)) = SumFunction(UnrealizedOf(p)) + pos.unrealized_pnl
  BY <1>4, <1>5, <1>6, <1>8, <1>10 DEF SumFunction
<1> QED
  BY <1>2, <1>9 DEF q

\* A gain is an integer.
LEMMA PnlType ==
  ASSUME NEW pos \in Positions, NEW price \in Int
  PROVE  PnlAt(pos, price) \in Int
  BY DEF PnlAt, Positions

\* Nothing is realised between two states.
SameRealized(a, s) ==
  /\ a.total_realized_pnl = s.total_realized_pnl
  /\ a.pnl_by_source = s.pnl_by_source

\* apply_execution keeps the ledger balanced, realises nothing but the PnL of the
\* position it replaces, and leaves every position but the
\* one it opens, which has no mark yet, as it was.
LEMMA ExecutionBalanced ==
  ASSUME NEW s, Balanced(s), NEW t \in Int, NEW ex \in Executions(t)
  PROVE  LET a == ApplyExecution(s, ex)
         IN  /\ Balanced(a)
             /\ \A m \in DOMAIN a.positions :
                   \/ m \in DOMAIN s.positions /\ a.positions[m] = s.positions[m]
                   \/ /\ a.positions[m].unrealized_pnl = 0 /\ ~a.positions[m].priced
                      /\ a.positions[m].opened_at = ex.timestamp
                      /\ a.positions[m].size <= ex.executed_quantity
             /\ ~ex.filled => a = s
             /\ \/ SameRealized(a, s)
                \/ SameRealized(a, CloseReplaced(s, ex))
<1> DEFINE a == ApplyExecution(s, ex)
           old == {ex.market_id} \cap DOMAIN s.positions
           pnl == [m \in old |-> PnlAt(s.positions[m], ex.market_prob)]
           closed == CloseAll(s, old, pnl)
           size == OpenSize(closed, ex)
<1>1. /\ ex.market_id \in Markets /\ ex.direction \in Directions
      /\ ex.executed_quantity \in Nat /\ ex.avg_price \in Int /\ ex.market_prob \in Int
      /\ ex.source \in Sources /\ ex.timestamp \in Int
  <2>1. /\ ex.market_id \in Markets /\ ex.direction \in Directions
        /\ ex.executed_quantity \in Quantities /\ ex.avg_price \in Prices
        /\ ex.market_prob \in Prices /\ ex.source \in Sources
        /\ ex.timestamp \in (t - MaxLag)..t
    BY Zenon DEF Executions
  <2>2. /\ Quantities \subseteq Nat /\ Prices \subseteq Int /\ MaxLag \in Int
        /\ \A x \in (t - MaxLag)..t : x \in Int
    BY PortfolioConstants
  <2> QED
    BY <2>1, <2>2, Zenon
<1>2. \A m \in old : pnl[m] \in Int
  BY <1>1, PnlType DEF Balanced, IsState, IsMap
<1>0. closed = CloseReplaced(s, ex)
  BY DEF CloseReplaced
<1>3. /\ Balanced(closed)
      /\ closed.positions = RemoveAll(s.positions, old)
  <2> HIDE DEF pnl
  <2> QED
    BY <1>2, CloseBalanced
<1>4. a = IF ~ex.filled THEN s
          ELSE IF size <= 0 THEN closed
          ELSE [closed EXCEPT !.cash = @ - size,
                  !.positions = Insert(@, ex.market_id, NewPosition(ex, size, 0))]
  BY DEF ApplyExecution, CloseReplaced
<1>5. /\ \A m \in DOMAIN closed.positions :
            m \in DOMAIN s.positions /\ closed.positions[m] = s.positions[m]
      /\ ex.market_id \notin DOMAIN closed.positions
  BY <1>3 DEF RemoveAll, Restrict
<1> HIDE DEF closed
<1>6. size \in Int /\ size <= closed.cash /\ size <= ex.executed_quantity
  <2>1. closed.cash \in Int /\ closed.cash >= 0
    BY <1>3 DEF Balanced, IsState
  <2> QED
    BY <1>1, <2>1 DEF OpenSize, MinOf, MaxOf
<1> HIDE DEF size
<1>7. CASE ~ex.filled
  BY <1>1, <1>4, <1>7 DEF SameRealized
<1>8. CASE ex.filled /\ size <= 0
  BY <1>0, <1>1, <1>3, <1>4, <1>5, <1>8 DEF SameRealized
<1>9. CASE ex.filled /\ ~(size <= 0)
  <2> DEFINE pos == NewPosition(ex, size, 0)
             p == closed.positions
             q == Insert(p, ex.market_id, pos)
  <2>1. /\ pos \in Positions /\ pos.size = size /\ pos.unrealized_pnl = 0
        /\ pos.opened_at = ex.timestamp /\ ~pos.priced
    BY <1>1, <1>6 DEF NewPosition, Positions
  <2>2. IsMap(p, Markets, Positions) /\ IsState(closed)
    BY <1>3 DEF Balanced, IsState
  <2>3. /\ a.positions = q /\ a.cash = closed.cash - size
        /\ a.total_realized_pnl = closed.total_realized_pnl
        /\ a.total_unrealized_pnl = closed.total_unrealized_pnl
        /\ a.pnl_by_source = closed.pnl_by_source
        /\ a = [positions |-> a.positions, cash |-> a.cash,
                total_realized_pnl |-> a.total_realized_pnl,
                total_unrealized_pnl |-> a.total_unrealized_pnl,
                pnl_by_source |-> a.pnl_by_source]
    <3>1. a = [closed EXCEPT !.cash = @ - size, !.positions = q]
      BY <1>1, <1>4, <1>9
    <3> HIDE DEF q, a
    <3> QED
      BY <2>2, <3>1 DEF IsState
  <2> HIDE DEF pos
  <2>4. /\ IsMap(q, Markets, Positions)
        /\ SumFunction(SizeOf(q)) = SumFunction(SizeOf(p)) + size
        /\ SumFunction(UnrealizedOf(q)) = SumFunction(UnrealizedOf(p)) + 0
    BY <1>1, <1>5, <2>1, <2>2, InsertSums
  <2>5. /\ DOMAIN q = DOMAIN p \cup {ex.market_id} /\ q[ex.market_id] = pos
        /\ \A m \in DOMAIN p : q[m] = p[m]
    BY <1>5 DEF Insert
  <2> HIDE DEF p, q, a
  <2>6. IsState(a)
    BY <1>6, <2>2, <2>3, <2>4 DEF IsState
  <2>7. /\ a.cash + TotalDeployed(a) = Bankroll
        /\ a.cash >= 0
    <3>1. SumFunction(SizeOf(p)) \in Int
      BY <2>2, BookFacts, SumType DEF SumFunction, p
    <3>2. closed.cash + SumFunction(SizeOf(p)) = Bankroll /\ closed.cash \in Int
      BY <1>3 DEF Balanced, IsState, TotalDeployed, p
    <3> QED
      BY <1>6, <2>3, <2>4, <3>1, <3>2 DEF TotalDeployed
  <2>8. a.total_unrealized_pnl = SumFunction(UnrealizedOf(a.positions))
    BY <1>3, <2>3, <2>4 DEF Balanced, IsState, p
  <2>9. \A m \in DOMAIN a.positions : a.positions[m].size >= 0
    <3>1. \A m \in DOMAIN p : p[m].size >= 0
      BY <1>3 DEF Balanced, p
    <3>2. pos.size >= 0
      BY <1>6, <1>9, <2>1
    <3> QED
      BY <2>3, <2>5, <3>1, <3>2
  <2>10. Balanced(a)
    BY <2>6, <2>7, <2>8, <2>9 DEF Balanced
  <2>11. \A m \in DOMAIN a.positions :
             \/ m \in DOMAIN s.positions /\ a.positions[m] = s.positions[m]
             \/ /\ a.positions[m].unrealized_pnl = 0 /\ ~a.positions[m].priced
                /\ a.positions[m].opened_at = ex.timestamp
                /\ a.positions[m].size <= ex.executed_quantity
    BY <1>5, <1>6, <2>1, <2>3, <2>5 DEF p
  <2>12. SameRealized(a, CloseReplaced(s, ex))
    BY <1>0, <2>3 DEF SameRealized
  <2> QED
    BY <1>9, <2>10, <2>11, <2>12 DEF a
<1> HIDE DEF a
<1> QED
  BY <1>7, <1>8, <1>9 DEF a

\* recalculate_unrealized keeps the ledger balanced: it changes marks and the
\* total it recomputes, no size.
LEMMA MarkBalanced ==
  ASSUME NEW s, Balanced(s), NEW market, NEW price \in Int
  PROVE  LET a == RecalculateUnrealized(s, market, price)
         IN  /\ Balanced(a) /\ SameRealized(a, s)
             /\ DOMAIN a.positions = DOMAIN s.positions
             /\ \A m \in DOMAIN s.positions :
                   /\ a.positions[m].size = s.positions[m].size
                   /\ a.positions[m].direction = s.positions[m].direction
                   /\ a.positions[m].avg_price = s.positions[m].avg_price
                   /\ a.positions[m].opened_at = s.positions[m].opened_at
                   /\ \/ a.positions[m] = s.positions[m]
                      \/ /\ a.positions[m].priced
                         /\ a.positions[m].unrealized_pnl = AtLastPrice(a.positions[m])
<1> DEFINE a == RecalculateUnrealized(s, market, price)
           p == s.positions
           D == DOMAIN p
           q == [m \in D |-> IF m = market
                             THEN [p[m] EXCEPT !.last_market_price = price,
                                               !.priced            = TRUE,
                                               !.unrealized_pnl    = PnlAt(p[m], price)]
                             ELSE p[m]]
<1>1. IsState(s) /\ IsMap(p, Markets, Positions)
  BY DEF Balanced, IsState
<1>2. \A m \in D : /\ p[m] \in Positions /\ PnlAt(p[m], price) \in Int
                   /\ q[m] \in Positions
                   /\ q[m].size = p[m].size /\ q[m].direction = p[m].direction
                   /\ q[m].avg_price = p[m].avg_price /\ q[m].opened_at = p[m].opened_at
                   /\ \/ q[m] = p[m]
                      \/ q[m].priced /\ q[m].unrealized_pnl = AtLastPrice(q[m])
  <2> SUFFICES ASSUME NEW m \in D
               PROVE  /\ p[m] \in Positions /\ PnlAt(p[m], price) \in Int
                      /\ q[m] \in Positions
                      /\ q[m].size = p[m].size /\ q[m].direction = p[m].direction
                      /\ q[m].avg_price = p[m].avg_price /\ q[m].opened_at = p[m].opened_at
                      /\ \/ q[m] = p[m]
                         \/ q[m].priced /\ q[m].unrealized_pnl = AtLastPrice(q[m])
    OBVIOUS
  <2>1. p[m] \in Positions
    BY <1>1 DEF IsMap
  <2>2. PnlAt(p[m], price) \in Int
    BY <2>1, PnlType
  <2> DEFINE r == [p[m] EXCEPT !.last_market_price = price,
                               !.priced            = TRUE,
                               !.unrealized_pnl    = PnlAt(p[m], price)]
  <2>3. /\ r \in Positions /\ r.size = p[m].size /\ r.direction = p[m].direction
        /\ r.avg_price = p[m].avg_price /\ r.opened_at = p[m].opened_at
        /\ r.last_market_price = price /\ r.unrealized_pnl = PnlAt(p[m], price)
        /\ r.priced
    BY <2>1, <2>2 DEF Positions
  <2>4. AtLastPrice(r) = PnlAt(p[m], price)
    BY <2>3 DEF AtLastPrice, PnlAt
  <2>5. q[m] = IF m = market THEN r ELSE p[m]
    OBVIOUS
  <2> HIDE DEF q, r
  <2> QED
    BY <2>1, <2>2, <2>3, <2>4, <2>5
<1>3. /\ a.positions = q /\ a.cash = s.cash
      /\ a.total_realized_pnl = s.total_realized_pnl
      /\ a.total_unrealized_pnl = SumFunction(UnrealizedOf(q))
      /\ a.pnl_by_source = s.pnl_by_source
      /\ a = [positions |-> a.positions, cash |-> a.cash,
              total_realized_pnl |-> a.total_realized_pnl,
              total_unrealized_pnl |-> a.total_unrealized_pnl,
              pnl_by_source |-> a.pnl_by_source]
  <2>1. a = [s EXCEPT !.positions = q,
                      !.total_unrealized_pnl = SumFunction(UnrealizedOf(q))]
    BY DEF RecalculateUnrealized
  <2> HIDE DEF a, q
  <2> QED
    BY <1>1, <2>1 DEF IsState
<1>4. DOMAIN q = D /\ IsMap(q, Markets, Positions)
  <2>1. DOMAIN q = D /\ q = [m \in D |-> q[m]]
    OBVIOUS
  <2> HIDE DEF q
  <2> QED
    BY <1>1, <1>2, <2>1, SMTT(40) DEF IsMap
<1> HIDE DEF a, q
<1>5. SumFunction(UnrealizedOf(q)) \in Int
  BY <1>4, BookFacts, SumType DEF SumFunction
<1>6. SumFunction(SizeOf(q)) = SumFunction(SizeOf(p))
  <2>1. \A m \in D : SizeOf(q)[m] = SizeOf(p)[m] /\ SizeOf(p)[m] \in Int
    BY <1>1, <1>2, <1>4, BookFacts
  <2>2. IsFiniteSet(D) /\ DOMAIN SizeOf(q) = D /\ DOMAIN SizeOf(p) = D
    BY <1>1, <1>4, BookFacts
  <2> QED
    BY <2>1, <2>2, SumCong DEF SumFunction
<1>7. Balanced(a)
  BY <1>1, <1>2, <1>3, <1>4, <1>5, <1>6 DEF Balanced, IsState, TotalDeployed
<1> QED
  BY <1>2, <1>3, <1>4, <1>7 DEF a, SameRealized

Capped(s) == \A m \in DOMAIN s.positions : s.positions[m].size \in 0..MaxPosition

\* apply_risk_adjustments keeps the ledger balanced and enforces the cap; it
\* changes nothing of a position within the cap.
LEMMA TrimBalanced ==
  ASSUME NEW s, Balanced(s)
  PROVE  LET a == ApplyRiskAdjustments(s)
         IN  /\ Balanced(a) /\ Capped(a) /\ SameRealized(a, s)
             /\ DOMAIN a.positions = DOMAIN s.positions
             /\ \A m \in DOMAIN s.positions :
                   /\ a.positions[m].opened_at = s.positions[m].opened_at
                   /\ a.positions[m].unrealized_pnl = s.positions[m].unrealized_pnl
                   /\ a.positions[m].priced = s.positions[m].priced
                   /\ s.positions[m].size <= MaxPosition => a.positions[m] = s.positions[m]
<1> DEFINE a == ApplyRiskAdjustments(s)
           p == s.positions
           D == DOMAIN p
           q == TrimmedBook(p)
           excess == [m \in D |-> p[m].size - Trimmed(p[m])]
<1>1. IsState(s) /\ IsMap(p, Markets, Positions)
  BY DEF Balanced, IsState
<1>2. \A m \in D : /\ p[m] \in Positions /\ p[m].size \in Nat
                   /\ Trimmed(p[m]) \in 0..MaxPosition
                   /\ Trimmed(p[m]) <= p[m].size
                   /\ p[m].size <= MaxPosition => Trimmed(p[m]) = p[m].size
  BY <1>1, PortfolioConstants DEF IsMap, Positions, Trimmed, MinOf, Balanced
<1>3. \A m \in D : /\ q[m] \in Positions
                   /\ q[m].size = Trimmed(p[m])
                   /\ q[m].unrealized_pnl = p[m].unrealized_pnl /\ q[m].priced = p[m].priced
                   /\ q[m].opened_at = p[m].opened_at
                   /\ p[m].size <= MaxPosition => q[m] = p[m]
  <2> SUFFICES ASSUME NEW m \in D
               PROVE  /\ q[m] \in Positions
                      /\ q[m].size = Trimmed(p[m])
                      /\ q[m].unrealized_pnl = p[m].unrealized_pnl /\ q[m].priced = p[m].priced
                      /\ q[m].opened_at = p[m].opened_at
                      /\ p[m].size <= MaxPosition => q[m] = p[m]
    OBVIOUS
  <2>1. q[m] = [p[m] EXCEPT !.size = Trimmed(p[m])]
    BY DEF TrimmedBook
  <2>2. p[m] \in Positions /\ Trimmed(p[m]) \in Int
    BY <1>2, PortfolioConstants
  <2> HIDE DEF q
  <2>3. /\ q[m] \in Positions
        /\ q[m].size = Trimmed(p[m])
        /\ q[m].unrealized_pnl = p[m].unrealized_pnl /\ q[m].priced = p[m].priced
        /\ q[m].opened_at = p[m].opened_at
    BY <2>1, <2>2 DEF Positions
  <2>4. ASSUME p[m].size <= MaxPosition PROVE q[m] = p[m]
    <3>1. Trimmed(p[m]) = p[m].size
      BY <1>2, <2>4
    <3> QED
      BY <2>1, <2>2, <3>1 DEF Positions
  <2> QED
    BY <2>3, <2>4
<1>4. DOMAIN q = D /\ IsMap(q, Markets, Positions)
  <2>1. DOMAIN q = D /\ q = [m \in D |-> q[m]]
    BY DEF TrimmedBook
  <2> HIDE DEF q
  <2> QED
    BY <1>1, <1>3, <2>1 DEF IsMap
<1>5. /\ a.positions = q /\ a.cash = s.cash + SumFunction(excess)
      /\ a.total_realized_pnl = s.total_realized_pnl
      /\ a.total_unrealized_pnl = s.total_unrealized_pnl
      /\ a.pnl_by_source = s.pnl_by_source
      /\ a = [positions |-> a.positions, cash |-> a.cash,
              total_realized_pnl |-> a.total_realized_pnl,
              total_unrealized_pnl |-> a.total_unrealized_pnl,
              pnl_by_source |-> a.pnl_by_source]
  <2>1. a = [s EXCEPT !.positions = q, !.cash = @ + SumFunction(excess)]
    BY DEF ApplyRiskAdjustments
  <2> HIDE DEF a, q, excess
  <2> QED
    BY <1>1, <2>1 DEF IsState
<1>6. /\ IsFiniteSet(D) /\ DOMAIN excess = D
      /\ DOMAIN SizeOf(p) = D /\ DOMAIN SizeOf(q) = D
      /\ DOMAIN UnrealizedOf(p) = D /\ DOMAIN UnrealizedOf(q) = D
  BY <1>1, <1>4, BookFacts
<1>7. \A m \in D : /\ excess[m] \in Nat
                   /\ SizeOf(q)[m] \in Int
                   /\ SizeOf(p)[m] = SizeOf(q)[m] + excess[m]
                   /\ UnrealizedOf(p)[m] \in Int
                   /\ UnrealizedOf(q)[m] = UnrealizedOf(p)[m]
  <2>1. \A m \in D : /\ SizeOf(p)[m] = p[m].size /\ SizeOf(q)[m] = q[m].size
                     /\ UnrealizedOf(p)[m] \in Int
                     /\ UnrealizedOf(p)[m] = p[m].unrealized_pnl
                     /\ UnrealizedOf(q)[m] = q[m].unrealized_pnl
    BY <1>1, <1>4, BookFacts
  <2>2. \A m \in D : excess[m] = p[m].size - Trimmed(p[m])
    OBVIOUS
  <2>3. \A m \in D : Trimmed(p[m]) \in Int /\ p[m].size \in Nat /\ Trimmed(p[m]) <= p[m].size
    BY <1>2, PortfolioConstants
  <2> HIDE DEF q, excess
  <2> QED
    BY <1>3, <2>1, <2>2, <2>3
<1> HIDE DEF a, q, excess
<1>8. /\ SumFunction(SizeOf(p)) = SumFunction(SizeOf(q)) + SumFunction(excess)
      /\ SumFunction(excess) \in Nat /\ SumFunction(SizeOf(q)) \in Int
      /\ SumFunction(UnrealizedOf(q)) = SumFunction(UnrealizedOf(p))
  <2>1. SumFunctionOnSet(SizeOf(p), D)
          = SumFunctionOnSet(SizeOf(q), D) + SumFunctionOnSet(excess, D)
    BY <1>6, <1>7, SumAdd
  <2>2. SumFunctionOnSet(excess, D) \in Nat
    BY <1>6, <1>7, SumNat
  <2>3. SumFunctionOnSet(SizeOf(q), D) \in Int
    BY <1>6, <1>7, SumType
  <2>4. SumFunctionOnSet(UnrealizedOf(q), D) = SumFunctionOnSet(UnrealizedOf(p), D)
    BY <1>6, <1>7, SumCong
  <2> QED
    BY <1>6, <2>1, <2>2, <2>3, <2>4 DEF SumFunction
<1>9. IsState(a)
  BY <1>1, <1>4, <1>5, <1>8 DEF IsState
<1>10. a.cash + TotalDeployed(a) = Bankroll /\ a.cash >= 0
  BY <1>1, <1>5, <1>8, PortfolioConstants DEF Balanced, IsState, TotalDeployed
<1>11. \A m \in DOMAIN a.positions : a.positions[m].size \in 0..MaxPosition
  <2>1. \A m \in D : q[m].size \in 0..MaxPosition
    BY <1>2, <1>3
  <2> QED
    BY <1>4, <1>5, <2>1
<1>12. Balanced(a) /\ Capped(a)
  BY <1>5, <1>8, <1>9, <1>10, <1>11, PortfolioConstants DEF Balanced, Capped
<1> QED
  BY <1>3, <1>4, <1>5, <1>12 DEF a, SameRealized

\* The update put on the wire has its type.
LEMMA UpdateType ==
  ASSUME NEW s, Balanced(s)
  PROVE  /\ IsMap(ToPortfolioUpdate(s).positions, Markets, WirePositions)
         /\ ToPortfolioUpdate(s).pnl \in Int
         /\ ToPortfolioUpdate(s).exposure \in Int
<1>1. IsMap(s.positions, Markets, Positions)
  BY DEF Balanced, IsState
<1>2. TotalDeployed(s) \in Int
  BY <1>1, BookFacts, SumType DEF TotalDeployed, SumFunction
<1>3. TotalPnl(s) \in Int
  BY DEF Balanced, IsState, TotalPnl
<1>4. IsMap(ToPortfolioUpdate(s).positions, Markets, WirePositions)
  BY <1>1 DEF ToPortfolioUpdate, IsMap, WirePositions, Positions
<1> QED
  BY <1>2, <1>3, <1>4 DEF ToPortfolioUpdate

\* Positions and exposure on the wire only depend on direction, size and entry
\* price of the positions.
LEMMA SameWire ==
  ASSUME NEW s, Balanced(s), NEW a, Balanced(a),
         DOMAIN a.positions = DOMAIN s.positions,
         \A m \in DOMAIN s.positions :
            /\ a.positions[m].size = s.positions[m].size
            /\ a.positions[m].direction = s.positions[m].direction
            /\ a.positions[m].avg_price = s.positions[m].avg_price
  PROVE  /\ ToPortfolioUpdate(a).positions = ToPortfolioUpdate(s).positions
         /\ ToPortfolioUpdate(a).exposure = ToPortfolioUpdate(s).exposure
<1>1. SizeOf(a.positions) = SizeOf(s.positions)
  BY DEF SizeOf
<1> QED
  BY <1>1 DEF ToPortfolioUpdate, TotalDeployed

(***************************************************************************)
(* The inductive invariant.  The ledger (Balanced) is inductive only with  *)
(* the types; the marks and the wire need the cap as well, because a trim  *)
(* of a position that was already marked or published would leave a stale  *)
(* mark or a stale update behind.                                          *)
(***************************************************************************)
IInv ==
  /\ TypeOK
  /\ Balanced(st)
  /\ Capped(st)
  /\ MarkIsCurrent
  /\ WireIsCurrent

\* The initial state satisfies the inductive invariant.
LEMMA InitIInv == Init => IInv
<1> SUFFICES ASSUME Init PROVE IInv
  OBVIOUS
<1>1. /\ st = NewState /\ wire = ToPortfolioUpdate(st)
      /\ DOMAIN st.positions = {}
  BY DEF Init, NewState, EmptyMap
<1>2. IsState(st)
  BY <1>1, PortfolioConstants DEF NewState, IsState, IsMap, EmptyMap
<1>3. SumFunction(SizeOf(st.positions)) = 0 /\ SumFunction(UnrealizedOf(st.positions)) = 0
  BY <1>1, FS_EmptySet, SumType DEF SumFunction, SizeOf, UnrealizedOf
<1>4. Balanced(st)
  BY <1>1, <1>2, <1>3, PortfolioConstants DEF Balanced, NewState, TotalDeployed
<1>5. Capped(st) /\ MarkIsCurrent
  BY <1>1 DEF Capped, MarkIsCurrent
<1>6. TypeOK /\ WireIsCurrent
  BY <1>1, <1>2, <1>4, UpdateType, PortfolioConstants DEF TypeOK, Init, WireIsCurrent
<1> QED
  BY <1>4, <1>5, <1>6 DEF IInv

\* Handling an Execution preserves the invariant.
LEMMA ExecutionIInv ==
  ASSUME IInv, NEW ex \in Executions(now), OnExecution(ex)
  PROVE  IInv'
<1> DEFINE a == ApplyExecution(st, ex)
           b == ApplyRiskAdjustments(a)
<1>1. /\ Balanced(st) /\ Capped(st) /\ now \in Int
      /\ st' = b
      /\ wire' = IF ex.filled THEN ToPortfolioUpdate(b) ELSE wire
      /\ UNCHANGED <<last_mtm_publish, next_tick, now>> /\ events' = events + 1
  BY DEF IInv, TypeOK, OnExecution
<1>2. /\ Balanced(a)
      /\ \A m \in DOMAIN a.positions :
            \/ m \in DOMAIN st.positions /\ a.positions[m] = st.positions[m]
            \/ a.positions[m].unrealized_pnl = 0 /\ ~a.positions[m].priced
      /\ ~ex.filled => a = st
  BY <1>1, ExecutionBalanced
<1> HIDE DEF a
<1>3. /\ Balanced(b) /\ Capped(b)
      /\ DOMAIN b.positions = DOMAIN a.positions
      /\ \A m \in DOMAIN a.positions :
            /\ b.positions[m].unrealized_pnl = a.positions[m].unrealized_pnl
            /\ b.positions[m].priced = a.positions[m].priced
            /\ a.positions[m].size <= MaxPosition => b.positions[m] = a.positions[m]
  BY <1>2, TrimBalanced
<1> HIDE DEF b
<1>4. \A m \in DOMAIN st.positions : st.positions[m].size <= MaxPosition
  BY <1>1, PortfolioConstants DEF Capped
<1>5. MarkIsCurrent'
  <2> SUFFICES ASSUME NEW m \in DOMAIN b.positions
               PROVE  b.positions[m].unrealized_pnl
                        = IF b.positions[m].priced THEN AtLastPrice(b.positions[m]) ELSE 0
    BY <1>1 DEF MarkIsCurrent
  <2>1. CASE m \in DOMAIN st.positions /\ a.positions[m] = st.positions[m]
    BY <1>3, <1>4, <2>1 DEF IInv, MarkIsCurrent
  <2>2. CASE a.positions[m].unrealized_pnl = 0 /\ ~a.positions[m].priced
    BY <1>3, <2>2
  <2> QED
    BY <1>2, <1>3, <2>1, <2>2
<1>6. WireIsCurrent'
  <2>1. CASE ex.filled
    BY <1>1, <2>1 DEF WireIsCurrent
  <2>2. CASE ~ex.filled
    <3>1. DOMAIN b.positions = DOMAIN st.positions
          /\ \A m \in DOMAIN st.positions : b.positions[m] = st.positions[m]
      BY <1>2, <1>3, <1>4, <2>2
    <3>2. /\ ToPortfolioUpdate(b).positions = ToPortfolioUpdate(st).positions
          /\ ToPortfolioUpdate(b).exposure = ToPortfolioUpdate(st).exposure
      BY <1>1, <1>3, <3>1, SameWire
    <3> QED
      BY <1>1, <2>2, <3>2 DEF IInv, WireIsCurrent
  <2> QED
    BY <2>1, <2>2
<1>7. TypeOK'
  BY <1>1, <1>3, UpdateType DEF IInv, TypeOK, Balanced
<1> QED
  BY <1>1, <1>3, <1>5, <1>6, <1>7 DEF IInv

\* Handling a Market price preserves the invariant.
LEMMA MarketIInv ==
  ASSUME IInv, NEW market \in Markets, NEW price \in Prices, OnMarket(market, price)
  PROVE  IInv'
<1> DEFINE a == RecalculateUnrealized(st, market, price)
           due == now - last_mtm_publish >= MtmInterval
<1>1. /\ Balanced(st) /\ Capped(st) /\ price \in Int
      /\ st' = a
      /\ wire' = IF due THEN ToPortfolioUpdate(a) ELSE wire
      /\ last_mtm_publish' = IF due THEN now ELSE last_mtm_publish
      /\ UNCHANGED <<next_tick, now>> /\ events' = events + 1
  BY PortfolioConstants DEF IInv, TypeOK, OnMarket
<1>2. /\ Balanced(a)
      /\ DOMAIN a.positions = DOMAIN st.positions
      /\ \A m \in DOMAIN st.positions :
            /\ a.positions[m].size = st.positions[m].size
            /\ a.positions[m].direction = st.positions[m].direction
            /\ a.positions[m].avg_price = st.positions[m].avg_price
            /\ \/ a.positions[m] = st.positions[m]
               \/ /\ a.positions[m].priced
                  /\ a.positions[m].unrealized_pnl = AtLastPrice(a.positions[m])
  BY <1>1, MarkBalanced
<1> HIDE DEF a, due
<1>3. Capped(a)
  BY <1>1, <1>2 DEF Capped
<1>4. MarkIsCurrent'
  BY <1>1, <1>2 DEF IInv, MarkIsCurrent
<1>5. WireIsCurrent'
  <2>1. /\ ToPortfolioUpdate(a).positions = ToPortfolioUpdate(st).positions
        /\ ToPortfolioUpdate(a).exposure = ToPortfolioUpdate(st).exposure
    BY <1>1, <1>2, SameWire
  <2> QED
    BY <1>1, <2>1 DEF IInv, WireIsCurrent
<1>6. TypeOK'
  BY <1>1, <1>2, UpdateType DEF IInv, TypeOK, Balanced
<1> QED
  BY <1>1, <1>2, <1>3, <1>4, <1>5, <1>6 DEF IInv

\* Expiry preserves the invariant.
LEMMA TtlIInv ==
  ASSUME IInv, OnTtlTick
  PROVE  IInv'
<1> DEFINE expired == Expired(st, now)
           pnl == ExpiryPnl(st, expired)
           c == CloseAll(st, expired, pnl)
<1>1. /\ Balanced(st) /\ Capped(st)
      /\ st' = IF expired = {} THEN st ELSE c
      /\ wire' = IF expired = {} THEN wire ELSE ToPortfolioUpdate(st')
      /\ next_tick' = next_tick + TtlPeriod
      /\ UNCHANGED <<last_mtm_publish, now, events>>
  BY DEF IInv, OnTtlTick
<1>2. /\ Balanced(c)
      /\ c.positions = RemoveAll(st.positions, expired)
  <2>1. expired \in SUBSET DOMAIN st.positions
    BY DEF Expired
  <2>2. \A m \in expired : pnl[m] \in Int
    BY <1>1, <2>1, BookFacts DEF ExpiryPnl, Balanced, IsState
  <2> HIDE DEF expired, pnl
  <2> QED
    BY <1>1, <2>1, <2>2, CloseBalanced
<1> HIDE DEF c, expired
<1>3. \A m \in DOMAIN c.positions : m \in DOMAIN st.positions /\ c.positions[m] = st.positions[m]
  BY <1>2 DEF RemoveAll, Restrict
<1>4. Capped(c) /\ Balanced(st')
  BY <1>1, <1>2, <1>3 DEF Capped
<1>5. MarkIsCurrent'
  BY <1>1, <1>3 DEF IInv, MarkIsCurrent
<1>6. WireIsCurrent'
  BY <1>1 DEF IInv, WireIsCurrent
<1>7. TypeOK'
  BY <1>1, <1>4, UpdateType, PortfolioConstants DEF IInv, TypeOK, Balanced
<1> QED
  BY <1>1, <1>4, <1>5, <1>6, <1>7 DEF IInv, Capped

\* The invariant holds in every reachable state: for every bankroll, cap, set
\* of markets, input and interleaving of fills, prices and expiries the ledger
\* balances, positions are capped, marks are current and subscribers know the
\* positions as they are.
THEOREM PortfolioInvariant == Spec => []IInv
<1>1. ASSUME IInv, [Next]_vars PROVE IInv'
  <2>1. ASSUME NEW ex \in Executions(now), OnExecution(ex) PROVE IInv'
    BY <1>1, <2>1, ExecutionIInv
  <2>2. ASSUME NEW market \in Markets, NEW price \in Prices, OnMarket(market, price)
        PROVE  IInv'
    BY <1>1, <2>2, MarketIInv
  <2>3. CASE OnTtlTick
    BY <1>1, <2>3, TtlIInv
  <2>4. CASE Advance
    BY <1>1, <2>4 DEF Advance, IInv, TypeOK, MarkIsCurrent, WireIsCurrent, Capped
  <2>5. CASE UNCHANGED vars
    BY <1>1, <2>5 DEF vars, IInv, TypeOK, MarkIsCurrent, WireIsCurrent, Capped
  <2> QED
    BY <1>1, <2>1, <2>2, <2>3, <2>4, <2>5 DEF Next
<1> QED
  BY <1>1, InitIInv, PTL DEF Spec

\* Types of the portfolio task's state.
THEOREM PortfolioTypes == Spec => []TypeOK
<1>1. IInv => TypeOK
  BY DEF IInv
<1> QED
  BY <1>1, PortfolioInvariant, PTL

\* Cash and positions always add up to the bankroll, and cash is not overdrawn.
THEOREM PortfolioCash == Spec => []CashConservation
<1>1. IInv => CashConservation
  BY DEF IInv, Balanced, CashConservation
<1> QED
  BY <1>1, PortfolioInvariant, PTL

\* The running unrealised total is the sum over the open positions.
THEOREM PortfolioUnrealized == Spec => []UnrealizedIsSum
<1>1. IInv => UnrealizedIsSum
  BY DEF IInv, Balanced, UnrealizedIsSum
<1> QED
  BY <1>1, PortfolioInvariant, PTL

\* No position is above the cap when a handler is done.
THEOREM PortfolioCaps == Spec => []PositionsCapped
<1>1. IInv => PositionsCapped
  BY DEF IInv, Capped, PositionsCapped
<1> QED
  BY <1>1, PortfolioInvariant, PTL

\* Subscribers know the positions and the exposure as they are.
THEOREM PortfolioWire == Spec => []WireIsCurrent
<1>1. IInv => WireIsCurrent
  BY DEF IInv
<1> QED
  BY <1>1, PortfolioInvariant, PTL

\* No mark belongs to another size or to a replaced position.
THEOREM PortfolioMarks == Spec => []MarkIsCurrent
<1>1. IInv => MarkIsCurrent
  BY DEF IInv
<1> QED
  BY <1>1, PortfolioInvariant, PTL

\* All that the ledger promises holds after every handler.
THEOREM PortfolioLedger == Spec => []Ledger
<1>1. TypeOK /\ CashConservation /\ UnrealizedIsSum /\ MarkIsCurrent /\ WireIsCurrent => Ledger
  BY DEF Ledger
<1> QED
  BY <1>1, PortfolioTypes, PortfolioCash, PortfolioUnrealized, PortfolioMarks, PortfolioWire, PTL

(***************************************************************************)
(* Attribution.  Every closing books the same PnL twice, once in the total *)
(* and once under a source: the positions closed are partitioned by source.*)
(***************************************************************************)
Attributed(s) == SumFunction(s.pnl_by_source) = s.total_realized_pnl

\* Closing positions keeps the PnL per source and the realised total equal.
LEMMA CloseAttributed ==
  ASSUME NoSource \notin Sources, NEW s, Balanced(s), Attributed(s),
         NEW closing \in SUBSET (DOMAIN s.positions),
         NEW pnl, \A m \in closing : pnl[m] \in Int
  PROVE  Attributed(CloseAll(s, closing, pnl))
<1> DEFINE c == CloseAll(s, closing, pnl)
           old == s.pnl_by_source
           new == c.pnl_by_source
           source == [m \in closing |-> s.positions[m].source]
           part == [src \in Sources |-> {m \in closing : s.positions[m].source = src}]
           booked == [src \in Sources |-> SumFunctionOnSet(pnl, part[src])]
<1>1. IsFiniteSet(Sources) /\ IsFiniteSet(closing)
  <2>1. IsFiniteSet(DOMAIN s.positions)
    BY BookFacts DEF Balanced, IsState
  <2> QED
    BY <2>1, FS_Subset, PortfolioConstants
<1>2. \A src \in Sources : booked[src] \in Int
  <2>1. \A src \in Sources : IsFiniteSet(part[src]) /\ part[src] \in SUBSET closing
    BY <1>1, FS_Subset
  <2> HIDE DEF part
  <2> QED
    BY <2>1, SumType
<1>3. \A m \in closing : source[m] \in Sources
  BY DEF Balanced, IsState, IsMap, Positions
<1>4. /\ DOMAIN old = Sources /\ DOMAIN new = Sources
      /\ \A src \in Sources : /\ old[src] \in Int
                              /\ new[src] = old[src] + booked[src]
  <2>1. old \in [Sources -> Int]
    BY DEF Balanced, IsState
  <2> QED
    BY <2>1 DEF CloseAll
<1>5. c.total_realized_pnl = s.total_realized_pnl + SumFunctionOnSet(pnl, closing)
  BY DEF CloseAll
<1>6. SumFunctionOnSet(booked, Sources) = SumFunctionOnSet(pnl, closing)
  <2>1. \A src \in Sources :
          /\ part[src] \in SUBSET closing
          /\ \A m \in closing : m \in part[src] <=> source[m] = src
          /\ booked[src] = SumFunctionOnSet(pnl, part[src])
    OBVIOUS
  <2> HIDE DEF booked, source, part
  <2> QED
    BY <1>1, <1>3, <2>1, SumPartition
<1> HIDE DEF c, old, new, booked
<1>7. SumFunctionOnSet(new, Sources)
        = SumFunctionOnSet(old, Sources) + SumFunctionOnSet(booked, Sources)
  BY <1>1, <1>2, <1>4, SumAdd
<1>8. SumFunctionOnSet(old, Sources) = s.total_realized_pnl
  BY <1>4 DEF Attributed, SumFunction, old
<1> QED
  BY <1>4, <1>5, <1>6, <1>7, <1>8 DEF Attributed, SumFunction, new, c

\* Every handler keeps the attribution.
LEMMA AttributionStep ==
  ASSUME NoSource \notin Sources, IInv, Attributed(st), [Next]_vars
  PROVE  Attributed(st')
<1>0. Balanced(st) /\ now \in Int
  BY DEF IInv, TypeOK
<1>1. ASSUME NEW ex \in Executions(now), OnExecution(ex)
      PROVE  Attributed(st')
  <2> DEFINE a == ApplyExecution(st, ex)
             b == ApplyRiskAdjustments(a)
             old == {ex.market_id} \cap DOMAIN st.positions
             pnl == [m \in old |-> PnlAt(st.positions[m], ex.market_prob)]
  <2>1. /\ Balanced(a)
        /\ SameRealized(a, st) \/ SameRealized(a, CloseReplaced(st, ex))
    BY <1>0, ExecutionBalanced
  <2>2. Attributed(CloseReplaced(st, ex))
    <3>1. ex.market_prob \in Int
      <4>1. ex.market_prob \in Prices
        BY Zenon DEF Executions
      <4> QED
        BY <4>1, PortfolioConstants
    <3>2. \A m \in old : pnl[m] \in Int
      BY <1>0, <3>1, PnlType DEF Balanced, IsState, IsMap
    <3> HIDE DEF pnl
    <3>3. Attributed(CloseAll(st, old, pnl))
      BY <1>0, <3>2, CloseAttributed
    <3> QED
      BY <3>3 DEF CloseReplaced, pnl
  <2> HIDE DEF a
  <2>3. SameRealized(b, a)
    BY <2>1, TrimBalanced
  <2>4. st' = b
    BY <1>1 DEF OnExecution, a
  <2> HIDE DEF b
  <2> QED
    BY <2>1, <2>2, <2>3, <2>4 DEF SameRealized, Attributed
<1>2. ASSUME NEW market \in Markets, NEW price \in Prices, OnMarket(market, price)
      PROVE  Attributed(st')
  <2> DEFINE a == RecalculateUnrealized(st, market, price)
  <2>1. SameRealized(a, st)
    BY <1>0, MarkBalanced, PortfolioConstants
  <2>2. st' = a
    BY <1>2 DEF OnMarket
  <2> HIDE DEF a
  <2> QED
    BY <2>1, <2>2 DEF SameRealized, Attributed
<1>3. CASE OnTtlTick
  <2> DEFINE expired == Expired(st, now)
             pnl == ExpiryPnl(st, expired)
  <2>1. expired \in SUBSET DOMAIN st.positions
    BY DEF Expired
  <2>2. \A m \in expired : pnl[m] \in Int
    BY <1>0, <2>1, BookFacts DEF ExpiryPnl, Balanced, IsState
  <2>3. st' = IF expired = {} THEN st ELSE CloseAll(st, expired, pnl)
    BY <1>3 DEF OnTtlTick
  <2> HIDE DEF expired, pnl
  <2>4. Attributed(CloseAll(st, expired, pnl))
    BY <1>0, <2>1, <2>2, CloseAttributed
  <2> QED
    BY <2>3, <2>4
<1>4. CASE Advance \/ UNCHANGED vars
  BY <1>4 DEF Advance, vars
<1> QED
  BY <1>1, <1>2, <1>3, <1>4 DEF Next

\* When every signal names its source, the PnL per source adds up to what was
\* realised: no closing escapes attribution and none is booked twice.
THEOREM PortfolioAttribution == Spec => []AttributionComplete
<1>1. Init => AttributionComplete
  <2> SUFFICES ASSUME Init, NoSource \notin Sources
               PROVE  SumFunction(st.pnl_by_source) = 0
    BY DEF AttributionComplete, Init, NewState
  <2> DEFINE zero == [src \in Sources |-> 0]
  <2>1. st.pnl_by_source = [src \in Sources \ {NoSource} |-> 0] /\ Sources \ {NoSource} = Sources
    BY DEF Init, NewState
  <2>2. SumFunctionOnSet(zero, Sources) = 0
    <3>1. IsFiniteSet(Sources) /\ \A src \in Sources : zero[src] \in Int /\ zero[src] = zero[src] + zero[src]
      BY PortfolioConstants
    <3> HIDE DEF zero
    <3>2. SumFunctionOnSet(zero, Sources)
            = SumFunctionOnSet(zero, Sources) + SumFunctionOnSet(zero, Sources)
      BY <3>1, SumAdd
    <3>3. SumFunctionOnSet(zero, Sources) \in Int
      BY <3>1, SumType
    <3>4. \A n \in Int : n = n + n => n = 0
      OBVIOUS
    <3> QED
      BY <3>2, <3>3, <3>4
  <2> QED
    BY <2>1, <2>2 DEF SumFunction
<1>2. IInv /\ AttributionComplete /\ [Next]_vars => AttributionComplete'
  BY AttributionStep DEF AttributionComplete, Attributed
<1> QED
  BY <1>1, <1>2, PortfolioInvariant, PTL DEF Spec

(***************************************************************************)
(* Expiry.  Between ticks a position may outlive its TTL; what is inductive*)
(* is that it will not at the tick after the next one.                     *)
(***************************************************************************)
TickIsNear == now <= next_tick /\ next_tick <= now + TtlPeriod

YoungAtTick ==
  \A m \in DOMAIN st.positions : next_tick - st.positions[m].opened_at < PositionTtl + TtlPeriod

ExpiryInv == TtlEnabled /\ MaxLag < PositionTtl => TickIsNear /\ YoungAtTick

\* Every handler keeps the distance to the tick and the age at the tick.
LEMMA ExpiryStep ==
  ASSUME TtlEnabled, MaxLag < PositionTtl, IInv, TickIsNear, YoungAtTick, [Next]_vars
  PROVE  TickIsNear' /\ YoungAtTick'
<1>0. /\ Balanced(st) /\ now \in Nat /\ next_tick \in Nat
      /\ PositionTtl \in Nat /\ TtlPeriod \in Nat \ {0} /\ MaxLag \in Nat
      /\ \A m \in DOMAIN st.positions : st.positions[m].opened_at \in Int
  BY PortfolioConstants DEF IInv, TypeOK, IsState, IsMap, Positions
<1>1. ASSUME NEW ex \in Executions(now), OnExecution(ex)
      PROVE  TickIsNear' /\ YoungAtTick'
  <2> DEFINE a == ApplyExecution(st, ex)
             b == ApplyRiskAdjustments(a)
  <2>1. /\ Balanced(a)
        /\ \A m \in DOMAIN a.positions :
              \/ m \in DOMAIN st.positions /\ a.positions[m] = st.positions[m]
              \/ a.positions[m].opened_at = ex.timestamp
    BY <1>0, ExecutionBalanced
  <2>2. st' = b /\ UNCHANGED <<now, next_tick>>
    BY <1>1 DEF OnExecution
  <2> HIDE DEF a
  <2>3. /\ DOMAIN b.positions = DOMAIN a.positions
        /\ \A m \in DOMAIN a.positions : b.positions[m].opened_at = a.positions[m].opened_at
    BY <2>1, TrimBalanced
  <2> HIDE DEF b
  <2>4. ex.timestamp \in Int /\ ex.timestamp >= now - MaxLag
    <3>1. ex.timestamp \in (now - MaxLag)..now
      BY Zenon DEF Executions
    <3> QED
      BY <1>0, <3>1
  <2>5. next_tick - ex.timestamp < PositionTtl + TtlPeriod
    BY <1>0, <2>4 DEF TickIsNear
  <2> QED
    BY <2>1, <2>2, <2>3, <2>5 DEF TickIsNear, YoungAtTick
<1>2. ASSUME NEW market \in Markets, NEW price \in Prices, OnMarket(market, price)
      PROVE  TickIsNear' /\ YoungAtTick'
  <2> DEFINE a == RecalculateUnrealized(st, market, price)
  <2>1. /\ DOMAIN a.positions = DOMAIN st.positions
        /\ \A m \in DOMAIN st.positions : a.positions[m].opened_at = st.positions[m].opened_at
    BY <1>0, MarkBalanced, PortfolioConstants
  <2>2. st' = a /\ UNCHANGED <<now, next_tick>>
    BY <1>2 DEF OnMarket
  <2> HIDE DEF a
  <2> QED
    BY <2>1, <2>2 DEF TickIsNear, YoungAtTick
<1>3. CASE OnTtlTick
  <2> DEFINE expired == Expired(st, now)
             c == CloseAll(st, expired, ExpiryPnl(st, expired))
  <2>1. /\ st' = IF expired = {} THEN st ELSE c
        /\ now = next_tick /\ now' = now /\ next_tick' = next_tick + TtlPeriod
    BY <1>3 DEF OnTtlTick
  <2>2. \A m \in DOMAIN st'.positions :
          /\ m \in DOMAIN st.positions /\ m \notin expired
          /\ st'.positions[m] = st.positions[m]
    <3>1. c.positions = RemoveAll(st.positions, expired)
      BY DEF CloseAll
    <3> HIDE DEF c, expired
    <3> QED
      BY <2>1, <3>1 DEF RemoveAll, Restrict
  <2>3. \A m \in DOMAIN st.positions : m \notin expired => now - st.positions[m].opened_at < PositionTtl
    BY <1>0 DEF Expired
  <2> HIDE DEF c, expired
  <2>4. \A m \in DOMAIN st'.positions :
          next_tick' - st'.positions[m].opened_at < PositionTtl + TtlPeriod
    BY <1>0, <2>1, <2>2, <2>3
  <2> QED
    BY <1>0, <2>1, <2>4 DEF TickIsNear, YoungAtTick
<1>4. CASE Advance
  BY <1>0, <1>4 DEF Advance, TickIsNear, YoungAtTick
<1>5. CASE UNCHANGED vars
  BY <1>5 DEF vars, TickIsNear, YoungAtTick
<1> QED
  BY <1>1, <1>2, <1>3, <1>4, <1>5 DEF Next

\* A tick closes priced positions at their last price, and touches no position
\* that stays.
LEMMA TickAtMarket ==
  ASSUME IInv, OnTtlTick
  PROVE  LET expired == Expired(st, now)
         IN  /\ (\A m \in expired : st.positions[m].priced) =>
                  st'.total_realized_pnl = st.total_realized_pnl + RealisedAtLastPrice(st, expired)
             /\ \A m \in DOMAIN st'.positions : st'.positions[m] = st.positions[m]
<1> DEFINE expired == Expired(st, now)
           pnl == ExpiryPnl(st, expired)
           worth == [m \in expired |-> AtLastPrice(st.positions[m])]
           c == CloseAll(st, expired, pnl)
<1>1. /\ st' = IF expired = {} THEN st ELSE c
      /\ IsMap(st.positions, Markets, Positions)
      /\ st.total_realized_pnl \in Int
  BY DEF OnTtlTick, IInv, Balanced, IsState
<1>2. IsFiniteSet(expired) /\ expired \subseteq DOMAIN st.positions
  <2>1. IsFiniteSet(DOMAIN st.positions) /\ expired \in SUBSET DOMAIN st.positions
    BY <1>1, BookFacts DEF Expired
  <2> HIDE DEF expired
  <2> QED
    BY <2>1, FS_Subset
<1>3. ASSUME \A m \in expired : st.positions[m].priced
      PROVE  pnl = worth
  <2>1. \A m \in expired : st.positions[m].unrealized_pnl = AtLastPrice(st.positions[m])
    <3> HIDE DEF expired
    <3> QED
      BY <1>2, <1>3 DEF IInv, MarkIsCurrent
  <2>2. pnl = [m \in expired |-> st.positions[m].unrealized_pnl]
    BY DEF ExpiryPnl
  <2> HIDE DEF expired, pnl
  <2> QED
    BY <2>1, <2>2
<1>4. /\ c.positions = RemoveAll(st.positions, expired)
      /\ c.total_realized_pnl = st.total_realized_pnl + SumFunctionOnSet(pnl, expired)
      /\ RealisedAtLastPrice(st, expired) = SumFunctionOnSet(worth, expired)
  BY DEF CloseAll, RealisedAtLastPrice
<1>5. expired = {} => SumFunctionOnSet(worth, expired) = 0
  <2> HIDE DEF worth
  <2> QED
    BY <1>2, SumType
<1> HIDE DEF expired, pnl, worth, c
<1>6. \A m \in DOMAIN c.positions : c.positions[m] = st.positions[m]
  BY <1>4 DEF RemoveAll, Restrict
<1>7. (\A m \in expired : st.positions[m].priced) =>
         st'.total_realized_pnl = st.total_realized_pnl + RealisedAtLastPrice(st, expired)
  BY <1>1, <1>3, <1>4, <1>5
<1>8. \A m \in DOMAIN st'.positions : st'.positions[m] = st.positions[m]
  BY <1>1, <1>6
<1> QED
  BY <1>7, <1>8 DEF expired

\* No position outlives its TTL by a tick period (if Executions are not older
\* than the TTL when handled); expired positions are closed at their last price
\* if one arrived since they were opened, and the others are left alone.
THEOREM PortfolioExpiry == Spec => ExpiresInTimeAtMarket
<1>1. Init => ExpiryInv
  BY PortfolioConstants DEF Init, ExpiryInv, TickIsNear, YoungAtTick, NewState, EmptyMap
<1>2. IInv /\ ExpiryInv /\ [Next]_vars => ExpiryInv'
  BY ExpiryStep DEF ExpiryInv, TtlEnabled
<1>3. IInv /\ ExpiryInv => TtlEnforced
  BY PortfolioConstants DEF IInv, TypeOK, IsState, IsMap, Positions, ExpiryInv, TickIsNear,
                            YoungAtTick, TtlEnforced
<1> DEFINE AtMarket ==
      OnTtlTick =>
        LET expired == Expired(st, now)
        IN  /\ (\A m \in expired : st.positions[m].priced) =>
                 st'.total_realized_pnl = st.total_realized_pnl + RealisedAtLastPrice(st, expired)
            /\ \A m \in DOMAIN st'.positions : st'.positions[m] = st.positions[m]
<1>4. IInv /\ [Next]_vars => [AtMarket]_vars
  BY TickAtMarket
<1>5. Spec => [][AtMarket]_vars
  <2> HIDE DEF AtMarket
  <2> QED
    BY <1>4, PortfolioInvariant, PTL DEF Spec
<1>6. Spec => []TtlEnforced
  BY <1>1, <1>2, <1>3, PortfolioInvariant, PTL DEF Spec
<1> QED
  BY <1>5, <1>6 DEF ExpiresInTimeAtMarket, ExpiryAtMarket

----------------------------------------------------------------------------
(***************************************************************************)
(* The sizes of positions.                                                 *)
(***************************************************************************)

\* The positions opened are no larger than what is executed, and no position
\* grows: a bound on the executions is one on the positions.
WithinSize(s, limit) == \A m \in DOMAIN s.positions : s.positions[m].size <= limit

LEMMA ExecutionSizes ==
  ASSUME IInv, NEW ex \in Executions(now), OnExecution(ex), NEW limit \in Int,
         WithinSize(st, limit), ex.executed_quantity <= limit
  PROVE  WithinSize(st', limit)
<1> DEFINE s == st
           b == ApplyExecution(s, ex)
           c == ApplyRiskAdjustments(b)
<1>1. st' = c
  BY DEF OnExecution
<1>2. Balanced(s) /\ now \in Int
  BY DEF IInv, TypeOK
<1>3. /\ Balanced(b)
      /\ \A m \in DOMAIN b.positions :
            \/ m \in DOMAIN s.positions /\ b.positions[m] = s.positions[m]
            \/ b.positions[m].size <= ex.executed_quantity
  BY <1>2, ExecutionBalanced
<1> HIDE DEF b
<1>4. /\ DOMAIN c.positions = DOMAIN b.positions
      /\ Capped(c)
      /\ \A m \in DOMAIN b.positions :
            b.positions[m].size <= MaxPosition => c.positions[m] = b.positions[m]
  BY <1>3, TrimBalanced
<1>5. ex.executed_quantity \in Int
  <2>1. ex.executed_quantity \in Quantities
    BY Zenon DEF Executions
  <2>2. \A n \in Quantities : n \in Int
    BY PortfolioConstants
  <2> QED
    BY <2>1, <2>2, Zenon
<1>6. \A m \in DOMAIN b.positions : b.positions[m].size \in Int
  BY <1>3 DEF Balanced, IsState, IsMap, Positions
<1>7. \A m \in DOMAIN b.positions : b.positions[m].size <= limit
  BY <1>3, <1>5, <1>6 DEF WithinSize
<1>8. /\ MaxPosition \in Int
      /\ \A m \in DOMAIN c.positions : c.positions[m].size \in Int /\ c.positions[m].size <= MaxPosition
  BY <1>4, PortfolioConstants DEF Capped
<1> HIDE DEF c
<1>9. \A m \in DOMAIN c.positions : c.positions[m].size <= limit
  BY <1>4, <1>6, <1>7, <1>8
<1> QED
  BY <1>1, <1>9 DEF WithinSize

\* Prices change no size,
LEMMA MarketSizes ==
  ASSUME IInv, NEW market \in Markets, NEW price \in Int, OnMarket(market, price),
         NEW limit \in Int, WithinSize(st, limit)
  PROVE  WithinSize(st', limit)
<1>1. Balanced(st)
  BY DEF IInv
<1>2. st' = RecalculateUnrealized(st, market, price)
  BY DEF OnMarket
<1>3. /\ DOMAIN st'.positions = DOMAIN st.positions
      /\ \A m \in DOMAIN st.positions : st'.positions[m].size = st.positions[m].size
  BY <1>1, <1>2, MarkBalanced
<1> QED
  BY <1>3 DEF WithinSize

\* and expiry takes positions away.
LEMMA TtlSizes ==
  ASSUME OnTtlTick, NEW limit \in Int, WithinSize(st, limit)
  PROVE  WithinSize(st', limit)
<1>1. st' = st \/ st' = CloseAll(st, Expired(st, now), ExpiryPnl(st, Expired(st, now)))
  BY DEF OnTtlTick
<1>2. \A closing, pnl : CloseAll(st, closing, pnl).positions = RemoveAll(st.positions, closing)
  BY DEF CloseAll
<1>3. \A p, closing : /\ DOMAIN RemoveAll(p, closing) \subseteq DOMAIN p
                      /\ \A m \in DOMAIN RemoveAll(p, closing) : RemoveAll(p, closing)[m] = p[m]
  BY DEF RemoveAll, Restrict
<1> QED
  BY <1>1, <1>2, <1>3 DEF WithinSize
=============================================================================

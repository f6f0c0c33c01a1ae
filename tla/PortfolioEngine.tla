-------------------------- MODULE PortfolioEngine --------------------------
(***************************************************************************)
(* crates/portfolio_engine: the authoritative portfolio tracker.           *)
(*                                                                         *)
(* One task owns the PortfolioState.  Its select loop handles three kinds  *)
(* of input, each under a single write lock: an Execution from the bus, a  *)
(* Market price from the bus, and the TTL ticker.  The core of every       *)
(* handler is a function on the state (apply_execution,                    *)
(* recalculate_unrealized, apply_risk_adjustments), and so it is here.     *)
(*                                                                         *)
(* Units.  Sizes and cash are whole dollars; executed_quantity, a fraction *)
(* of the bankroll in the code, is given in dollars too.  Probabilities    *)
(* are ticks, PriceScale ticks being 1.0, so PnL is in dollar-ticks.       *)
(* Floating-point rounding is not modelled.                                *)
(*                                                                         *)
(* Left out: last_update and tags, which nothing reads, and the position's *)
(* realized_pnl, which is 0.0 from insertion to removal.  The field priced *)
(* of a position is history: a price has arrived since it was opened.      *)
(***************************************************************************)
EXTENDS Integers, FiniteSets, Functions, RustStd, TLC

CONSTANTS
  Markets,        \* market ids
  Directions,     \* the TradeDirections that executions carry
  Sources,        \* signal_source values, NoSource for the empty string
  NoSource,
  Bankroll,       \* initial_bankroll
  MaxPosition,    \* initial_bankroll * max_position_fraction
  PriceScale,     \* ticks in a probability of 1.0
  Prices,         \* the probabilities prices and fills take, in ticks
  Quantities,     \* executed_quantity * bankroll
  PositionTtl,    \* position_ttl_secs; 0 disables expiry
  TtlPeriod,      \* period of ttl_tick (60 s)
  MtmInterval,    \* MTM_INTERVAL (5 s)
  MaxLag,         \* bound: age of an Execution when it is handled
  MaxTime,        \* bound on the clock
  MaxEvents       \* bound on the bus events handled

ASSUME PortfolioConstants ==
  /\ IsFiniteSet(Markets) /\ IsFiniteSet(Sources)
  /\ Directions \subseteq {"Buy", "Sell", "Arbitrage"}
  /\ Bankroll \in Nat \ {0}                       \* PortfolioConfig::validate
  /\ MaxPosition \in 0..Bankroll                  \* PortfolioConfig::validate
  /\ Prices \subseteq Int /\ Quantities \subseteq Nat
  /\ PositionTtl \in Nat /\ TtlPeriod \in Nat \ {0} /\ MtmInterval \in Nat
  /\ MaxLag \in Nat

VARIABLES
  st,                \* PortfolioState
  last_mtm_publish,  \* local of run: when a Market price was last published
  next_tick,         \* deadline of ttl_tick
  now,               \* the clock
  wire,              \* the last Event::Portfolio published
  events             \* bus events handled so far

vars == <<st, last_mtm_publish, next_tick, now, wire, events>>

\* Markets and sources are interchangeable: no definition tells them apart.
Symmetry == Permutations(Markets) \cup Permutations(Sources)

----------------------------------------------------------------------------
(***************************************************************************)
(* Functions on the state.                                                 *)
(***************************************************************************)

\* PortfolioState::new
NewState == [positions            |-> EmptyMap,
             cash                 |-> Bankroll,
             total_realized_pnl   |-> 0,
             total_unrealized_pnl |-> 0,
             pnl_by_source        |-> [s \in Sources \ {NoSource} |-> 0]]

SizeOf(positions) == [m \in DOMAIN positions |-> positions[m].size]
UnrealizedOf(positions) == [m \in DOMAIN positions |-> positions[m].unrealized_pnl]

\* Deployed capital, the sum of all open position sizes.
TotalDeployed(s) == SumFunction(SizeOf(s.positions))

\* Net PnL, the figure that goes on the wire.
TotalPnl(s) == s.total_realized_pnl + s.total_unrealized_pnl

\* Gain of a position valued at price: Arbitrage counts as Buy.
PnlAt(pos, price) ==
  pos.size * (IF pos.direction = "Sell" THEN pos.avg_price - price
                                        ELSE price - pos.avg_price)

\* Mutant: closed PnL is not attributed to the source of the position.
CloseAll_NoAttribution(s, closing, pnl) ==
  [positions            |-> RemoveAll(s.positions, closing),
   cash                 |-> s.cash + SumFunctionOnSet(SizeOf(s.positions), closing),
   total_realized_pnl   |-> s.total_realized_pnl + SumFunctionOnSet(pnl, closing),
   total_unrealized_pnl |-> s.total_unrealized_pnl
                            - SumFunctionOnSet(UnrealizedOf(s.positions), closing),
   pnl_by_source        |-> s.pnl_by_source]

\* Take the positions of closing out of the book: crystallise pnl[m] for each,
\* return its capital to cash and book the PnL under its source, if it has one.
\* Shared by the two places that close positions, a new fill and TTL expiry.
CloseAll(s, closing, pnl) ==
  [positions            |-> RemoveAll(s.positions, closing),
   cash                 |-> s.cash + SumFunctionOnSet(SizeOf(s.positions), closing),
   total_realized_pnl   |-> s.total_realized_pnl + SumFunctionOnSet(pnl, closing),
   total_unrealized_pnl |-> s.total_unrealized_pnl
                            - SumFunctionOnSet(UnrealizedOf(s.positions), closing),
   pnl_by_source        |-> [src \in DOMAIN s.pnl_by_source |->
                             s.pnl_by_source[src] + SumFunctionOnSet(pnl,
                               {m \in closing : s.positions[m].source = src})]]

NewPosition(ex, size, unrealized) ==
  [direction         |-> ex.direction,
   size              |-> size,
   avg_price         |-> ex.avg_price,
   unrealized_pnl    |-> unrealized,
   last_market_price |-> ex.market_prob,
   priced            |-> FALSE,
   opened_at         |-> ex.timestamp,
   source            |-> ex.source]

\* The old position in the market of ex, if any, closed at the trade's market_prob.
CloseReplaced(s, ex) ==
  LET old == {ex.market_id} \cap DOMAIN s.positions
  IN  CloseAll(s, old, [m \in old |-> PnlAt(s.positions[m], ex.market_prob)])

\* Dollars the new position gets: what was executed, clamped to the cash.
OpenSize(s, ex) == MinOf(ex.executed_quantity, MaxOf(s.cash, 0))

\* Mutant: the new position inherits the mark of the one it replaces.
ApplyExecution_KeepMark(s, ex) ==
  LET closed == CloseReplaced(s, ex)
      size   == OpenSize(closed, ex)
      mark   == IF ex.market_id \in DOMAIN s.positions
                THEN s.positions[ex.market_id].unrealized_pnl ELSE 0
  IN  IF ~ex.filled THEN s
      ELSE IF size <= 0 THEN closed
      ELSE [closed EXCEPT !.cash = @ - size,
                          !.positions = Insert(@, ex.market_id, NewPosition(ex, size, mark)),
                          !.total_unrealized_pnl = @ + mark]

ApplyExecution(s, ex) ==
  LET closed == CloseReplaced(s, ex)
      size   == OpenSize(closed, ex)
  IN  IF ~ex.filled THEN s
      ELSE IF size <= 0 THEN closed
      ELSE [closed EXCEPT !.cash = @ - size,
                          !.positions = Insert(@, ex.market_id, NewPosition(ex, size, 0))]

RecalculateUnrealized(s, market, price) ==
  LET positions == [m \in DOMAIN s.positions |->
                      IF m = market
                      THEN [s.positions[m] EXCEPT
                              !.last_market_price = price,
                              !.priced            = TRUE,
                              !.unrealized_pnl    = PnlAt(s.positions[m], price)]
                      ELSE s.positions[m]]
  IN  [s EXCEPT !.positions            = positions,
                !.total_unrealized_pnl = SumFunction(UnrealizedOf(positions))]

\* Size of a position after trimming.
Trimmed(pos) == MinOf(pos.size, MaxPosition)

TrimmedBook(positions) ==
  [m \in DOMAIN positions |-> [positions[m] EXCEPT !.size = Trimmed(positions[m])]]

\* Trim every position above the cap and return the excess to cash.
ApplyRiskAdjustments(s) ==
  LET excess == [m \in DOMAIN s.positions |->
                   s.positions[m].size - Trimmed(s.positions[m])]
  IN  [s EXCEPT !.positions = TrimmedBook(@),
                !.cash      = @ + SumFunction(excess)]

\* The wire type: thin positions, net PnL, deployed capital.
ToPortfolioUpdate(s) ==
  [positions |-> [m \in DOMAIN s.positions |->
                    [direction         |-> s.positions[m].direction,
                     size              |-> s.positions[m].size,
                     entry_probability |-> s.positions[m].avg_price]],
   pnl       |-> TotalPnl(s),
   exposure  |-> TotalDeployed(s)]

----------------------------------------------------------------------------
(***************************************************************************)
(* The task.                                                               *)
(***************************************************************************)

\* An Execution as it is handled: its timestamp lies up to MaxLag in the past.
Executions(t) ==
  [filled : BOOLEAN, market_id : Markets, direction : Directions,
   executed_quantity : Quantities, avg_price : Prices, market_prob : Prices,
   source : Sources, timestamp : (t - MaxLag)..t]

TtlEnabled == PositionTtl > 0

\* last_mtm_publish starts one interval back, or at the start when the
\* monotonic clock is younger than that (checked_sub fails).  The first tick
\* of a tokio interval completes at once.
Init ==
  /\ st = NewState
  /\ now = 0
  /\ last_mtm_publish \in {-MtmInterval, 0}
  /\ next_tick = 0
  /\ wire = ToPortfolioUpdate(NewState)
  /\ events = 0

\* Event::Execution: apply, trim and, when it was filled, publish.
OnExecution(ex) ==
  /\ events < MaxEvents
  /\ st' = ApplyRiskAdjustments(ApplyExecution(st, ex))
  /\ wire' = IF ex.filled THEN ToPortfolioUpdate(st') ELSE wire
  /\ events' = events + 1
  /\ UNCHANGED <<last_mtm_publish, next_tick, now>>

\* Event::Market: mark to market, publishing at most once every MtmInterval.
OnMarket(market, price) ==
  LET due == now - last_mtm_publish >= MtmInterval
  IN  /\ events < MaxEvents
      /\ st' = RecalculateUnrealized(st, market, price)
      /\ wire' = IF due THEN ToPortfolioUpdate(st') ELSE wire
      /\ last_mtm_publish' = IF due THEN now ELSE last_mtm_publish
      /\ events' = events + 1
      /\ UNCHANGED <<next_tick, now>>

Expired(s, t) == {m \in DOMAIN s.positions : t - s.positions[m].opened_at >= PositionTtl}

\* Mutant: an expired position is closed flat.
ExpiryPnl_Flat(s, closing) == [m \in closing |-> 0]

\* An expired position is closed at its unrealised PnL.
ExpiryPnl(s, closing) == [m \in closing |-> s.positions[m].unrealized_pnl]

\* Mutant: nothing is published when positions expire.
OnTtlTick_Silent ==
  LET expired == Expired(st, now)
  IN  /\ TtlEnabled /\ now = next_tick
      /\ st' = IF expired = {} THEN st ELSE CloseAll(st, expired, ExpiryPnl(st, expired))
      /\ next_tick' = next_tick + TtlPeriod
      /\ UNCHANGED <<last_mtm_publish, wire, now, events>>

\* ttl_tick: close the expired positions and publish if there were any.
OnTtlTick ==
  LET expired == Expired(st, now)
  IN  /\ TtlEnabled /\ now = next_tick
      /\ st' = IF expired = {} THEN st ELSE CloseAll(st, expired, ExpiryPnl(st, expired))
      /\ wire' = IF expired = {} THEN wire ELSE ToPortfolioUpdate(st')
      /\ next_tick' = next_tick + TtlPeriod
      /\ UNCHANGED <<last_mtm_publish, now, events>>

\* Time passes.  A due tick is handled first: the select loop is biased
\* towards it and no handler waits for anything but the uncontended lock.
Advance ==
  /\ now < MaxTime
  /\ TtlEnabled => now < next_tick
  /\ now' = now + 1
  /\ UNCHANGED <<st, last_mtm_publish, next_tick, wire, events>>

Next ==
  \/ \E ex \in Executions(now) : OnExecution(ex)
  \/ \E market \in Markets, price \in Prices : OnMarket(market, price)
  \/ OnTtlTick
  \/ Advance

Spec == Init /\ [][Next]_vars

----------------------------------------------------------------------------
(***************************************************************************)
(* Properties.                                                             *)
(***************************************************************************)

Positions == [direction : Directions, size : Int, avg_price : Int,
              unrealized_pnl : Int, last_market_price : Int, priced : BOOLEAN,
              opened_at : Int, source : Sources]

IsState(s) ==
  /\ s = [positions |-> s.positions, cash |-> s.cash,
          total_realized_pnl |-> s.total_realized_pnl,
          total_unrealized_pnl |-> s.total_unrealized_pnl,
          pnl_by_source |-> s.pnl_by_source]
  /\ IsMap(s.positions, Markets, Positions)
  /\ s.cash \in Int /\ s.total_realized_pnl \in Int /\ s.total_unrealized_pnl \in Int
  /\ s.pnl_by_source \in [Sources \ {NoSource} -> Int]

WirePositions == [direction : Directions, size : Int, entry_probability : Int]

\* The state, the timers and the last published update have their types
\* (PortfolioState, the locals of run, PortfolioUpdate).
TypeOK ==
  /\ IsState(st)
  /\ IsMap(wire.positions, Markets, WirePositions)
  /\ wire.pnl \in Int /\ wire.exposure \in Int
  /\ last_mtm_publish \in Int /\ next_tick \in Nat /\ now \in Nat /\ events \in Nat

\* No dollar is created or lost by any sequence of fills, replacements, trims
\* and expiries: cash and open positions always add up to the initial
\* bankroll, and cash is never overdrawn (apply_execution's clamp).
CashConservation ==
  /\ st.cash + TotalDeployed(st) = Bankroll
  /\ st.cash >= 0

\* Whatever was executed, no open position is above the cap or negative once a
\* handler is done (apply_risk_adjustments runs before the lock is dropped).
PositionsCapped ==
  \A m \in DOMAIN st.positions : st.positions[m].size \in 0..MaxPosition

\* total_unrealized_pnl, decremented when positions close and recomputed when
\* prices arrive, is always the sum over the open positions.
UnrealizedIsSum ==
  st.total_unrealized_pnl = SumFunction(UnrealizedOf(st.positions))

AtLastPrice(pos) == PnlAt(pos, pos.last_market_price)

\* A position's unrealised PnL is 0 until a price arrives, and from then on the
\* value of its present size at the last price: no trim or replacement leaves a
\* mark behind that belongs to another size or another position.
MarkIsCurrent ==
  \A m \in DOMAIN st.positions :
    LET pos == st.positions[m]
    IN  pos.unrealized_pnl = IF pos.priced THEN AtLastPrice(pos) ELSE 0

\* When every signal names its source, the per-strategy PnL adds up to the
\* realised PnL: no closed position escapes attribution or is booked twice.
AttributionComplete ==
  NoSource \notin Sources => SumFunction(st.pnl_by_source) = st.total_realized_pnl

\* Positions and exposure known to subscribers are the engine's own: every
\* handler that changes a position publishes, after its last change.
WireIsCurrent ==
  LET update == ToPortfolioUpdate(st)
  IN  wire.positions = update.positions /\ wire.exposure = update.exposure

\* No position is held a whole tick period beyond its TTL, provided Executions
\* are not older than the TTL when they are handled.
TtlEnforced ==
  TtlEnabled /\ MaxLag < PositionTtl =>
    \A m \in DOMAIN st.positions : now - st.positions[m].opened_at < PositionTtl + TtlPeriod

\* What closing the positions of a set at their last known price would realise.
RealisedAtLastPrice(s, closing) ==
  SumFunctionOnSet([m \in closing |-> AtLastPrice(s.positions[m])], closing)

\* Expired positions for which a price arrived since they were opened are closed
\* at their last price, and the positions that stay are left as they are.
ExpiryAtMarket ==
  [][OnTtlTick =>
       LET expired == Expired(st, now)
       IN  /\ (\A m \in expired : st.positions[m].priced) =>
                st'.total_realized_pnl = st.total_realized_pnl + RealisedAtLastPrice(st, expired)
           /\ \A m \in DOMAIN st'.positions : st'.positions[m] = st.positions[m]]_vars

\* Priced positions expire in time, and at the market.
ExpiresInTimeAtMarket == []TtlEnforced /\ ExpiryAtMarket

\* Every expired position is closed at its last known price, the price its fill
\* brought included (PortfolioConfig: a position is "automatically closed at its
\* last known market price").  Not so: one that expires before the first price
\* is closed at an unrealised PnL that is still 0.
ExpiresAtLastPrice ==
  [][OnTtlTick => st'.total_realized_pnl =
                    st.total_realized_pnl + RealisedAtLastPrice(st, Expired(st, now))]_vars

\* The ledger of the engine is sound after every handler: its types, its cash,
\* its totals, its marks and what it has published all agree.
Ledger ==
  /\ TypeOK
  /\ CashConservation
  /\ UnrealizedIsSum
  /\ MarkIsCurrent
  /\ WireIsCurrent
=============================================================================

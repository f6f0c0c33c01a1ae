-------------------------------- MODULE Oms --------------------------------
(***************************************************************************)
(* crates/oms: the order manager, between the risk engine and the          *)
(* exchanges, together with the exchange as its connectors                 *)
(* (crates/exchange_api) show it.                                          *)
(*                                                                         *)
(* One task runs a biased select loop: shutdown, the poll timer, the       *)
(* stale-order timer, then events of the bus.  Each branch runs to its end *)
(* before the next select, but awaits the exchange once per request, and   *)
(* between two requests orders fill, end, and age at the exchange.  The    *)
(* variable task says where the loop is.                                   *)
(*                                                                         *)
(* Sizes are whole dollars.  Whatever a connector parses to Pending counts *)
(* as Open here: neither is terminal and nothing tells them apart.  A      *)
(* partly filled order is reported as Open, as both connectors do.         *)
(* poll_count, prices, balances and timestamps are left out; aged holds    *)
(* the orders whose created_at lies more than order_timeout_secs back.     *)
(***************************************************************************)
EXTENDS Integers, Sequences, FiniteSets, Functions, RustStd

CONSTANTS
  Sizes,        \* approved_fraction * bankroll of the trades
  Routes,       \* exchanges that trades are routed to
  Connectors,   \* exchanges with a registered connector
  MinOrder,     \* min_order_size_usd
  MaxRetries,   \* max_retries of the connector
  LiveModes,    \* values of live_trading_enabled
  NoId,         \* exchange_order_id is None
  MaxOrders,    \* bound on the trades submitted
  MaxAccepted   \* bound on the orders at the exchange

ASSUME OmsConstants ==
  /\ Sizes \subseteq Nat \ {0} /\ MinOrder \in Nat /\ MaxRetries \in Nat
  /\ LiveModes \subseteq BOOLEAN
  /\ NoId \notin Nat

VARIABLES
  st,           \* OrderManagerState
  live,         \* config.live_trading_enabled
  task,         \* where the select loop is
  poll_due, stale_due,  \* the timers
  aged,         \* orders older than the timeout
  exch,         \* the exchange's orders by exchange order id
  published     \* history: executed quantities published for each order

vars == <<st, live, task, poll_due, stale_due, aged, exch, published>>

Terminal == {"Filled", "Cancelled", "Rejected", "Expired"}

\* ManagedOrder::is_terminal
IsTerminal(order) == order.status \in Terminal

Select == [at |-> "select"]

----------------------------------------------------------------------------
(***************************************************************************)
(* OrderManagerState.                                                      *)
(***************************************************************************)

NewState ==
  [next_id |-> 0, orders |-> EmptyMap, exchange_to_oms |-> EmptyMap,
   total_submitted |-> 0, total_filled |-> 0, total_rejected |-> 0,
   total_cancelled |-> 0, total_volume_usd |-> 0]

InsertOrder(s, size) ==
  [s EXCEPT !.next_id = @ + 1,
            !.orders = Insert(@, s.next_id, [size |-> size, exchange_order_id |-> NoId,
                                             status |-> "Pending", filled |-> 0]),
            !.total_submitted = @ + 1]

\* Mutant: the reverse map is not updated.
SetExchangeId_NoMap(s, id, eid) ==
  [s EXCEPT !.orders[id].exchange_order_id = eid, !.orders[id].status = "Open"]

SetExchangeId(s, id, eid) ==
  [s EXCEPT !.orders[id].exchange_order_id = eid,
            !.orders[id].status = "Open",
            !.exchange_to_oms = Insert(@, eid, id)]

MarkRejected(s, id) ==
  [s EXCEPT !.orders[id].status = "Rejected", !.total_rejected = @ + 1]

ApplyExchangeUpdate(s, id, snapshot) ==
  [s EXCEPT !.orders[id].status = snapshot.status, !.orders[id].filled = snapshot.filled]

RecordFill(s, id, filled, fully) ==
  [s EXCEPT !.orders[id].filled = filled,
            !.orders[id].status = IF fully THEN "Filled" ELSE "PartiallyFilled",
            !.total_filled = IF fully THEN @ + 1 ELSE @,
            !.total_volume_usd = IF fully THEN @ + filled ELSE @]

\* Mutant: terminal orders are polled and cancelled too.
ActiveOrders_All(s) == {id \in DOMAIN s.orders : s.orders[id].exchange_order_id # NoId}

\* Mutant: a partly filled order is no longer polled.
ActiveOrders_OpenOnly(s) ==
  {id \in DOMAIN s.orders : s.orders[id].status = "Open" /\ s.orders[id].exchange_order_id # NoId}

ActiveOrders(s) ==
  {id \in DOMAIN s.orders : ~IsTerminal(s.orders[id]) /\ s.orders[id].exchange_order_id # NoId}

----------------------------------------------------------------------------
(***************************************************************************)
(* The exchange.                                                           *)
(***************************************************************************)

IsLive(eid) == exch[eid].status = "Open"

\* The next order id the exchange hands out.
NextEid == Cardinality(DOMAIN exch)

\* An order arrives at the exchange on behalf of OMS order id.
Accepted(id) == Insert(exch, NextEid, [id |-> id, size |-> st.orders[id].size,
                                       filled |-> 0, status |-> "Open"])

\* One more dollar of an order is filled.
ExchangeFill(eid) ==
  /\ IsLive(eid)
  /\ exch' = [exch EXCEPT ![eid].filled = @ + 1,
                          ![eid].status = IF exch[eid].filled + 1 = exch[eid].size
                                          THEN "Filled" ELSE @]
  /\ UNCHANGED <<st, live, task, poll_due, stale_due, aged, published>>

\* The exchange ends an order on its own.
ExchangeEnd(eid, status) ==
  /\ IsLive(eid)
  /\ exch' = [exch EXCEPT ![eid].status = status]
  /\ UNCHANGED <<st, live, task, poll_due, stale_due, aged, published>>

----------------------------------------------------------------------------
(***************************************************************************)
(* The select loop.                                                        *)
(***************************************************************************)

Init ==
  /\ st = NewState
  /\ live \in LiveModes
  /\ task = Select
  /\ poll_due = FALSE /\ stale_due = FALSE   \* the immediate first ticks find no orders
  /\ aged = {}
  /\ exch = EmptyMap
  /\ published = EmptyMap

\* Timers and the age of orders.  The poll timer may fire while the task is at
\* work: a poll round makes one request after the other and may outlast the poll
\* interval.  A select with a ready branch takes it at once; a timer that fires just
\* then is one that fired just before.
PollTimer ==
  /\ live /\ ~poll_due
  /\ task = Select => ~stale_due
  /\ poll_due' = TRUE
  /\ UNCHANGED <<st, live, task, stale_due, aged, exch, published>>

StaleTimer ==
  /\ live /\ ~stale_due
  /\ stale_due' = TRUE
  /\ UNCHANGED <<st, live, task, poll_due, aged, exch, published>>

Age(id) ==
  /\ id \in DOMAIN st.orders \ aged
  /\ aged' = aged \cup {id}
  /\ UNCHANGED <<st, live, task, poll_due, stale_due, exch, published>>

\* Event::ApprovedTrade: submit_trade up to the await of place_order.  A trade
\* without a connector or below the minimum size leaves no trace.  In dry-run
\* mode the fill is synthesised at once.
SubmitTrade(size, route) ==
  LET id == st.next_id
  IN  /\ task = Select /\ ~poll_due /\ ~stale_due
      /\ route \in Connectors /\ size >= MinOrder
      /\ id < MaxOrders
      /\ \/ /\ live
            /\ st' = InsertOrder(st, size)
            /\ task' = [at |-> "place", id |-> id, attempt |-> 0]
            /\ published' = Insert(published, id, <<>>)
         \/ /\ ~live
            /\ st' = RecordFill(InsertOrder(st, size), id, size, TRUE)
            /\ published' = Insert(published, id, <<size>>)
            /\ UNCHANGED task
      /\ UNCHANGED <<live, poll_due, stale_due, aged, exch>>

\* One attempt of place_order's retry_request.  accepted: the request took
\* effect at the exchange.  reply: "ok", "retry" (a network error or 429, tried
\* again while attempts are left) or "fail" (any other error).  There is no
\* idempotency key: every accepted attempt is an order of its own.
PlaceAttempt(accepted, reply) ==
  LET id == task.id
      failed == reply = "fail" \/ (reply = "retry" /\ task.attempt = MaxRetries)
  IN  /\ task.at = "place"
      /\ reply = "ok" => accepted
      /\ accepted => NextEid < MaxAccepted
      /\ exch' = IF accepted THEN Accepted(id) ELSE exch
      /\ \/ /\ reply = "ok"
            /\ st' = SetExchangeId(st, id, NextEid)
            /\ task' = Select
            /\ UNCHANGED published
         \/ /\ failed
            /\ st' = MarkRejected(st, id)
            /\ published' = [published EXCEPT ![id] = Append(@, 0)]
            /\ task' = Select
         \/ /\ reply = "retry" /\ ~failed
            /\ task' = [task EXCEPT !.attempt = @ + 1]
            /\ UNCHANGED <<st, published>>
      /\ UNCHANGED <<live, poll_due, stale_due, aged>>

Round(at, todo) == IF todo = {} THEN Select ELSE [at |-> at, todo |-> todo]

\* poll_tick: collect the active orders.
StartPoll ==
  /\ task = Select /\ poll_due
  /\ poll_due' = FALSE
  /\ task' = Round("poll", ActiveOrders(st))
  /\ UNCHANGED <<st, live, stale_due, aged, exch, published>>

\* Mutant: a fill that comes with the end of the order closes it at the old size.
PollOk_StaleFill(id) ==
  LET snapshot == exch[st.orders[id].exchange_order_id]
  IN  /\ task.at = "poll" /\ id \in task.todo
      /\ st' = [st EXCEPT !.orders[id].status = snapshot.status]
      /\ task' = Round("poll", task.todo \ {id})
      /\ UNCHANGED <<live, poll_due, stale_due, aged, exch, published>>

\* get_order_status answers: take the snapshot over and publish new fill
\* volume, as the cumulative quantity.
PollOk(id) ==
  LET snapshot == exch[st.orders[id].exchange_order_id]
      updated  == ApplyExchangeUpdate(st, id, snapshot)
      newFill  == snapshot.filled > st.orders[id].filled
  IN  /\ task.at = "poll" /\ id \in task.todo
      /\ st' = IF newFill THEN RecordFill(updated, id, snapshot.filled, snapshot.status = "Filled")
               ELSE updated
      /\ published' = IF newFill
                      THEN [published EXCEPT ![id] = Append(@, snapshot.filled)] ELSE published
      /\ task' = Round("poll", task.todo \ {id})
      /\ UNCHANGED <<live, poll_due, stale_due, aged, exch>>

\* get_order_status fails: the order is left for the next round.
PollErr(id) ==
  /\ task.at = "poll" /\ id \in task.todo
  /\ task' = Round("poll", task.todo \ {id})
  /\ UNCHANGED <<st, live, poll_due, stale_due, aged, exch, published>>

\* stale_tick: collect the active orders that are too old.
StartCancel ==
  /\ task = Select /\ ~poll_due /\ stale_due
  /\ stale_due' = FALSE
  /\ task' = Round("cancel", ActiveOrders(st) \cap aged)
  /\ UNCHANGED <<st, live, poll_due, aged, exch, published>>

\* cancel_order succeeds: the order is closed without another look at its fills.
CancelOk(id) ==
  LET eid == st.orders[id].exchange_order_id
  IN  /\ task.at = "cancel" /\ id \in task.todo
      /\ IsLive(eid)
      /\ exch' = [exch EXCEPT ![eid].status = "Cancelled"]
      /\ st' = [st EXCEPT !.orders[id].status = "Cancelled", !.total_cancelled = @ + 1]
      /\ task' = Round("cancel", task.todo \ {id})
      /\ UNCHANGED <<live, poll_due, stale_due, aged, published>>

\* cancel_order is refused or fails; the request may still have taken effect.
CancelFails(id, effective) ==
  LET eid == st.orders[id].exchange_order_id
  IN  /\ task.at = "cancel" /\ id \in task.todo
      /\ effective => IsLive(eid)
      /\ exch' = IF effective THEN [exch EXCEPT ![eid].status = "Cancelled"] ELSE exch
      /\ task' = Round("cancel", task.todo \ {id})
      /\ UNCHANGED <<st, live, poll_due, stale_due, aged, published>>

Next ==
  \/ PollTimer \/ StaleTimer
  \/ \E id \in DOMAIN st.orders : Age(id)
  \/ \E size \in Sizes, route \in Routes : SubmitTrade(size, route)
  \/ \E accepted \in BOOLEAN, reply \in {"ok", "retry", "fail"} : PlaceAttempt(accepted, reply)
  \/ StartPoll
  \/ \E id \in DOMAIN st.orders : PollOk(id) \/ PollErr(id)
  \/ StartCancel
  \/ \E id \in DOMAIN st.orders :
        CancelOk(id) \/ \E effective \in BOOLEAN : CancelFails(id, effective)
  \/ \E eid \in DOMAIN exch :
        ExchangeFill(eid) \/ \E status \in {"Cancelled", "Expired"} : ExchangeEnd(eid, status)

Spec == Init /\ [][Next]_vars

\* The runtime keeps firing the timers and resumes the task, select takes a branch that
\* stays ready with nothing ready before it, and no request about one order fails
\* for ever.  Nothing says that the stale branch is ever the first one ready.
Fairness ==
  /\ SF_vars(PollTimer) /\ WF_vars(StaleTimer)
  /\ WF_vars(StartPoll) /\ WF_vars(StartCancel)
  /\ WF_vars(\E accepted \in BOOLEAN, reply \in {"ok", "retry", "fail"} :
                PlaceAttempt(accepted, reply))
  /\ \A id \in 0..(MaxOrders - 1) :
        /\ WF_vars(Age(id))
        /\ SF_vars(PollOk(id)) /\ WF_vars(PollErr(id))
        /\ SF_vars(CancelOk(id)) /\ WF_vars(\E effective \in BOOLEAN : CancelFails(id, effective))

FairSpec == Spec /\ Fairness

----------------------------------------------------------------------------
(***************************************************************************)
(* Properties.                                                             *)
(***************************************************************************)

Ids == 0..(st.next_id - 1)

Statuses == Terminal \cup {"Pending", "Open", "PartiallyFilled"}

\* The order table, the task and the exchange have their types.
TypeOK ==
  /\ st.next_id \in Nat
  /\ st.orders \in [Ids -> [size : Nat, exchange_order_id : Nat \cup {NoId},
                            status : Statuses, filled : Nat]]
  /\ IsMap(st.exchange_to_oms, Nat, Ids)
  /\ live \in BOOLEAN /\ poll_due \in BOOLEAN /\ stale_due \in BOOLEAN
  /\ task \in {Select} \cup [at : {"place"}, id : Ids, attempt : 0..MaxRetries]
                       \cup [at : {"poll", "cancel"}, todo : SUBSET Ids]
  /\ aged \subseteq Ids
  /\ \A eid \in DOMAIN exch : exch[eid].id \in Ids /\ exch[eid].filled \in 0..exch[eid].size
  /\ DOMAIN published = Ids

\* An order that is terminal for the OMS never changes again: no late poll or
\* cancellation touches it (ManagedOrder::is_terminal, "no further updates
\* expected").
TerminalIsFinal ==
  [][\A id \in DOMAIN st.orders : IsTerminal(st.orders[id]) => st'.orders[id] = st.orders[id]]_vars

\* exchange_to_oms is the inverse of the orders' exchange ids, and every linked
\* exchange order was placed for the order it is linked to.
LinksAreInverse ==
  /\ \A eid \in DOMAIN st.exchange_to_oms :
        st.orders[st.exchange_to_oms[eid]].exchange_order_id = eid
  /\ \A id \in DOMAIN st.orders :
        LET eid == st.orders[id].exchange_order_id
        IN  eid # NoId => /\ eid \in DOMAIN st.exchange_to_oms
                          /\ st.exchange_to_oms[eid] = id
                          /\ exch[eid].id = id

\* What the OMS has recorded as filled is what it last published, the published
\* quantities of an order only grow, so that no fill is published twice, and
\* they are never ahead of what the exchange has filled.
RecordedIsPublished ==
  \A id \in DOMAIN st.orders :
    LET qs  == published[id]
        eid == st.orders[id].exchange_order_id
    IN  /\ st.orders[id].filled = IF qs = <<>> THEN 0 ELSE qs[Len(qs)]
        /\ \A i \in 1..(Len(qs) - 1) : qs[i] < qs[i + 1]
        /\ eid # NoId => st.orders[id].filled <= exch[eid].filled

WithStatus(s) == {id \in DOMAIN st.orders : st.orders[id].status = s}

\* The aggregate counters count the orders: filled ones and their volume,
\* rejected ones, and no more cancellations than cancelled orders.
CountersMatch ==
  /\ st.total_submitted = Cardinality(DOMAIN st.orders)
  /\ st.total_filled = Cardinality(WithStatus("Filled"))
  /\ st.total_volume_usd = SumFunctionOnSet([id \in DOMAIN st.orders |-> st.orders[id].filled],
                                            WithStatus("Filled"))
  /\ st.total_rejected = Cardinality(WithStatus("Rejected"))
  /\ st.total_cancelled <= Cardinality(WithStatus("Cancelled"))

\* An order that ended filled or expired, so seen by a poll, has all its fills
\* recorded: a fill that arrives together with the end of the order is not lost.
PolledFillsComplete ==
  \A id \in WithStatus("Filled") \cup WithStatus("Expired") :
    LET eid == st.orders[id].exchange_order_id
    IN  eid # NoId => st.orders[id].filled = exch[eid].filled

\* An order is linked to its order at the exchange.
IsLinked(id) == id \in DOMAIN st.orders /\ st.orders[id].exchange_order_id # NoId
AtExchange(id) == exch[st.orders[id].exchange_order_id]

\* What became of a linked order is seen, however requests fail and rounds follow
\* each other: when it has ended at the exchange it ends here, and its fills are
\* recorded unless it is cancelled.
OutcomesAreSeen ==
  \A id \in 0..(MaxOrders - 1) :
    /\ IsLinked(id) /\ ~IsLive(st.orders[id].exchange_order_id)
         ~> IsLinked(id) /\ IsTerminal(st.orders[id])
    /\ IsLinked(id) ~> /\ IsLinked(id)
                       /\ \/ st.orders[id].filled = AtExchange(id).filled
                          \/ st.orders[id].status = "Cancelled"

\* An order older than the timeout ends (OmsConfig: "Maximum age of a pending/open
\* order before auto-cancellation").  Not so: when every poll round outlasts the
\* poll interval, the poll branch, which comes first, is ready at every select.
AgedOrdersEnd ==
  \A id \in 0..(MaxOrders - 1) :
    id \in ActiveOrders(st) \cap aged ~> id \in DOMAIN st.orders /\ IsTerminal(st.orders[id])

\* The order table is sound after every step: types, links to the exchange and
\* counters agree.
Bookkeeping ==
  /\ TypeOK
  /\ LinksAreInverse
  /\ CountersMatch

\* What was filled and recorded is published, once; and nothing is missing of
\* an order that a poll saw end.
FillsPublished == RecordedIsPublished /\ PolledFillsComplete
=============================================================================

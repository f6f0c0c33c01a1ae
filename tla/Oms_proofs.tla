----------------------------- MODULE Oms_proofs -----------------------------
(***************************************************************************)
(* Proofs about Oms: for every number of orders, retries and polls, with   *)
(* the exchange filling and ending orders between any two requests, the    *)
(* order table stays sound, what was filled is published once, and an      *)
(* order that is terminal never changes again.                             *)
(***************************************************************************)
EXTENDS Oms, SumTheorems

(***************************************************************************)
(* The inductive invariant.                                                *)
(***************************************************************************)

ExchangeStatuses == {"Open", "Filled", "Cancelled", "Expired"}

Order == [size : Nat \ {0}, exchange_order_id : Nat \cup {NoId}, status : Statuses, filled : Nat]

ExchangeOrder == [id : Nat, size : Nat \ {0}, filled : Nat, status : ExchangeStatuses]

\* The quantities published for an order grow, and the last one is f.
Growing(qs, f) ==
  /\ qs \in Seq(Nat)
  /\ f = IF qs = <<>> THEN 0 ELSE qs[Len(qs)]
  /\ \A i \in 1..(Len(qs) - 1) : qs[i] < qs[i + 1]

\* An order at the exchange is Filled just when all of it is.
Sound(x) == x.filled <= x.size /\ (x.status = "Filled" <=> x.filled = x.size)

\* What the OMS knows of a linked order: never more than the exchange has
\* filled, all of it once a poll saw the end, and less than the whole size while
\* the order is not terminal, so that the poll which sees the last fill counts it.
Agrees(o, x) ==
  /\ o.filled <= x.filled
  /\ o.status \notin Terminal => o.filled < x.size
  /\ o.status \in {"Filled", "Expired"} => o.filled = x.filled /\ x.status # "Open"

\* The link between an order and the order at the exchange.
Linked(id, o, links, ex) ==
  o.exchange_order_id # NoId =>
    /\ o.exchange_order_id \in DOMAIN links
    /\ links[o.exchange_order_id] = id
    /\ o.exchange_order_id \in DOMAIN ex
    /\ ex[o.exchange_order_id].id = id
    /\ Agrees(o, ex[o.exchange_order_id])

\* The fields of OrderManagerState and of ManagedOrder.
Fields == {"next_id", "orders", "exchange_to_oms", "total_submitted", "total_filled",
           "total_rejected", "total_cancelled", "total_volume_usd"}
OrderFields == {"size", "exchange_order_id", "status", "filled"}

\* A record with exactly the fields of OrderManagerState, and a table in it.
IsState(s) ==
  /\ DOMAIN s = Fields /\ s = [f \in Fields |-> s[f]]
  /\ s.orders = [id \in DOMAIN s.orders |-> s.orders[id]]

\* The exchange hands out the ids 0, 1, 2, ...
ExchangeOK ==
  /\ NextEid \in Nat
  /\ exch \in [0..(NextEid - 1) -> ExchangeOrder]
  /\ \A eid \in DOMAIN exch : Sound(exch[eid])

\* Every order of the table, with its link and what was published for it.
OrdersOK ==
  /\ st.orders \in [Ids -> Order]
  /\ \A id \in Ids : Growing(published[id], st.orders[id].filled)
  /\ \A id \in Ids : Linked(id, st.orders[id], st.exchange_to_oms, exch)

\* The reverse map holds nothing but links.
LinksOK ==
  \A eid \in DOMAIN st.exchange_to_oms :
    st.orders[st.exchange_to_oms[eid]].exchange_order_id = eid

\* The order being placed is still Pending, and the orders of a poll or cancel
\* round stay active until their turn: no other branch of the loop runs.
TaskOK ==
  /\ task.at = "place" => /\ st.orders[task.id].status = "Pending"
                          /\ st.orders[task.id].exchange_order_id = NoId
                          /\ st.orders[task.id].filled = 0
                          /\ published[task.id] = <<>>
  /\ task.at \in {"poll", "cancel"} => task.todo \subseteq ActiveOrders(st)

IInv ==
  /\ TypeOK
  /\ IsState(st)
  /\ st.total_cancelled \in Nat
  /\ published = [id \in Ids |-> published[id]]
  /\ ExchangeOK
  /\ OrdersOK
  /\ LinksOK
  /\ TaskOK
  /\ CountersMatch

----------------------------------------------------------------------------
(***************************************************************************)
(* Lemmas.                                                                 *)
(***************************************************************************)

\* Nothing published, nothing filled; and one first quantity is in order.
LEMMA GrowingStart ==
  /\ Growing(<<>>, 0)
  /\ \A f \in Nat : Growing(<<f>>, f)
BY DEF Growing

\* Publishing a larger quantity than the last keeps the quantities growing.
LEMMA GrowingAppend ==
  ASSUME NEW qs, NEW f, Growing(qs, f), NEW g \in Nat, g > f
  PROVE  Growing(Append(qs, g), g)
<1> DEFINE ps == Append(qs, g)
<1>1. /\ Len(ps) = Len(qs) + 1 /\ Len(qs) \in Nat
      /\ ps \in Seq(Nat)
      /\ \A i \in 1..Len(qs) : ps[i] = qs[i]
      /\ ps[Len(qs) + 1] = g
  <2>1. qs \in Seq(Nat)
    BY DEF Growing
  <2> QED
    BY <2>1
<1> HIDE DEF ps
<1>0. ps # <<>>
  BY <1>1
<1>2. ASSUME NEW i \in 1..(Len(ps) - 1) PROVE ps[i] < ps[i + 1]
  <2>1. CASE i \in 1..(Len(qs) - 1)
    <3>1. qs[i] < qs[i + 1]
      BY <2>1 DEF Growing
    <3> QED
      BY <1>1, <2>1, <3>1
  <2>2. CASE i = Len(qs)
    <3>1. qs # <<>> /\ f = qs[i]
      BY <1>1, <2>2 DEF Growing
    <3> QED
      BY <1>1, <2>2, <3>1
  <2> QED
    BY <1>1, <2>1, <2>2
<1>3. Growing(ps, g)
  BY <1>0, <1>1, <1>2 DEF Growing
<1> QED
  BY <1>3 DEF ps

\* The orders with a status and the volume of the filled ones, of any table.
With(f, s) == {x \in DOMAIN f : f[x].status = s}
Count(f, s) == Cardinality(With(f, s))
VolumeOf(f) == SumFunctionOnSet([x \in DOMAIN f |-> f[x].filled], With(f, "Filled"))

\* When one order that was not terminal changes, or a new one comes, the
\* counts of the terminal statuses change by that order alone.
LEMMA CountStep ==
  ASSUME NEW f, NEW g, NEW id, IsFiniteSet(DOMAIN f),
         DOMAIN g = DOMAIN f \cup {id},
         \A x \in DOMAIN f \ {id} : g[x] = f[x],
         id \in DOMAIN f => f[id].status \notin Terminal,
         \A x \in DOMAIN f : f[x].filled \in Nat,
         g[id].filled \in Nat
  PROVE  /\ \A s \in Terminal :
               /\ Count(f, s) \in Nat
               /\ Count(g, s) = IF g[id].status = s THEN Count(f, s) + 1 ELSE Count(f, s)
         /\ VolumeOf(f) \in Int
         /\ VolumeOf(g) = IF g[id].status = "Filled" THEN VolumeOf(f) + g[id].filled
                          ELSE VolumeOf(f)
<1>1. \A s : IsFiniteSet(With(f, s))
  BY FS_Subset DEF With
<1>2. ASSUME NEW s \in Terminal
      PROVE  /\ id \notin With(f, s)
             /\ With(g, s) = IF g[id].status = s THEN With(f, s) \cup {id} ELSE With(f, s)
  <2>1. id \notin With(f, s)
    BY DEF With
  <2>2. CASE g[id].status = s
    <3>1. \A x : x \in With(g, s) <=> x \in With(f, s) \cup {id}
      BY <2>2 DEF With
    <3> QED
      BY <2>1, <2>2, <3>1
  <2>3. CASE g[id].status # s
    <3>1. \A x : x \in With(g, s) <=> x \in With(f, s)
      BY <2>1, <2>3 DEF With
    <3> QED
      BY <2>1, <2>3, <3>1
  <2> QED
    BY <2>2, <2>3
<1>3. ASSUME NEW s \in Terminal
      PROVE  /\ Count(f, s) \in Nat
             /\ Count(g, s) = IF g[id].status = s THEN Count(f, s) + 1 ELSE Count(f, s)
  <2>1. Count(f, s) = Cardinality(With(f, s)) /\ Count(g, s) = Cardinality(With(g, s))
    BY DEF Count
  <2>2. Cardinality(With(f, s)) \in Nat
    BY <1>1, FS_CardinalityType
  <2>3. Cardinality(With(f, s) \cup {id}) = Cardinality(With(f, s)) + 1
    <3>1. IsFiniteSet(With(f, s)) /\ id \notin With(f, s)
      BY <1>1, <1>2
    <3> QED
      BY <3>1, FS_AddElement
  <2> QED
    BY <1>2, <2>1, <2>2, <2>3
<1> DEFINE F == With(f, "Filled")
           tf == [x \in DOMAIN f |-> f[x].filled]
           tg == [x \in DOMAIN g |-> g[x].filled]
<1>4. /\ VolumeOf(f) = SumFunctionOnSet(tf, F)
      /\ VolumeOf(g) = SumFunctionOnSet(tg, With(g, "Filled"))
  BY DEF VolumeOf
<1>5. /\ "Filled" \in Terminal /\ IsFiniteSet(F) /\ id \notin F
      /\ \A x \in F : tf[x] \in Int /\ tg[x] = tf[x]
      /\ tg[id] = g[id].filled
  <2>1. "Filled" \in Terminal /\ IsFiniteSet(F) /\ id \notin F
    BY <1>1, <1>2 DEF Terminal
  <2>2. F \subseteq DOMAIN f
    BY DEF With
  <2> HIDE DEF F
  <2> QED
    BY <2>1, <2>2
<1>6. /\ SumFunctionOnSet(tf, F) \in Int
      /\ SumFunctionOnSet(tg, F) = SumFunctionOnSet(tf, F)
  <2> HIDE DEF F, tf, tg
  <2> QED
    BY <1>5, SumType, SumCong
<1>7. SumFunctionOnSet(tg, F \cup {id}) = g[id].filled + SumFunctionOnSet(tg, F)
  <2>1. IsFiniteSet(F \cup {id}) /\ (F \cup {id}) \ {id} = F
    BY <1>5, FS_AddElement
  <2> HIDE DEF F, tf, tg
  <2>2. \A x \in F \cup {id} : tg[x] \in Int
    BY <1>5
  <2>3. SumFunctionOnSet(tg, F \cup {id}) = tg[id] + SumFunctionOnSet(tg, (F \cup {id}) \ {id})
    BY <2>1, <2>2, SumRemove
  <2> QED
    BY <1>5, <2>1, <2>3
<1>8. VolumeOf(g) = IF g[id].status = "Filled" THEN VolumeOf(f) + g[id].filled
                    ELSE VolumeOf(f)
  <2>1. With(g, "Filled") = IF g[id].status = "Filled" THEN F \cup {id} ELSE F
    BY <1>2, <1>5
  <2>2. VolumeOf(f) \in Int
    BY <1>4, <1>6
  <2> HIDE DEF F, tf, tg
  <2>3. CASE g[id].status = "Filled"
    <3>1. VolumeOf(g) = SumFunctionOnSet(tg, F \cup {id})
      BY <1>4, <2>1, <2>3
    <3> QED
      BY <1>4, <1>6, <1>7, <2>2, <2>3, <3>1
  <2>4. CASE g[id].status # "Filled"
    BY <1>4, <1>6, <2>1, <2>4
  <2> QED
    BY <2>3, <2>4
<1> QED
  BY <1>3, <1>4, <1>6, <1>8

\* How an order at the exchange may change: only while it is open.
Evolved(x, y) ==
  y = x \/ (x.status = "Open" /\ y.id = x.id /\ y.size = x.size /\ y.filled >= x.filled)

\* What links the OMS has, and what it knows behind them, stays right when the
\* exchange moves on and links are added.
LEMMA LinkedKept ==
  ASSUME NEW id, NEW o \in Order, NEW links, NEW links2, NEW ex, NEW ex2,
         Linked(id, o, links, ex),
         \A e \in DOMAIN links : e \in DOMAIN links2 /\ links2[e] = links[e],
         \A e \in DOMAIN ex : e \in DOMAIN ex2 /\ Evolved(ex[e], ex2[e]),
         \A e \in DOMAIN ex : ex[e] \in ExchangeOrder /\ ex2[e] \in ExchangeOrder
  PROVE  Linked(id, o, links2, ex2)
<1> SUFFICES ASSUME o.exchange_order_id # NoId PROVE Linked(id, o, links2, ex2)
  BY DEF Linked
<1> DEFINE e == o.exchange_order_id
<1>1. /\ e \in DOMAIN links /\ links[e] = id
      /\ e \in DOMAIN ex /\ ex[e].id = id /\ Agrees(o, ex[e])
  BY DEF Linked
<1>2. ex[e] \in ExchangeOrder /\ ex2[e] \in ExchangeOrder /\ Evolved(ex[e], ex2[e])
  BY <1>1
<1> HIDE DEF e
<1>3. ex2[e].id = id /\ Agrees(o, ex2[e])
  <2>1. CASE ex2[e] = ex[e]
    BY <1>1, <2>1
  <2>2. CASE ex2[e] # ex[e]
    <3>1. ex[e].status = "Open" /\ ex2[e].id = ex[e].id /\ ex2[e].size = ex[e].size
          /\ ex2[e].filled >= ex[e].filled
      BY <1>2, <2>2 DEF Evolved
    <3>2. o.filled \in Nat /\ ex[e].filled \in Nat /\ ex2[e].filled \in Nat
      BY <1>2 DEF Order, ExchangeOrder
    <3> QED
      BY <1>1, <3>1, <3>2 DEF Agrees
  <2> QED
    BY <2>1, <2>2
<1> QED
  BY <1>1, <1>2, <1>3 DEF e, Linked

\* The parts of the type invariant that are about the task.
TaskTypes == {Select} \cup [at : {"place"}, id : Ids, attempt : 0..MaxRetries]
                      \cup [at : {"poll", "cancel"}, todo : SUBSET Ids]

\* A step of the loop or the timers that touches neither the order table nor
\* the exchange.
LEMMA LoopStep ==
  ASSUME IInv, UNCHANGED <<st, live, exch, published>>,
         task' \in TaskTypes, TaskOK',
         poll_due' \in BOOLEAN, stale_due' \in BOOLEAN, aged' \subseteq Ids
  PROVE  IInv'
<1>1. TypeOK'
  <2>1. Ids' = Ids
    BY DEF Ids
  <2> QED
    BY <2>1 DEF IInv, TypeOK, TaskTypes
<1>2. /\ IsState(st)' /\ st'.total_cancelled \in Nat
      /\ (published = [id \in Ids |-> published[id]])'
      /\ ExchangeOK' /\ OrdersOK' /\ LinksOK' /\ CountersMatch'
  BY DEF IInv, ExchangeOK, NextEid, OrdersOK, LinksOK, CountersMatch, WithStatus, Ids
<1> QED
  BY <1>1, <1>2 DEF IInv

\* The initial table is empty.
LEMMA InitInv == Init => IInv
<1> SUFFICES ASSUME Init PROVE IInv
  OBVIOUS
<1>1. /\ st.next_id = 0 /\ st.orders = EmptyMap /\ st.exchange_to_oms = EmptyMap
      /\ st.total_submitted = 0 /\ st.total_filled = 0 /\ st.total_rejected = 0
      /\ st.total_cancelled = 0 /\ st.total_volume_usd = 0
      /\ IsState(st)
  BY DEF Init, NewState, IsState, Fields, EmptyMap
<1>2. Ids = {}
  BY <1>1 DEF Ids
<1>3. EmptyMap = [k \in {} |-> k] /\ DOMAIN EmptyMap = {}
  BY DEF EmptyMap
<1>4. TypeOK
  <2>1. st.orders \in [Ids -> [size : Nat, exchange_order_id : Nat \cup {NoId},
                               status : Statuses, filled : Nat]]
    BY <1>1, <1>2, <1>3
  <2>2. IsMap(st.exchange_to_oms, Nat, Ids)
    BY <1>1, <1>3 DEF IsMap
  <2>3. live \in BOOLEAN /\ poll_due \in BOOLEAN /\ stale_due \in BOOLEAN
    BY OmsConstants DEF Init
  <2>4. /\ st.next_id \in Nat
        /\ task \in {Select} \cup [at : {"place"}, id : Ids, attempt : 0..MaxRetries]
                             \cup [at : {"poll", "cancel"}, todo : SUBSET Ids]
    BY <1>1 DEF Init
  <2>5. /\ aged \subseteq Ids /\ DOMAIN published = Ids
        /\ \A eid \in DOMAIN exch : exch[eid].id \in Ids /\ exch[eid].filled \in 0..exch[eid].size
    BY <1>2, <1>3 DEF Init
  <2> QED
    BY <1>1, <2>1, <2>2, <2>3, <2>4, <2>5, Zenon DEF TypeOK
<1>5. ExchangeOK
  <2>1. NextEid = 0
    BY <1>3, FS_EmptySet DEF Init, NextEid
  <2> QED
    BY <1>3, <2>1 DEF Init, ExchangeOK
<1>6. OrdersOK /\ LinksOK /\ TaskOK
  BY <1>1, <1>2, <1>3 DEF Init, OrdersOK, LinksOK, TaskOK, Select
<1>7. CountersMatch
  <2>1. \A s : WithStatus(s) = {}
    BY <1>1, <1>3 DEF WithStatus
  <2>2. IsFiniteSet({}) /\ Cardinality({}) = 0
    BY FS_EmptySet
  <2>3. SumFunctionOnSet([id \in DOMAIN st.orders |-> st.orders[id].filled], {}) = 0
    BY <2>2, SumType
  <2>4. st.total_submitted = Cardinality(DOMAIN st.orders)
    BY <1>1, <1>3, <2>2
  <2>5. \A s : Cardinality(WithStatus(s)) = 0
    BY <2>1, <2>2
  <2>6. st.total_volume_usd = SumFunctionOnSet([id \in DOMAIN st.orders |-> st.orders[id].filled],
                                               WithStatus("Filled"))
    BY <1>1, <2>1, <2>3
  <2> QED
    BY <1>1, <2>4, <2>5, <2>6 DEF CountersMatch
<1>8. published = [id \in Ids |-> published[id]]
  BY <1>2, <1>3 DEF Init
<1> QED
  BY <1>1, <1>4, <1>5, <1>6, <1>7, <1>8 DEF IInv

\* Timers and ages.
LEMMA TimersInv ==
  ASSUME IInv, PollTimer \/ StaleTimer \/ \E id \in DOMAIN st.orders : Age(id)
  PROVE  IInv'
<1>1. /\ UNCHANGED <<st, live, exch, published, task>>
      /\ poll_due' \in BOOLEAN /\ stale_due' \in BOOLEAN /\ aged' \subseteq Ids
  BY DEF IInv, TypeOK, PollTimer, StaleTimer, Age
<1>2. task' \in TaskTypes /\ TaskOK'
  BY <1>1 DEF IInv, TypeOK, TaskTypes, TaskOK, ActiveOrders
<1> QED
  BY <1>1, <1>2, LoopStep

\* A round over active orders is a legal task.
LEMMA RoundOK ==
  ASSUME IInv, NEW at \in {"poll", "cancel"}, NEW todo \in SUBSET ActiveOrders(st)
  PROVE  /\ Round(at, todo) \in TaskTypes
         /\ Round(at, todo).at # "place"
         /\ Round(at, todo).at \in {"poll", "cancel"} => Round(at, todo).todo = todo
<1>1. todo \subseteq Ids
  BY DEF ActiveOrders, IInv, TypeOK
<1>2. CASE todo = {}
  BY <1>2 DEF Round, Select, TaskTypes
<1>3. CASE todo # {}
  <2>1. Round(at, todo) = [at |-> at, todo |-> todo]
    BY <1>3 DEF Round
  <2> QED
    BY <1>1, <2>1 DEF TaskTypes
<1> QED
  BY <1>2, <1>3

\* Rounds start with active orders, and an order whose request fails leaves
\* the round as it was.
LEMMA RoundsInv ==
  ASSUME IInv,
         StartPoll \/ StartCancel \/ \E id \in DOMAIN st.orders : PollErr(id)
  PROVE  IInv'
<1>1. /\ UNCHANGED <<st, live, exch, published>> /\ aged' = aged
      /\ poll_due' \in BOOLEAN /\ stale_due' \in BOOLEAN /\ aged' \subseteq Ids
  BY DEF IInv, TypeOK, StartPoll, StartCancel, PollErr
<1>2. \E at \in {"poll", "cancel"}, todo \in SUBSET ActiveOrders(st) : task' = Round(at, todo)
  <2>1. CASE StartPoll
    BY <2>1 DEF StartPoll
  <2>2. CASE StartCancel
    BY <2>2 DEF StartCancel
  <2>3. ASSUME NEW id \in DOMAIN st.orders, PollErr(id)
        PROVE  \E at \in {"poll", "cancel"}, todo \in SUBSET ActiveOrders(st) : task' = Round(at, todo)
    BY <2>3 DEF PollErr, IInv, TaskOK
  <2> QED
    BY <2>1, <2>2, <2>3
<1>3. task' \in TaskTypes /\ TaskOK'
  <2>1. PICK at \in {"poll", "cancel"}, todo \in SUBSET ActiveOrders(st) : task' = Round(at, todo)
    BY <1>2
  <2>2. ActiveOrders(st)' = ActiveOrders(st)
    BY <1>1
  <2> QED
    BY <2>1, <2>2, RoundOK DEF TaskOK
<1> QED
  BY <1>1, <1>3, LoopStep

\* The exchange takes a legal step: ids, sizes and types stay, and only open
\* orders change.
ExchangeMoves ==
  /\ ExchangeOK'
  /\ \A e \in DOMAIN exch : /\ e \in DOMAIN exch'
                            /\ Evolved(exch[e], exch'[e])
                            /\ exch[e] \in ExchangeOrder /\ exch'[e] \in ExchangeOrder
  /\ \A e \in DOMAIN exch' : exch'[e].id \in Ids'

\* One order at the exchange changes.
LEMMA ExchangeChanges ==
  ASSUME IInv, Ids \subseteq Ids', NEW eid \in DOMAIN exch, NEW x \in ExchangeOrder,
         Sound(x), Evolved(exch[eid], x), exch' = [exch EXCEPT ![eid] = x]
  PROVE  ExchangeMoves
<1>1. /\ NextEid \in Nat /\ exch \in [0..(NextEid - 1) -> ExchangeOrder]
      /\ \A e \in DOMAIN exch : Sound(exch[e]) /\ exch[e].id \in Ids
  BY DEF IInv, TypeOK, ExchangeOK
<1>2. /\ DOMAIN exch' = DOMAIN exch /\ exch'[eid] = x
      /\ exch' \in [0..(NextEid - 1) -> ExchangeOrder]
      /\ \A e \in DOMAIN exch \ {eid} : exch'[e] = exch[e]
  BY <1>1
<1>3. NextEid' = NextEid
  BY <1>2 DEF NextEid
<1>4. ExchangeOK'
  BY <1>1, <1>2, <1>3 DEF ExchangeOK
<1>5. \A e \in DOMAIN exch : /\ Evolved(exch[e], exch'[e]) /\ exch'[e].id = exch[e].id
                             /\ exch[e] \in ExchangeOrder /\ exch'[e] \in ExchangeOrder
  BY <1>1, <1>2 DEF Evolved
<1> QED
  BY <1>1, <1>2, <1>4, <1>5 DEF ExchangeMoves

\* An order arrives at the exchange.
LEMMA ExchangeAccepts ==
  ASSUME IInv, Ids' = Ids, NEW id \in Ids, exch' = Accepted(id)
  PROVE  /\ ExchangeMoves
         /\ NextEid \in DOMAIN exch' /\ NextEid \notin DOMAIN exch
         /\ exch'[NextEid] = [id |-> id, size |-> st.orders[id].size,
                              filled |-> 0, status |-> "Open"]
<1> DEFINE x == [id |-> id, size |-> st.orders[id].size, filled |-> 0, status |-> "Open"]
<1>1. /\ NextEid \in Nat /\ exch \in [0..(NextEid - 1) -> ExchangeOrder]
      /\ \A e \in DOMAIN exch : Sound(exch[e]) /\ exch[e].id \in Ids
      /\ st.orders[id] \in Order /\ id \in Nat
  BY DEF IInv, TypeOK, ExchangeOK, OrdersOK, Ids
<1>2. x \in ExchangeOrder /\ Sound(x) /\ x.id = id
  BY <1>1 DEF Order, ExchangeOrder, ExchangeStatuses, Sound
<1>3. exch' = [e \in DOMAIN exch \cup {NextEid} |-> IF e = NextEid THEN x ELSE exch[e]]
  BY DEF Accepted, Insert
<1> HIDE DEF x
<1>4. /\ DOMAIN exch' = 0..NextEid /\ exch'[NextEid] = x
      /\ NextEid \notin DOMAIN exch
      /\ \A e \in DOMAIN exch : e \in DOMAIN exch' /\ exch'[e] = exch[e]
  BY <1>1, <1>3
<1>5. NextEid' = NextEid + 1
  BY <1>1, <1>4, FS_Interval DEF NextEid
<1>6. ExchangeOK'
  <2>1. \A e \in 0..NextEid : exch'[e] \in ExchangeOrder /\ Sound(exch'[e])
    BY <1>1, <1>2, <1>4
  <2>2. exch' \in [0..NextEid -> ExchangeOrder]
    BY <1>3, <1>4, <2>1
  <2>3. 0..(NextEid' - 1) = 0..NextEid /\ NextEid' \in Nat
    BY <1>1, <1>5
  <2>4. exch' \in [0..(NextEid' - 1) -> ExchangeOrder]
    BY <2>2, <2>3
  <2>5. \A e \in DOMAIN exch' : Sound(exch'[e])
    BY <1>4, <2>1
  <2> QED
    BY <2>3, <2>4, <2>5 DEF ExchangeOK
<1>7. \A e \in DOMAIN exch' : exch'[e].id \in Ids'
  BY <1>1, <1>2, <1>4
<1>8. \A e \in DOMAIN exch : /\ Evolved(exch[e], exch'[e])
                             /\ exch[e] \in ExchangeOrder /\ exch'[e] \in ExchangeOrder
  BY <1>1, <1>4 DEF Evolved
<1>9. ExchangeMoves
  BY <1>4, <1>6, <1>7, <1>8 DEF ExchangeMoves
<1>10. NextEid \in DOMAIN exch'
  BY <1>3
<1> QED
  BY <1>4, <1>9, <1>10 DEF x

\* A step that leaves the order table alone, while the exchange may move.
LEMMA OutsideStep ==
  ASSUME IInv, UNCHANGED <<st, live, published>>, ExchangeMoves,
         task' \in TaskTypes, TaskOK',
         poll_due' \in BOOLEAN, stale_due' \in BOOLEAN, aged' \subseteq Ids
  PROVE  IInv'
<1>1. Ids' = Ids
  BY DEF Ids
<1>2. TypeOK'
  <2>1. \A e \in DOMAIN exch' : exch'[e].id \in Ids' /\ exch'[e].filled \in 0..exch'[e].size
    <3> SUFFICES ASSUME NEW e \in DOMAIN exch'
                 PROVE  exch'[e].id \in Ids' /\ exch'[e].filled \in 0..exch'[e].size
      OBVIOUS
    <3>1. exch'[e] \in ExchangeOrder /\ Sound(exch'[e]) /\ exch'[e].id \in Ids'
      BY DEF ExchangeMoves, ExchangeOK
    <3> QED
      BY <3>1 DEF Sound, ExchangeOrder
  <2> QED
    BY <1>1, <2>1 DEF IInv, TypeOK, TaskTypes
<1>3. OrdersOK'
  <2>1. \A id \in Ids : st.orders[id] \in Order /\ Linked(id, st.orders[id], st.exchange_to_oms, exch)
    BY DEF IInv, OrdersOK
  <2>2. \A id \in Ids : Linked(id, st.orders[id], st.exchange_to_oms, exch')
    BY <2>1, LinkedKept DEF ExchangeMoves
  <2> QED
    BY <1>1, <2>2 DEF IInv, OrdersOK
<1>4. /\ IsState(st)' /\ st'.total_cancelled \in Nat
      /\ (published = [id \in Ids |-> published[id]])'
      /\ LinksOK' /\ CountersMatch'
  BY DEF IInv, LinksOK, CountersMatch, WithStatus, Ids
<1> QED
  BY <1>2, <1>3, <1>4 DEF IInv, ExchangeMoves

\* An open order after one more fill, and after its end.
AfterFill(x) ==
  [x EXCEPT !.filled = @ + 1, !.status = IF x.filled + 1 = x.size THEN "Filled" ELSE @]
AfterEnd(x, status) == [x EXCEPT !.status = status]

\* Changing two fields is changing one and then the other.
LEMMA TwoFields ==
  ASSUME NEW x, NEW g, NEW s
  PROVE  [x EXCEPT !.filled = g, !.status = s] = [[x EXCEPT !.filled = g] EXCEPT !.status = s]
OBVIOUS

\* Both are legal steps of an order at the exchange.
LEMMA ExchangeEdits ==
  ASSUME NEW x \in ExchangeOrder, Sound(x), x.status = "Open"
  PROVE  /\ AfterFill(x) \in ExchangeOrder /\ Sound(AfterFill(x)) /\ Evolved(x, AfterFill(x))
         /\ \A status \in {"Cancelled", "Expired"} :
              /\ AfterEnd(x, status) \in ExchangeOrder /\ Sound(AfterEnd(x, status))
              /\ Evolved(x, AfterEnd(x, status))
<1>1. /\ x = [id |-> x.id, size |-> x.size, filled |-> x.filled, status |-> "Open"]
      /\ x.id \in Nat /\ x.size \in Nat \ {0} /\ x.filled \in Nat /\ x.filled < x.size
  BY DEF ExchangeOrder, Sound
<1>2. AfterFill(x) \in ExchangeOrder /\ Sound(AfterFill(x)) /\ Evolved(x, AfterFill(x))
  <2> DEFINE s == IF x.filled + 1 = x.size THEN "Filled" ELSE "Open"
             y == [id |-> x.id, size |-> x.size, filled |-> x.filled + 1, status |-> s]
  <2>1. s \in ExchangeStatuses /\ (s = "Filled" <=> x.filled + 1 = x.size)
    BY DEF ExchangeStatuses
  <2>2. AfterFill(x) = y
    <3>1. AfterFill(x) = [[x EXCEPT !.filled = x.filled + 1] EXCEPT !.status = s]
      BY <1>1, TwoFields, Zenon DEF AfterFill
    <3>2. [x EXCEPT !.filled = x.filled + 1]
          = [id |-> x.id, size |-> x.size, filled |-> x.filled + 1, status |-> "Open"]
      BY <1>1
    <3> QED
      BY <3>1, <3>2
  <2> HIDE DEF s
  <2>3. y \in ExchangeOrder /\ Sound(y) /\ Evolved(x, y)
    BY <1>1, <2>1 DEF ExchangeOrder, Sound, Evolved
  <2> QED
    BY <2>2, <2>3
<1>3. ASSUME NEW status \in {"Cancelled", "Expired"}
      PROVE  /\ AfterEnd(x, status) \in ExchangeOrder /\ Sound(AfterEnd(x, status))
             /\ Evolved(x, AfterEnd(x, status))
  <2> DEFINE y == [id |-> x.id, size |-> x.size, filled |-> x.filled, status |-> status]
  <2>1. AfterEnd(x, status) = y
    BY <1>1 DEF AfterEnd
  <2>2. y \in ExchangeOrder /\ Sound(y) /\ Evolved(x, y)
    BY <1>1 DEF ExchangeOrder, ExchangeStatuses, Sound, Evolved
  <2> QED
    BY <2>1, <2>2
<1> QED
  BY <1>2, <1>3

\* Fills and endings at the exchange.
LEMMA ExchangeInv ==
  ASSUME IInv, NEW eid \in DOMAIN exch,
         ExchangeFill(eid) \/ \E status \in {"Cancelled", "Expired"} : ExchangeEnd(eid, status)
  PROVE  IInv'
<1>1. /\ exch[eid] \in ExchangeOrder /\ Sound(exch[eid]) /\ exch[eid].status = "Open"
      /\ UNCHANGED <<st, live, task, poll_due, stale_due, aged, published>>
  BY DEF IInv, ExchangeOK, ExchangeFill, ExchangeEnd, IsLive
<1>2. PICK x \in ExchangeOrder : /\ exch' = [exch EXCEPT ![eid] = x]
                                 /\ Sound(x) /\ Evolved(exch[eid], x)
  <2>1. CASE ExchangeFill(eid)
    <3>1. exch' = [exch EXCEPT ![eid] = AfterFill(exch[eid])]
      BY <2>1 DEF ExchangeFill, AfterFill
    <3> QED
      BY <1>1, <3>1, ExchangeEdits
  <2>2. ASSUME NEW status \in {"Cancelled", "Expired"}, ExchangeEnd(eid, status)
        PROVE  \E x \in ExchangeOrder : /\ exch' = [exch EXCEPT ![eid] = x]
                                         /\ Sound(x) /\ Evolved(exch[eid], x)
    <3>1. exch' = [exch EXCEPT ![eid] = AfterEnd(exch[eid], status)]
      BY <2>2 DEF ExchangeEnd, AfterEnd
    <3> QED
      BY <1>1, <3>1, ExchangeEdits
  <2> QED
    BY <2>1, <2>2
<1>3. ExchangeMoves
  BY <1>1, <1>2, ExchangeChanges DEF Ids
<1>4. task' \in TaskTypes /\ TaskOK' /\ aged' \subseteq Ids
      /\ poll_due' \in BOOLEAN /\ stale_due' \in BOOLEAN
  BY <1>1 DEF IInv, TypeOK, TaskTypes, TaskOK, ActiveOrders
<1> QED
  BY <1>1, <1>3, <1>4, OutsideStep

(***************************************************************************)
(* What the methods of OrderManagerState do.                               *)
(***************************************************************************)

\* The tables of s and t are the same but for order id, which is o in t.
OneOrder(s, t, id, o) ==
  /\ IsState(t)
  /\ DOMAIN t.orders = DOMAIN s.orders \cup {id}
  /\ t.orders[id] = o
  /\ \A x \in DOMAIN s.orders \ {id} : t.orders[x] = s.orders[x]

\* An order is given by its four fields.
LEMMA OrderShape ==
  ASSUME NEW o, DOMAIN o = OrderFields, o = [f \in OrderFields |-> o[f]]
  PROVE  o = [size |-> o.size, exchange_order_id |-> o.exchange_order_id,
              status |-> o.status, filled |-> o.filled]
BY DEF OrderFields

\* insert_order adds a Pending order under the next id.
LEMMA InsertOrderDoes ==
  ASSUME NEW s, IsState(s), NEW size
  PROVE  LET t == InsertOrder(s, size)
         IN  /\ OneOrder(s, t, s.next_id, [size |-> size, exchange_order_id |-> NoId,
                                            status |-> "Pending", filled |-> 0])
             /\ t.next_id = s.next_id + 1
             /\ t.exchange_to_oms = s.exchange_to_oms
             /\ t.total_submitted = s.total_submitted + 1
             /\ t.total_filled = s.total_filled
             /\ t.total_rejected = s.total_rejected
             /\ t.total_cancelled = s.total_cancelled
             /\ t.total_volume_usd = s.total_volume_usd
<1> DEFINE t == InsertOrder(s, size)
           o == [size |-> size, exchange_order_id |-> NoId, status |-> "Pending", filled |-> 0]
<1>1. /\ DOMAIN t = Fields /\ t = [f \in Fields |-> t[f]]
      /\ t.orders = Insert(s.orders, s.next_id, o)
      /\ t.next_id = s.next_id + 1
      /\ t.exchange_to_oms = s.exchange_to_oms
      /\ t.total_submitted = s.total_submitted + 1
      /\ t.total_filled = s.total_filled
      /\ t.total_rejected = s.total_rejected
      /\ t.total_cancelled = s.total_cancelled
      /\ t.total_volume_usd = s.total_volume_usd
  BY DEF IsState, InsertOrder, Fields
<1> HIDE DEF t, o
<1>2. OneOrder(s, t, s.next_id, o)
  BY <1>1 DEF OneOrder, IsState, Insert
<1> QED
  BY <1>1, <1>2, Zenon DEF t, o

\* The table after a confirmed cancellation (CancelOk).
Cancelled(s, id) == [s EXCEPT !.orders[id].status = "Cancelled", !.total_cancelled = @ + 1]

\* set_exchange_id links an order both ways and opens it.
LEMMA SetExchangeIdDoes ==
  ASSUME NEW s, IsState(s), NEW id \in DOMAIN s.orders, s.orders[id] \in Order, NEW eid
  PROVE  LET t == SetExchangeId(s, id, eid)
             o == s.orders[id]
         IN  /\ OneOrder(s, t, id, [size |-> o.size, exchange_order_id |-> eid,
                                     status |-> "Open", filled |-> o.filled])
             /\ t.next_id = s.next_id
             /\ t.exchange_to_oms = Insert(s.exchange_to_oms, eid, id)
             /\ t.total_submitted = s.total_submitted
             /\ t.total_filled = s.total_filled
             /\ t.total_rejected = s.total_rejected
             /\ t.total_cancelled = s.total_cancelled
             /\ t.total_volume_usd = s.total_volume_usd
<1> DEFINE t == SetExchangeId(s, id, eid)
           o == s.orders[id]
<1>1. /\ IsState(t) /\ DOMAIN t.orders = DOMAIN s.orders
      /\ \A x \in DOMAIN s.orders \ {id} : t.orders[x] = s.orders[x]
  BY DEF IsState, SetExchangeId, Fields
<1>2. DOMAIN o = OrderFields
  BY DEF Order, OrderFields
<1>3. /\ DOMAIN t.orders[id] = OrderFields
      /\ t.orders[id] = [f \in OrderFields |-> t.orders[id][f]]
      /\ t.orders[id].size = o.size /\ t.orders[id].exchange_order_id = eid
      /\ t.orders[id].status = "Open"
      /\ t.orders[id].filled = o.filled
  BY <1>2 DEF IsState, SetExchangeId, Fields, OrderFields
<1>4. t.orders[id] = [size |-> o.size, exchange_order_id |-> eid,
                      status |-> "Open", filled |-> o.filled]
  <2> HIDE DEF t, o
  <2> QED
    BY <1>3, OrderShape
<1>5. /\ t.next_id = s.next_id
      /\ t.exchange_to_oms = Insert(s.exchange_to_oms, eid, id)
      /\ t.total_submitted = s.total_submitted
      /\ t.total_filled = s.total_filled
      /\ t.total_rejected = s.total_rejected
      /\ t.total_cancelled = s.total_cancelled
      /\ t.total_volume_usd = s.total_volume_usd
  BY DEF IsState, SetExchangeId, Fields
<1> HIDE DEF t, o
<1>6. OneOrder(s, t, id, [size |-> o.size, exchange_order_id |-> eid,
                      status |-> "Open", filled |-> o.filled])
  BY <1>1, <1>4 DEF OneOrder
<1> QED
  BY <1>5, <1>6, Zenon DEF t, o

\* mark_rejected ends an order and counts it.
LEMMA MarkRejectedDoes ==
  ASSUME NEW s, IsState(s), NEW id \in DOMAIN s.orders, s.orders[id] \in Order
  PROVE  LET t == MarkRejected(s, id)
             o == s.orders[id]
         IN  /\ OneOrder(s, t, id, [size |-> o.size, exchange_order_id |-> o.exchange_order_id,
                                     status |-> "Rejected", filled |-> o.filled])
             /\ t.next_id = s.next_id
             /\ t.exchange_to_oms = s.exchange_to_oms
             /\ t.total_submitted = s.total_submitted
             /\ t.total_filled = s.total_filled
             /\ t.total_rejected = s.total_rejected + 1
             /\ t.total_cancelled = s.total_cancelled
             /\ t.total_volume_usd = s.total_volume_usd
<1> DEFINE t == MarkRejected(s, id)
           o == s.orders[id]
<1>1. /\ IsState(t) /\ DOMAIN t.orders = DOMAIN s.orders
      /\ \A x \in DOMAIN s.orders \ {id} : t.orders[x] = s.orders[x]
  BY DEF IsState, MarkRejected, Fields
<1>2. DOMAIN o = OrderFields
  BY DEF Order, OrderFields
<1>3. /\ DOMAIN t.orders[id] = OrderFields
      /\ t.orders[id] = [f \in OrderFields |-> t.orders[id][f]]
      /\ t.orders[id].size = o.size /\ t.orders[id].exchange_order_id = o.exchange_order_id
      /\ t.orders[id].status = "Rejected"
      /\ t.orders[id].filled = o.filled
  BY <1>2 DEF IsState, MarkRejected, Fields, OrderFields
<1>4. t.orders[id] = [size |-> o.size, exchange_order_id |-> o.exchange_order_id,
                      status |-> "Rejected", filled |-> o.filled]
  <2> HIDE DEF t, o
  <2> QED
    BY <1>3, OrderShape
<1>5. /\ t.next_id = s.next_id
      /\ t.exchange_to_oms = s.exchange_to_oms
      /\ t.total_submitted = s.total_submitted
      /\ t.total_filled = s.total_filled
      /\ t.total_rejected = s.total_rejected + 1
      /\ t.total_cancelled = s.total_cancelled
      /\ t.total_volume_usd = s.total_volume_usd
  BY DEF IsState, MarkRejected, Fields
<1> HIDE DEF t, o
<1>6. OneOrder(s, t, id, [size |-> o.size, exchange_order_id |-> o.exchange_order_id,
                      status |-> "Rejected", filled |-> o.filled])
  BY <1>1, <1>4 DEF OneOrder
<1> QED
  BY <1>5, <1>6, Zenon DEF t, o

\* apply_exchange_update takes status and filled quantity over.
LEMMA ApplyExchangeUpdateDoes ==
  ASSUME NEW s, IsState(s), NEW id \in DOMAIN s.orders, s.orders[id] \in Order, NEW snapshot
  PROVE  LET t == ApplyExchangeUpdate(s, id, snapshot)
             o == s.orders[id]
         IN  /\ OneOrder(s, t, id, [size |-> o.size, exchange_order_id |-> o.exchange_order_id,
                                     status |-> snapshot.status, filled |-> snapshot.filled])
             /\ t.next_id = s.next_id
             /\ t.exchange_to_oms = s.exchange_to_oms
             /\ t.total_submitted = s.total_submitted
             /\ t.total_filled = s.total_filled
             /\ t.total_rejected = s.total_rejected
             /\ t.total_cancelled = s.total_cancelled
             /\ t.total_volume_usd = s.total_volume_usd
<1> DEFINE t == ApplyExchangeUpdate(s, id, snapshot)
           o == s.orders[id]
<1>1. /\ IsState(t) /\ DOMAIN t.orders = DOMAIN s.orders
      /\ \A x \in DOMAIN s.orders \ {id} : t.orders[x] = s.orders[x]
  BY DEF IsState, ApplyExchangeUpdate, Fields
<1>2. DOMAIN o = OrderFields
  BY DEF Order, OrderFields
<1>3. /\ DOMAIN t.orders[id] = OrderFields
      /\ t.orders[id] = [f \in OrderFields |-> t.orders[id][f]]
      /\ t.orders[id].size = o.size /\ t.orders[id].exchange_order_id = o.exchange_order_id
      /\ t.orders[id].status = snapshot.status
      /\ t.orders[id].filled = snapshot.filled
  BY <1>2 DEF IsState, ApplyExchangeUpdate, Fields, OrderFields
<1>4. t.orders[id] = [size |-> o.size, exchange_order_id |-> o.exchange_order_id,
                      status |-> snapshot.status, filled |-> snapshot.filled]
  <2> HIDE DEF t, o
  <2> QED
    BY <1>3, OrderShape
<1>5. /\ t.next_id = s.next_id
      /\ t.exchange_to_oms = s.exchange_to_oms
      /\ t.total_submitted = s.total_submitted
      /\ t.total_filled = s.total_filled
      /\ t.total_rejected = s.total_rejected
      /\ t.total_cancelled = s.total_cancelled
      /\ t.total_volume_usd = s.total_volume_usd
  BY DEF IsState, ApplyExchangeUpdate, Fields
<1> HIDE DEF t, o
<1>6. OneOrder(s, t, id, [size |-> o.size, exchange_order_id |-> o.exchange_order_id,
                      status |-> snapshot.status, filled |-> snapshot.filled])
  BY <1>1, <1>4 DEF OneOrder
<1> QED
  BY <1>5, <1>6, Zenon DEF t, o

\* record_fill with fully_filled: the order is Filled and counted.
LEMMA RecordFullFillDoes ==
  ASSUME NEW s, IsState(s), NEW id \in DOMAIN s.orders, s.orders[id] \in Order, NEW filled
  PROVE  LET t == RecordFill(s, id, filled, TRUE)
             o == s.orders[id]
         IN  /\ OneOrder(s, t, id, [size |-> o.size, exchange_order_id |-> o.exchange_order_id,
                                     status |-> "Filled", filled |-> filled])
             /\ t.next_id = s.next_id
             /\ t.exchange_to_oms = s.exchange_to_oms
             /\ t.total_submitted = s.total_submitted
             /\ t.total_filled = s.total_filled + 1
             /\ t.total_rejected = s.total_rejected
             /\ t.total_cancelled = s.total_cancelled
             /\ t.total_volume_usd = s.total_volume_usd + filled
<1> DEFINE t == RecordFill(s, id, filled, TRUE)
           o == s.orders[id]
<1>1. /\ IsState(t) /\ DOMAIN t.orders = DOMAIN s.orders
      /\ \A x \in DOMAIN s.orders \ {id} : t.orders[x] = s.orders[x]
  BY DEF IsState, RecordFill, Fields
<1>2. DOMAIN o = OrderFields
  BY DEF Order, OrderFields
<1>3. /\ DOMAIN t.orders[id] = OrderFields
      /\ t.orders[id] = [f \in OrderFields |-> t.orders[id][f]]
      /\ t.orders[id].size = o.size /\ t.orders[id].exchange_order_id = o.exchange_order_id
      /\ t.orders[id].status = "Filled"
      /\ t.orders[id].filled = filled
  BY <1>2 DEF IsState, RecordFill, Fields, OrderFields
<1>4. t.orders[id] = [size |-> o.size, exchange_order_id |-> o.exchange_order_id,
                      status |-> "Filled", filled |-> filled]
  <2> HIDE DEF t, o
  <2> QED
    BY <1>3, OrderShape
<1>5. /\ t.next_id = s.next_id
      /\ t.exchange_to_oms = s.exchange_to_oms
      /\ t.total_submitted = s.total_submitted
      /\ t.total_filled = s.total_filled + 1
      /\ t.total_rejected = s.total_rejected
      /\ t.total_cancelled = s.total_cancelled
      /\ t.total_volume_usd = s.total_volume_usd + filled
  BY DEF IsState, RecordFill, Fields
<1> HIDE DEF t, o
<1>6. OneOrder(s, t, id, [size |-> o.size, exchange_order_id |-> o.exchange_order_id,
                      status |-> "Filled", filled |-> filled])
  BY <1>1, <1>4 DEF OneOrder
<1> QED
  BY <1>5, <1>6, Zenon DEF t, o

\* record_fill without it: the order is PartiallyFilled and not counted.
LEMMA RecordPartFillDoes ==
  ASSUME NEW s, IsState(s), NEW id \in DOMAIN s.orders, s.orders[id] \in Order, NEW filled
  PROVE  LET t == RecordFill(s, id, filled, FALSE)
             o == s.orders[id]
         IN  /\ OneOrder(s, t, id, [size |-> o.size, exchange_order_id |-> o.exchange_order_id,
                                     status |-> "PartiallyFilled", filled |-> filled])
             /\ t.next_id = s.next_id
             /\ t.exchange_to_oms = s.exchange_to_oms
             /\ t.total_submitted = s.total_submitted
             /\ t.total_filled = s.total_filled
             /\ t.total_rejected = s.total_rejected
             /\ t.total_cancelled = s.total_cancelled
             /\ t.total_volume_usd = s.total_volume_usd
<1> DEFINE t == RecordFill(s, id, filled, FALSE)
           o == s.orders[id]
<1>1. /\ IsState(t) /\ DOMAIN t.orders = DOMAIN s.orders
      /\ \A x \in DOMAIN s.orders \ {id} : t.orders[x] = s.orders[x]
  BY DEF IsState, RecordFill, Fields
<1>2. DOMAIN o = OrderFields
  BY DEF Order, OrderFields
<1>3. /\ DOMAIN t.orders[id] = OrderFields
      /\ t.orders[id] = [f \in OrderFields |-> t.orders[id][f]]
      /\ t.orders[id].size = o.size /\ t.orders[id].exchange_order_id = o.exchange_order_id
      /\ t.orders[id].status = "PartiallyFilled"
      /\ t.orders[id].filled = filled
  BY <1>2 DEF IsState, RecordFill, Fields, OrderFields
<1>4. t.orders[id] = [size |-> o.size, exchange_order_id |-> o.exchange_order_id,
                      status |-> "PartiallyFilled", filled |-> filled]
  <2> HIDE DEF t, o
  <2> QED
    BY <1>3, OrderShape
<1>5. /\ t.next_id = s.next_id
      /\ t.exchange_to_oms = s.exchange_to_oms
      /\ t.total_submitted = s.total_submitted
      /\ t.total_filled = s.total_filled
      /\ t.total_rejected = s.total_rejected
      /\ t.total_cancelled = s.total_cancelled
      /\ t.total_volume_usd = s.total_volume_usd
  BY DEF IsState, RecordFill, Fields
<1> HIDE DEF t, o
<1>6. OneOrder(s, t, id, [size |-> o.size, exchange_order_id |-> o.exchange_order_id,
                      status |-> "PartiallyFilled", filled |-> filled])
  BY <1>1, <1>4 DEF OneOrder
<1> QED
  BY <1>5, <1>6, Zenon DEF t, o

\* A confirmed cancellation ends an order and counts it.
LEMMA CancelledDoes ==
  ASSUME NEW s, IsState(s), NEW id \in DOMAIN s.orders, s.orders[id] \in Order
  PROVE  LET t == Cancelled(s, id)
             o == s.orders[id]
         IN  /\ OneOrder(s, t, id, [size |-> o.size, exchange_order_id |-> o.exchange_order_id,
                                     status |-> "Cancelled", filled |-> o.filled])
             /\ t.next_id = s.next_id
             /\ t.exchange_to_oms = s.exchange_to_oms
             /\ t.total_submitted = s.total_submitted
             /\ t.total_filled = s.total_filled
             /\ t.total_rejected = s.total_rejected
             /\ t.total_cancelled = s.total_cancelled + 1
             /\ t.total_volume_usd = s.total_volume_usd
<1> DEFINE t == Cancelled(s, id)
           o == s.orders[id]
<1>1. /\ IsState(t) /\ DOMAIN t.orders = DOMAIN s.orders
      /\ \A x \in DOMAIN s.orders \ {id} : t.orders[x] = s.orders[x]
  BY DEF IsState, Cancelled, Fields
<1>2. DOMAIN o = OrderFields
  BY DEF Order, OrderFields
<1>3. /\ DOMAIN t.orders[id] = OrderFields
      /\ t.orders[id] = [f \in OrderFields |-> t.orders[id][f]]
      /\ t.orders[id].size = o.size /\ t.orders[id].exchange_order_id = o.exchange_order_id
      /\ t.orders[id].status = "Cancelled"
      /\ t.orders[id].filled = o.filled
  BY <1>2 DEF IsState, Cancelled, Fields, OrderFields
<1>4. t.orders[id] = [size |-> o.size, exchange_order_id |-> o.exchange_order_id,
                      status |-> "Cancelled", filled |-> o.filled]
  <2> HIDE DEF t, o
  <2> QED
    BY <1>3, OrderShape
<1>5. /\ t.next_id = s.next_id
      /\ t.exchange_to_oms = s.exchange_to_oms
      /\ t.total_submitted = s.total_submitted
      /\ t.total_filled = s.total_filled
      /\ t.total_rejected = s.total_rejected
      /\ t.total_cancelled = s.total_cancelled + 1
      /\ t.total_volume_usd = s.total_volume_usd
  BY DEF IsState, Cancelled, Fields
<1> HIDE DEF t, o
<1>6. OneOrder(s, t, id, [size |-> o.size, exchange_order_id |-> o.exchange_order_id,
                      status |-> "Cancelled", filled |-> o.filled])
  BY <1>1, <1>4 DEF OneOrder
<1> QED
  BY <1>5, <1>6, Zenon DEF t, o

(***************************************************************************)
(* Steps of the loop that change an order.                                 *)
(***************************************************************************)

\* The counters of t are those of s with order o counted, if it is terminal.
CountedFor(s, t, new, o) ==
  /\ t.total_submitted = IF new THEN s.total_submitted + 1 ELSE s.total_submitted
  /\ t.total_filled = IF o.status = "Filled" THEN s.total_filled + 1 ELSE s.total_filled
  /\ t.total_volume_usd = IF o.status = "Filled" THEN s.total_volume_usd + o.filled
                          ELSE s.total_volume_usd
  /\ t.total_rejected = IF o.status = "Rejected" THEN s.total_rejected + 1 ELSE s.total_rejected
  /\ t.total_cancelled \in Nat
  /\ t.total_cancelled <= IF o.status = "Cancelled" THEN s.total_cancelled + 1
                          ELSE s.total_cancelled

\* The counters keep counting the table when one order that is not terminal
\* changes, or a new one comes.
LEMMA CountersStep ==
  ASSUME IInv, NEW id, NEW o \in Order, OneOrder(st, st', id, o),
         st'.next_id \in Nat, Ids' = Ids \cup {id}, DOMAIN st'.orders = Ids',
         id \in Ids => st.orders[id].status \notin Terminal,
         CountedFor(st, st', id \notin Ids, o)
  PROVE  CountersMatch'
<1> DEFINE f == st.orders
           g == st'.orders
<1>1. /\ DOMAIN f = Ids /\ IsFiniteSet(Ids) /\ IsFiniteSet(Ids') /\ o.filled \in Nat
      /\ \A x \in Ids : f[x].filled \in Nat
  <2>1. st.next_id \in Nat /\ f \in [Ids -> Order]
    BY DEF IInv, TypeOK, OrdersOK
  <2>2. IsFiniteSet(0..(st.next_id - 1)) /\ IsFiniteSet(0..(st'.next_id - 1))
    <3>1. \A n \in Nat : IsFiniteSet(0..(n - 1))
      BY FS_Interval
    <3> QED
      BY <2>1, <3>1
  <2> QED
    BY <2>1, <2>2 DEF Ids, Order
<1>2. /\ g[id] = o /\ DOMAIN g = Ids \cup {id}
      /\ \A x \in Ids \ {id} : g[x] = f[x]
  BY <1>1 DEF OneOrder
<1>3. \A s : WithStatus(s) = With(f, s) /\ WithStatus(s)' = With(g, s)
  BY DEF WithStatus, With
<1>4. /\ st.total_submitted = Cardinality(Ids)
      /\ st.total_filled = Count(f, "Filled") /\ st.total_rejected = Count(f, "Rejected")
      /\ st.total_cancelled <= Count(f, "Cancelled") /\ st.total_cancelled \in Nat
      /\ st.total_volume_usd = VolumeOf(f)
  BY <1>1, <1>3 DEF IInv, CountersMatch, Count, VolumeOf
<1> HIDE DEF f, g
<1>5. /\ \A s \in Terminal :
            /\ Count(f, s) \in Nat
            /\ Count(g, s) = IF g[id].status = s THEN Count(f, s) + 1 ELSE Count(f, s)
      /\ VolumeOf(f) \in Int
      /\ VolumeOf(g) = IF g[id].status = "Filled" THEN VolumeOf(f) + g[id].filled
                       ELSE VolumeOf(f)
  BY <1>1, <1>2, CountStep DEF f
<1>6. {"Filled", "Rejected", "Cancelled"} \subseteq Terminal
  BY DEF Terminal
<1>7. /\ st'.total_filled = Count(g, "Filled")
      /\ st'.total_rejected = Count(g, "Rejected")
      /\ st'.total_volume_usd = VolumeOf(g)
  BY <1>2, <1>4, <1>5, <1>6 DEF CountedFor
<1>8. st'.total_cancelled <= Count(g, "Cancelled")
  <2>1. /\ Count(f, "Cancelled") \in Nat
        /\ Count(g, "Cancelled") = IF o.status = "Cancelled" THEN Count(f, "Cancelled") + 1
                                   ELSE Count(f, "Cancelled")
    BY <1>2, <1>5, <1>6
  <2> QED
    BY <1>4, <2>1 DEF CountedFor
<1>9. st'.total_submitted = Cardinality(Ids')
  <2>1. Cardinality(Ids') = IF id \in Ids THEN Cardinality(Ids) ELSE Cardinality(Ids) + 1
    BY <1>1, FS_AddElement
  <2> QED
    BY <1>4, <2>1 DEF CountedFor
<1> QED
  BY <1>3, <1>7, <1>8, <1>9 DEF CountersMatch, Count, VolumeOf, g

\* The counters are numbers.
LEMMA CountersTyped ==
  ASSUME IInv
  PROVE  /\ st.total_submitted \in Nat /\ st.total_filled \in Nat
         /\ st.total_rejected \in Nat /\ st.total_volume_usd \in Nat
<1>1. /\ IsFiniteSet(Ids) /\ DOMAIN st.orders = Ids
      /\ \A x \in Ids : st.orders[x].filled \in Nat
  <2>1. \A n \in Nat : IsFiniteSet(0..(n - 1))
    BY FS_Interval
  <2> QED
    BY <2>1 DEF IInv, TypeOK, Ids
<1>2. \A s : IsFiniteSet(WithStatus(s)) /\ WithStatus(s) \subseteq Ids
  BY <1>1, FS_Subset DEF WithStatus
<1>3. /\ Cardinality(Ids) \in Nat
      /\ \A s : Cardinality(WithStatus(s)) \in Nat
  BY <1>1, <1>2, FS_CardinalityType
<1> DEFINE f == [id \in DOMAIN st.orders |-> st.orders[id].filled]
<1>4. \A x \in WithStatus("Filled") : f[x] \in Nat
  BY <1>1, <1>2
<1>5. SumFunctionOnSet(f, WithStatus("Filled")) \in Nat
  <2> HIDE DEF f
  <2> QED
    BY <1>2, <1>4, SumNat
<1>6. st.total_volume_usd = SumFunctionOnSet(f, WithStatus("Filled"))
  BY DEF IInv, CountersMatch
<1> HIDE DEF f
<1> QED
  BY <1>1, <1>3, <1>5, <1>6 DEF IInv, CountersMatch

\* One order changes or comes, the others and their links stay, and the
\* exchange may move in the same step.
LEMMA OrderStep ==
  ASSUME IInv, NEW id, NEW o \in Order, OneOrder(st, st', id, o),
         st'.next_id \in Nat, Ids' = Ids \cup {id},
         id \in Ids => st.orders[id].status \notin Terminal,
         id \in Ids /\ st.orders[id].exchange_order_id # NoId
           => o.exchange_order_id = st.orders[id].exchange_order_id,
         CountedFor(st, st', id \notin Ids, o),
         published' = [x \in Ids' |-> published'[x]],
         \A x \in Ids \ {id} : published'[x] = published[x],
         Growing(published'[id], o.filled),
         ExchangeMoves,
         IsMap(st'.exchange_to_oms, Nat, Ids'),
         \A e \in DOMAIN st.exchange_to_oms :
            /\ e \in DOMAIN st'.exchange_to_oms
            /\ st'.exchange_to_oms[e] = st.exchange_to_oms[e],
         \A e \in DOMAIN st'.exchange_to_oms \ DOMAIN st.exchange_to_oms :
            st'.exchange_to_oms[e] = id /\ o.exchange_order_id = e,
         Linked(id, o, st'.exchange_to_oms, exch'),
         UNCHANGED <<live, poll_due, stale_due, aged>>,
         (task \in TaskTypes)', TaskOK'
  PROVE  IInv'
<1>1. /\ st.next_id \in Nat /\ st.orders \in [Ids -> Order]
      /\ IsMap(st.exchange_to_oms, Nat, Ids) /\ LinksOK
      /\ \A x \in Ids : Linked(x, st.orders[x], st.exchange_to_oms, exch)
      /\ \A x \in Ids : Growing(published[x], st.orders[x].filled)
  BY DEF IInv, TypeOK, OrdersOK
<1>2. /\ IsState(st') /\ DOMAIN st'.orders = Ids' /\ st'.orders[id] = o
      /\ \A x \in Ids \ {id} : st'.orders[x] = st.orders[x]
      /\ st'.orders = [x \in Ids' |-> st'.orders[x]]
  BY <1>1 DEF OneOrder, IsState
<1>3. \A x \in Ids' : st'.orders[x] \in Order
  BY <1>1, <1>2
<1>4. st'.orders \in [Ids' -> Order]
  BY <1>2, <1>3
<1>5. OrdersOK'
  <2>1. \A x \in Ids' : Growing(published'[x], st'.orders[x].filled)
    BY <1>1, <1>2
  <2>2. \A x \in Ids \ {id} : Linked(x, st.orders[x], st'.exchange_to_oms, exch')
    BY <1>1, LinkedKept DEF ExchangeMoves
  <2>3. \A x \in Ids' : Linked(x, st'.orders[x], st'.exchange_to_oms, exch')
    BY <1>2, <2>2
  <2> QED
    BY <1>4, <2>1, <2>3 DEF OrdersOK
<1>6. LinksOK'
  <2> SUFFICES ASSUME NEW e \in DOMAIN st'.exchange_to_oms
               PROVE  st'.orders[st'.exchange_to_oms[e]].exchange_order_id = e
    BY DEF LinksOK
  <2>1. CASE e \notin DOMAIN st.exchange_to_oms
    BY <1>2, <2>1
  <2>2. CASE e \in DOMAIN st.exchange_to_oms
    <3> DEFINE x == st.exchange_to_oms[e]
    <3>1. /\ st'.exchange_to_oms[e] = x /\ x \in Ids /\ e \in Nat
          /\ st.orders[x].exchange_order_id = e
      BY <1>1, <2>2 DEF IsMap, LinksOK
    <3>2. e # NoId
      BY <3>1, OmsConstants
    <3> HIDE DEF x
    <3> QED
      BY <1>2, <3>1, <3>2
  <2> QED
    BY <2>1, <2>2
<1>7. TypeOK'
  <2>1. st'.orders \in [Ids' -> [size : Nat, exchange_order_id : Nat \cup {NoId},
                                 status : Statuses, filled : Nat]]
    <3>1. Order \subseteq [size : Nat, exchange_order_id : Nat \cup {NoId},
                           status : Statuses, filled : Nat]
      BY DEF Order
    <3> QED
      BY <1>4, <3>1
  <2>2. \A e \in DOMAIN exch' : exch'[e].id \in Ids' /\ exch'[e].filled \in 0..exch'[e].size
    <3> SUFFICES ASSUME NEW e \in DOMAIN exch'
                 PROVE  exch'[e].id \in Ids' /\ exch'[e].filled \in 0..exch'[e].size
      OBVIOUS
    <3>1. exch'[e] \in ExchangeOrder /\ Sound(exch'[e]) /\ exch'[e].id \in Ids'
      BY DEF ExchangeMoves, ExchangeOK
    <3> QED
      BY <3>1 DEF Sound, ExchangeOrder
  <2>3. live' \in BOOLEAN /\ poll_due' \in BOOLEAN /\ stale_due' \in BOOLEAN /\ aged' \subseteq Ids'
    BY DEF IInv, TypeOK
  <2>4. DOMAIN published' = Ids'
    OBVIOUS
  <2> QED
    BY <2>1, <2>2, <2>3, <2>4, Zenon DEF TypeOK, TaskTypes
<1>8. CountersMatch'
  BY <1>2, CountersStep
<1>9. st'.total_cancelled \in Nat
  BY DEF CountedFor
<1> QED
  BY <1>2, <1>5, <1>6, <1>7, <1>8, <1>9 DEF IInv, ExchangeMoves

\* An exchange that does not move moves legally.
LEMMA ExchangeStays ==
  ASSUME IInv, Ids \subseteq Ids', exch' = exch
  PROVE  ExchangeMoves
BY DEF IInv, TypeOK, ExchangeOK, ExchangeMoves, Evolved, NextEid

\* A trade comes: live, it waits to be placed; in dry-run mode it is filled.
LEMMA SubmitTradeInv ==
  ASSUME IInv, NEW size \in Sizes, NEW route \in Routes, SubmitTrade(size, route)
  PROVE  IInv'
<1> DEFINE id == st.next_id
           o == [size |-> size, exchange_order_id |-> NoId, status |-> "Pending", filled |-> 0]
           s == InsertOrder(st, size)
<1>1. /\ id \in Nat /\ DOMAIN st.orders = Ids /\ Ids = 0..(id - 1) /\ id \notin Ids
      /\ IsState(st) /\ size \in Nat \ {0}
      /\ IsMap(st.exchange_to_oms, Nat, Ids) /\ st.total_cancelled \in Nat
      /\ published = [x \in Ids |-> published[x]]
  BY OmsConstants DEF IInv, TypeOK, Ids
<1>2. /\ OneOrder(st, s, id, o)
      /\ s.next_id = id + 1
      /\ s.exchange_to_oms = st.exchange_to_oms
      /\ s.total_submitted = st.total_submitted + 1
      /\ s.total_filled = st.total_filled /\ s.total_rejected = st.total_rejected
      /\ s.total_cancelled = st.total_cancelled
      /\ s.total_volume_usd = st.total_volume_usd
  BY <1>1, InsertOrderDoes
<1>3. /\ o \in Order /\ o.status = "Pending" /\ o.exchange_order_id = NoId /\ o.filled = 0
      /\ o.size = size
  BY <1>1 DEF Order, Statuses
<1>4. UNCHANGED <<live, poll_due, stale_due, aged, exch>> /\ task = Select
  BY DEF SubmitTrade
<1> HIDE DEF o, s
<1>5. CASE /\ st' = s /\ task' = [at |-> "place", id |-> id, attempt |-> 0]
           /\ published' = Insert(published, id, <<>>)
  <2>1. /\ OneOrder(st, st', id, o) /\ st'.next_id \in Nat
        /\ st'.exchange_to_oms = st.exchange_to_oms
    BY <1>1, <1>2, <1>5
  <2>2. Ids' = Ids \cup {id}
    BY <1>1, <1>2, <1>5 DEF Ids
  <2>3. CountedFor(st, st', id \notin Ids, o)
    BY <1>1, <1>2, <1>3, <1>5 DEF CountedFor
  <2>4. /\ published' = [x \in Ids' |-> published'[x]]
        /\ \A x \in Ids \ {id} : published'[x] = published[x]
        /\ published'[id] = <<>>
    BY <1>1, <1>5, <2>2 DEF Insert
  <2>5. Growing(published'[id], o.filled)
    BY <1>3, <2>4, GrowingStart
  <2>6. ExchangeMoves
    BY <1>4, <2>2, ExchangeStays
  <2>7. IsMap(st'.exchange_to_oms, Nat, Ids')
    BY <1>1, <2>1, <2>2 DEF IsMap
  <2>8. Linked(id, o, st'.exchange_to_oms, exch')
    BY <1>3 DEF Linked
  <2>9. (task \in TaskTypes)' /\ TaskOK'
    <3>1. st'.orders[id] = o /\ task'.at = "place" /\ task'.id = id
      BY <1>5, <2>1 DEF OneOrder
    <3>2. TaskOK'
      BY <1>3, <2>4, <3>1 DEF TaskOK
    <3>3. id \in Ids' /\ 0 \in 0..MaxRetries
      BY <2>2, OmsConstants
    <3> QED
      BY <1>5, <3>2, <3>3 DEF TaskTypes
  <2> HIDE DEF id
  <2> QED
    BY <1>1, <1>3, <1>4, <2>1, <2>2, <2>3, <2>4, <2>5, <2>6, <2>7, <2>8, <2>9, OrderStep
<1>6. CASE /\ st' = RecordFill(s, id, size, TRUE)
           /\ published' = Insert(published, id, <<size>>) /\ task' = task
  <2> DEFINE p == [size |-> size, exchange_order_id |-> NoId, status |-> "Filled", filled |-> size]
  <2>0. IsState(s) /\ id \in DOMAIN s.orders /\ s.orders[id] = o /\ DOMAIN s.orders = Ids \cup {id}
        /\ \A x \in Ids \ {id} : s.orders[x] = st.orders[x]
    BY <1>1, <1>2 DEF OneOrder
  <2>1. /\ OneOrder(s, st', id, p)
        /\ st'.next_id = s.next_id
        /\ st'.exchange_to_oms = s.exchange_to_oms
        /\ st'.total_submitted = s.total_submitted
        /\ st'.total_filled = s.total_filled + 1
        /\ st'.total_rejected = s.total_rejected
        /\ st'.total_volume_usd = s.total_volume_usd + size
        /\ st'.total_cancelled = s.total_cancelled
    <3>1. s.orders[id] \in Order /\ IsState(s) /\ id \in DOMAIN s.orders
      BY <1>3, <2>0
    <3>2. p = [size |-> s.orders[id].size, exchange_order_id |-> s.orders[id].exchange_order_id,
               status |-> "Filled", filled |-> size]
      BY <1>3, <2>0
    <3> HIDE DEF p, id
    <3>3. LET r == RecordFill(s, id, size, TRUE)
              q == s.orders[id]
          IN  /\ OneOrder(s, r, id, [size |-> q.size, exchange_order_id |-> q.exchange_order_id,
                                     status |-> "Filled", filled |-> size])
              /\ r.next_id = s.next_id
              /\ r.exchange_to_oms = s.exchange_to_oms
              /\ r.total_submitted = s.total_submitted
              /\ r.total_filled = s.total_filled + 1
              /\ r.total_rejected = s.total_rejected
              /\ r.total_cancelled = s.total_cancelled
              /\ r.total_volume_usd = s.total_volume_usd + size
      BY <3>1, RecordFullFillDoes
    <3> QED
      BY <1>6, <3>2, <3>3
  <2>2. p \in Order /\ p.status = "Filled" /\ p.exchange_order_id = NoId /\ p.filled = size
    BY <1>1 DEF Order, Statuses, Terminal
  <2> HIDE DEF p
  <2>3. OneOrder(st, st', id, p)
    BY <1>1, <2>0, <2>1 DEF OneOrder
  <2>4. Ids' = Ids \cup {id} /\ st'.next_id \in Nat /\ st'.exchange_to_oms = st.exchange_to_oms
    BY <1>1, <1>2, <2>1 DEF Ids
  <2>5. CountedFor(st, st', id \notin Ids, p)
    BY <1>1, <1>2, <2>1, <2>2 DEF CountedFor
  <2>6. /\ published' = [x \in Ids' |-> published'[x]]
        /\ \A x \in Ids \ {id} : published'[x] = published[x]
        /\ published'[id] = <<size>>
    BY <1>1, <1>6, <2>4 DEF Insert
  <2>7. Growing(published'[id], p.filled)
    BY <1>1, <2>2, <2>6, GrowingStart
  <2>8. ExchangeMoves
    BY <1>4, <2>4, ExchangeStays
  <2>9. IsMap(st'.exchange_to_oms, Nat, Ids')
    BY <1>1, <2>4 DEF IsMap
  <2>10. Linked(id, p, st'.exchange_to_oms, exch')
    BY <2>2 DEF Linked
  <2>11. (task \in TaskTypes)' /\ TaskOK'
    BY <1>4, <1>6 DEF TaskOK, TaskTypes, Select
  <2> HIDE DEF id
  <2> QED
    BY <1>1, <1>4, <2>2, <2>3, <2>4, <2>5, <2>6, <2>7, <2>8, <2>9, <2>10, <2>11, OrderStep
<1> QED
  BY <1>5, <1>6 DEF SubmitTrade, s

\* An attempt at the exchange: the order is linked and open, or rejected, or
\* tried again.  An accepted attempt is an order of the exchange either way.
LEMMA PlaceAttemptInv ==
  ASSUME IInv, NEW accepted \in BOOLEAN, NEW reply \in {"ok", "retry", "fail"},
         PlaceAttempt(accepted, reply)
  PROVE  IInv'
<1> DEFINE id == task.id
           o == st.orders[id]
           eid == NextEid
           failed == reply = "fail" \/ (reply = "retry" /\ task.attempt = MaxRetries)
<1>1. /\ task.at = "place" /\ id \in Ids /\ task.attempt \in 0..MaxRetries
      /\ task = [at |-> "place", id |-> id, attempt |-> task.attempt]
  BY DEF PlaceAttempt, IInv, TypeOK, Select
<1>2. /\ o \in Order /\ o.status = "Pending" /\ o.exchange_order_id = NoId /\ o.filled = 0
      /\ published[id] = <<>> /\ DOMAIN st.orders = Ids
  BY <1>1 DEF IInv, TaskOK, OrdersOK
<1>3. /\ IsState(st) /\ IsMap(st.exchange_to_oms, Nat, Ids) /\ st.total_cancelled \in Nat
      /\ st.next_id \in Nat /\ published = [x \in Ids |-> published[x]]
      /\ eid \in Nat /\ DOMAIN exch = 0..(eid - 1)
      /\ \A e \in DOMAIN st.exchange_to_oms : e \in DOMAIN exch
  <2>1. \A e \in DOMAIN st.exchange_to_oms : e \in DOMAIN exch
    <3> SUFFICES ASSUME NEW e \in DOMAIN st.exchange_to_oms PROVE e \in DOMAIN exch
      OBVIOUS
    <3>1. /\ st.exchange_to_oms[e] \in Ids /\ e \in Nat
          /\ st.orders[st.exchange_to_oms[e]].exchange_order_id = e
      BY DEF IInv, TypeOK, IsMap, LinksOK
    <3> QED
      BY <3>1, OmsConstants DEF IInv, OrdersOK, Linked
  <2> QED
    BY <2>1 DEF IInv, TypeOK, ExchangeOK
<1>4. UNCHANGED <<live, poll_due, stale_due, aged>>
  BY DEF PlaceAttempt
<1>5. ASSUME Ids' = Ids
      PROVE  /\ ExchangeMoves
             /\ reply = "ok" => /\ eid \in DOMAIN exch' /\ eid \notin DOMAIN exch
                                /\ exch'[eid] = [id |-> id, size |-> o.size, filled |-> 0,
                                                 status |-> "Open"]
  <2>1. CASE accepted
    <3>1. exch' = Accepted(id)
      BY <2>1 DEF PlaceAttempt
    <3> QED
      BY <1>1, <1>5, <3>1, ExchangeAccepts
  <2>2. CASE ~accepted
    <3>1. exch' = exch /\ reply # "ok"
      BY <2>2 DEF PlaceAttempt
    <3> QED
      BY <1>5, <3>1, ExchangeStays
  <2> QED
    BY <2>1, <2>2
<1> HIDE DEF id, o, eid, failed
<1>6. CASE reply = "ok" /\ st' = SetExchangeId(st, id, eid) /\ task' = Select /\ published' = published
  <2> DEFINE p == [size |-> o.size, exchange_order_id |-> eid, status |-> "Open", filled |-> o.filled]
  <2>1. /\ OneOrder(st, st', id, p)
        /\ st'.next_id = st.next_id
        /\ st'.exchange_to_oms = Insert(st.exchange_to_oms, eid, id)
        /\ st'.total_submitted = st.total_submitted
        /\ st'.total_filled = st.total_filled
        /\ st'.total_rejected = st.total_rejected
        /\ st'.total_cancelled = st.total_cancelled
        /\ st'.total_volume_usd = st.total_volume_usd
    BY <1>1, <1>2, <1>3, <1>6, SetExchangeIdDoes DEF o
  <2>2. /\ p \in Order /\ p.status = "Open" /\ p.exchange_order_id = eid /\ p.filled = 0
        /\ p.size = o.size
    BY <1>2, <1>3 DEF Order, Statuses
  <2> HIDE DEF p
  <2>3. Ids' = Ids /\ Ids' = Ids \cup {id} /\ id \in Ids
    BY <1>1, <2>1 DEF Ids
  <2>4. ExchangeMoves
    BY <1>5, <2>3
  <2>5. /\ eid \in DOMAIN exch' /\ eid \notin DOMAIN exch
        /\ exch'[eid].id = id /\ exch'[eid].size = o.size /\ exch'[eid].filled = 0
        /\ exch'[eid].status = "Open"
    BY <1>5, <1>6, <2>3
  <2>6. /\ DOMAIN st'.exchange_to_oms = DOMAIN st.exchange_to_oms \cup {eid}
        /\ st'.exchange_to_oms[eid] = id
        /\ \A e \in DOMAIN st.exchange_to_oms : st'.exchange_to_oms[e] = st.exchange_to_oms[e]
        /\ IsMap(st'.exchange_to_oms, Nat, Ids')
    BY <1>3, <2>1, <2>3, <2>5 DEF Insert, IsMap
  <2>7. Linked(id, p, st'.exchange_to_oms, exch')
    <3>1. Agrees(p, exch'[eid])
      BY <1>2, <2>2, <2>5 DEF Agrees, Order
    <3> QED
      BY <2>2, <2>5, <2>6, <3>1 DEF Linked
  <2>8. CountedFor(st, st', id \notin Ids, p)
    BY <1>3, <2>1, <2>2, <2>3 DEF CountedFor
  <2>9. Growing(published'[id], p.filled)
    BY <1>2, <1>6, <2>2, GrowingStart
  <2>10. (task \in TaskTypes)' /\ TaskOK'
    BY <1>6 DEF TaskOK, TaskTypes, Select
  <2>11. id \in Ids => st.orders[id].status \notin Terminal
    BY <1>2 DEF Terminal, o
  <2>12. /\ published' = [x \in Ids' |-> published'[x]]
         /\ \A x \in Ids \ {id} : published'[x] = published[x]
         /\ st'.next_id \in Nat
    BY <1>3, <1>6, <2>1, <2>3
  <2> QED
    BY <1>2, <1>4, <2>1, <2>2, <2>3, <2>4, <2>6, <2>7, <2>8, <2>9, <2>10, <2>11, <2>12, OrderStep DEF o
<1>7. CASE /\ st' = MarkRejected(st, id) /\ task' = Select
           /\ published' = [published EXCEPT ![id] = Append(@, 0)]
  <2> DEFINE p == [size |-> o.size, exchange_order_id |-> o.exchange_order_id,
                   status |-> "Rejected", filled |-> o.filled]
  <2>1. /\ OneOrder(st, st', id, p)
        /\ st'.next_id = st.next_id
        /\ st'.exchange_to_oms = st.exchange_to_oms
        /\ st'.total_submitted = st.total_submitted
        /\ st'.total_filled = st.total_filled
        /\ st'.total_rejected = st.total_rejected + 1
        /\ st'.total_cancelled = st.total_cancelled
        /\ st'.total_volume_usd = st.total_volume_usd
    BY <1>1, <1>2, <1>3, <1>7, MarkRejectedDoes DEF o
  <2>2. /\ p \in Order /\ p.status = "Rejected" /\ p.exchange_order_id = NoId /\ p.filled = 0
    BY <1>2 DEF Order, Statuses, Terminal
  <2> HIDE DEF p
  <2>3. Ids' = Ids /\ Ids' = Ids \cup {id} /\ id \in Ids
    BY <1>1, <2>1 DEF Ids
  <2>4. ExchangeMoves
    BY <1>5, <2>3
  <2>5. IsMap(st'.exchange_to_oms, Nat, Ids')
    BY <1>3, <2>1, <2>3
  <2>6. Linked(id, p, st'.exchange_to_oms, exch')
    BY <2>2 DEF Linked
  <2>7. CountedFor(st, st', id \notin Ids, p)
    BY <1>3, <2>1, <2>2, <2>3 DEF CountedFor
  <2>8. /\ published' = [x \in Ids' |-> published'[x]]
        /\ \A x \in Ids \ {id} : published'[x] = published[x]
        /\ published'[id] = <<0>>
    <3>1. /\ published' = [x \in Ids |-> published'[x]]
          /\ \A x \in Ids \ {id} : published'[x] = published[x]
          /\ published'[id] = Append(published[id], 0)
      BY <1>3, <1>7, <2>3
    <3>2. Append(<<>>, 0) = <<0>>
      OBVIOUS
    <3> QED
      BY <1>2, <2>3, <3>1, <3>2
  <2>9. Growing(published'[id], p.filled)
    BY <2>2, <2>8, GrowingStart
  <2>10. (task \in TaskTypes)' /\ TaskOK'
    BY <1>7 DEF TaskOK, TaskTypes, Select
  <2>11. st.orders[id].status \notin Terminal /\ st'.next_id \in Nat
    BY <1>2, <1>3, <2>1 DEF Terminal, o
  <2> QED
    BY <1>2, <1>4, <2>1, <2>2, <2>3, <2>4, <2>5, <2>6, <2>7, <2>8, <2>9, <2>10, <2>11, OrderStep DEF o
<1>8. CASE /\ ~failed /\ reply = "retry" /\ task' = [task EXCEPT !.attempt = @ + 1]
           /\ UNCHANGED <<st, published>>
  <2>1. Ids' = Ids
    BY <1>8 DEF Ids
  <2>2. ExchangeMoves
    BY <1>5, <2>1
  <2>3. task.attempt + 1 \in 0..MaxRetries
    BY <1>1, <1>8, OmsConstants DEF failed
  <2>4. task' = [at |-> "place", id |-> id, attempt |-> task.attempt + 1]
    BY <1>1, <1>8
  <2>5. task' \in TaskTypes
    BY <1>1, <2>3, <2>4 DEF TaskTypes
  <2>6. TaskOK'
    BY <1>2, <1>8, <2>4 DEF TaskOK, o
  <2>7. poll_due' \in BOOLEAN /\ stale_due' \in BOOLEAN /\ aged' \subseteq Ids
    BY <1>4 DEF IInv, TypeOK
  <2> QED
    BY <1>4, <1>8, <2>2, <2>5, <2>6, <2>7, OutsideStep
<1> QED
  BY <1>6, <1>7, <1>8 DEF PlaceAttempt, id, eid, failed

\* When the turn of one order of a round is over, the others are still active.
LEMMA RoundGoesOn ==
  ASSUME IInv, NEW at \in {"poll", "cancel"}, task.at = at, NEW id \in task.todo,
         Ids' = Ids, NEW o, OneOrder(st, st', id, o),
         task' = Round(at, task.todo \ {id})
  PROVE  (task \in TaskTypes)' /\ TaskOK'
<1> DEFINE todo == task.todo \ {id}
<1>1. todo \subseteq ActiveOrders(st) /\ todo \in SUBSET ActiveOrders(st)
  BY DEF IInv, TaskOK
<1>2. todo \subseteq ActiveOrders(st)'
  BY <1>1 DEF ActiveOrders, IsTerminal, OneOrder
<1> HIDE DEF todo
<1>3. /\ task' \in TaskTypes /\ task'.at # "place"
      /\ task'.at \in {"poll", "cancel"} => task'.todo = todo
  BY <1>1, RoundOK DEF todo
<1>4. TaskTypes' = TaskTypes
  BY DEF TaskTypes
<1> QED
  BY <1>2, <1>3, <1>4 DEF TaskOK

\* An order in its turn: active, and linked to an order of the exchange that is
\* at least as far, and further once it is filled.
LEMMA InTurn ==
  ASSUME IInv, task.at \in {"poll", "cancel"}, NEW id \in task.todo
  PROVE  LET o == st.orders[id]
             x == exch[o.exchange_order_id]
         IN  /\ id \in Ids /\ DOMAIN st.orders = Ids
             /\ o \in Order /\ o.status \notin Terminal
             /\ o.exchange_order_id # NoId
             /\ o.exchange_order_id \in DOMAIN exch
             /\ x \in ExchangeOrder /\ Sound(x) /\ x.id = id
             /\ o.filled <= x.filled /\ o.filled < x.size
             /\ Linked(id, o, st.exchange_to_oms, exch)
             /\ Growing(published[id], o.filled)
<1> DEFINE o == st.orders[id]
<1>1. id \in Ids /\ DOMAIN st.orders = Ids /\ o \in Order /\ o.status \notin Terminal
      /\ o.exchange_order_id # NoId
  BY DEF IInv, TypeOK, TaskOK, ActiveOrders, IsTerminal, OrdersOK
<1>2. Linked(id, o, st.exchange_to_oms, exch) /\ Growing(published[id], o.filled)
  BY <1>1 DEF IInv, OrdersOK
<1> HIDE DEF o
<1>3. /\ o.exchange_order_id \in DOMAIN exch /\ exch[o.exchange_order_id].id = id
      /\ Agrees(o, exch[o.exchange_order_id])
  BY <1>1, <1>2 DEF Linked
<1>4. exch[o.exchange_order_id] \in ExchangeOrder /\ Sound(exch[o.exchange_order_id])
  BY <1>3, SMTT(40) DEF IInv, ExchangeOK
<1> QED
  BY <1>1, <1>2, <1>3, <1>4 DEF Agrees, o

\* A poll takes over what the exchange says and publishes new fills.
LEMMA PollOkInv ==
  ASSUME IInv, NEW id \in DOMAIN st.orders, PollOk(id)
  PROVE  IInv'
<1> DEFINE o == st.orders[id]
           x == exch[o.exchange_order_id]
           u == ApplyExchangeUpdate(st, id, x)
           newFill == x.filled > o.filled
           status == IF newFill THEN IF x.status = "Filled" THEN "Filled" ELSE "PartiallyFilled"
                     ELSE x.status
           p == [size |-> o.size, exchange_order_id |-> o.exchange_order_id,
                 status |-> status, filled |-> x.filled]
<1>1. /\ task.at = "poll" /\ id \in task.todo /\ task' = Round("poll", task.todo \ {id})
      /\ UNCHANGED <<live, poll_due, stale_due, aged, exch>>
      /\ st' = IF newFill THEN RecordFill(u, id, x.filled, x.status = "Filled") ELSE u
      /\ published' = IF newFill THEN [published EXCEPT ![id] = Append(@, x.filled)] ELSE published
  BY DEF PollOk
<1>2. /\ id \in Ids /\ DOMAIN st.orders = Ids
      /\ o \in Order /\ o.status \notin Terminal
      /\ o.exchange_order_id # NoId
      /\ o.exchange_order_id \in DOMAIN exch
      /\ x \in ExchangeOrder /\ Sound(x) /\ x.id = id
      /\ o.filled <= x.filled /\ o.filled < x.size
      /\ Linked(id, o, st.exchange_to_oms, exch)
      /\ Growing(published[id], o.filled)
  BY <1>1, InTurn
<1>3. /\ IsState(st) /\ IsMap(st.exchange_to_oms, Nat, Ids) /\ st.total_cancelled \in Nat
      /\ st.next_id \in Nat /\ published = [y \in Ids |-> published[y]]
  BY DEF IInv, TypeOK
<1>4. /\ o.size \in Nat \ {0} /\ o.exchange_order_id \in Nat \cup {NoId} /\ o.filled \in Nat
      /\ x.filled \in Nat /\ x.size \in Nat /\ x.status \in ExchangeStatuses
      /\ x.filled <= x.size /\ (x.status = "Filled" <=> x.filled = x.size)
  BY <1>2 DEF Order, ExchangeOrder, Sound
<1>5. /\ OneOrder(st, u, id, [size |-> o.size, exchange_order_id |-> o.exchange_order_id,
                              status |-> x.status, filled |-> x.filled])
      /\ u.next_id = st.next_id
      /\ u.exchange_to_oms = st.exchange_to_oms
      /\ u.total_submitted = st.total_submitted
      /\ u.total_filled = st.total_filled
      /\ u.total_rejected = st.total_rejected
      /\ u.total_cancelled = st.total_cancelled
      /\ u.total_volume_usd = st.total_volume_usd
  BY <1>2, <1>3, ApplyExchangeUpdateDoes
<1>0. /\ st.total_submitted \in Nat /\ st.total_filled \in Nat
      /\ st.total_rejected \in Nat /\ st.total_volume_usd \in Nat
  BY CountersTyped
<1> HIDE DEF o, x, u, status
<1>6. /\ p \in Order /\ p.size = o.size /\ p.exchange_order_id = o.exchange_order_id
      /\ p.status = status /\ p.filled = x.filled
  <2>1. status \in Statuses
    BY <1>4 DEF status, Statuses, Terminal, ExchangeStatuses
  <2> QED
    BY <1>4, <2>1 DEF Order
<1> HIDE DEF p
<1>7. /\ OneOrder(st, st', id, p)
      /\ st'.next_id = st.next_id
      /\ st'.exchange_to_oms = st.exchange_to_oms
      /\ CountedFor(st, st', FALSE, p)
  <2>1. CASE ~newFill
    <3>1. st' = u /\ status = x.status
      BY <1>1, <2>1 DEF status
    <3>2. status # "Filled" /\ status # "Rejected"
      BY <1>2, <1>4, <2>1, <3>1 DEF ExchangeStatuses
    <3>3. OneOrder(st, st', id, p)
      BY <1>5, <3>1 DEF p
    <3>4. CountedFor(st, st', FALSE, p)
      BY <1>0, <1>3, <1>4, <1>5, <1>6, <3>1, <3>2 DEF CountedFor
    <3> QED
      BY <1>5, <3>1, <3>3, <3>4
  <2>2. ASSUME newFill
        PROVE  /\ IsState(u) /\ id \in DOMAIN u.orders /\ DOMAIN u.orders = Ids
               /\ u.orders[id] \in Order /\ u.orders[id].size = o.size
               /\ u.orders[id].exchange_order_id = o.exchange_order_id
               /\ \A y \in Ids \ {id} : u.orders[y] = st.orders[y]
    <3>1. x.status \in Statuses
      BY <1>4 DEF ExchangeStatuses, Statuses, Terminal
    <3> QED
      BY <1>2, <1>4, <1>5, <3>1 DEF OneOrder, Order
  <2>3. CASE newFill /\ x.status = "Filled"
    <3>1. st' = RecordFill(u, id, x.filled, TRUE) /\ status = "Filled"
      BY <1>1, <2>3 DEF RecordFill, status
    <3>2. LET t == RecordFill(u, id, x.filled, TRUE)
              q == u.orders[id]
          IN  /\ OneOrder(u, t, id, [size |-> q.size, exchange_order_id |-> q.exchange_order_id,
                                     status |-> "Filled", filled |-> x.filled])
              /\ t.next_id = u.next_id
              /\ t.exchange_to_oms = u.exchange_to_oms
              /\ t.total_submitted = u.total_submitted
              /\ t.total_filled = u.total_filled + 1
              /\ t.total_rejected = u.total_rejected
              /\ t.total_cancelled = u.total_cancelled
              /\ t.total_volume_usd = u.total_volume_usd + x.filled
      <4>1. /\ IsState(u) /\ id \in DOMAIN u.orders /\ u.orders[id] \in Order
        BY <2>2, <2>3
      <4>2. \A f : LET t == RecordFill(u, id, f, TRUE)
                       q == u.orders[id]
                   IN  /\ OneOrder(u, t, id, [size |-> q.size,
                                              exchange_order_id |-> q.exchange_order_id,
                                              status |-> "Filled", filled |-> f])
                       /\ t.next_id = u.next_id
                       /\ t.exchange_to_oms = u.exchange_to_oms
                       /\ t.total_submitted = u.total_submitted
                       /\ t.total_filled = u.total_filled + 1
                       /\ t.total_rejected = u.total_rejected
                       /\ t.total_cancelled = u.total_cancelled
                       /\ t.total_volume_usd = u.total_volume_usd + f
        BY <4>1, RecordFullFillDoes
      <4> QED
        BY <4>2
    <3>3. OneOrder(u, st', id, p)
      BY <2>2, <2>3, <3>1, <3>2 DEF p
    <3>4. OneOrder(st, st', id, p)
      BY <1>2, <2>2, <2>3, <3>3 DEF OneOrder
    <3>5. CountedFor(st, st', FALSE, p)
      <4>1. /\ st'.total_submitted = st.total_submitted
            /\ st'.total_filled = st.total_filled + 1
            /\ st'.total_rejected = st.total_rejected
            /\ st'.total_cancelled = st.total_cancelled
            /\ st'.total_volume_usd = st.total_volume_usd + x.filled
            /\ p.status = "Filled" /\ p.filled = x.filled
        BY <1>5, <1>6, <3>1, <3>2
      <4> QED
        BY <1>0, <1>3, <1>4, <4>1 DEF CountedFor
    <3> QED
      BY <1>5, <3>1, <3>2, <3>4, <3>5
  <2>4. CASE newFill /\ x.status # "Filled"
    <3>1. st' = RecordFill(u, id, x.filled, FALSE) /\ status = "PartiallyFilled"
      BY <1>1, <2>4 DEF RecordFill, status
    <3>2. LET t == RecordFill(u, id, x.filled, FALSE)
              q == u.orders[id]
          IN  /\ OneOrder(u, t, id, [size |-> q.size, exchange_order_id |-> q.exchange_order_id,
                                     status |-> "PartiallyFilled", filled |-> x.filled])
              /\ t.next_id = u.next_id
              /\ t.exchange_to_oms = u.exchange_to_oms
              /\ t.total_submitted = u.total_submitted
              /\ t.total_filled = u.total_filled
              /\ t.total_rejected = u.total_rejected
              /\ t.total_cancelled = u.total_cancelled
              /\ t.total_volume_usd = u.total_volume_usd
      <4>1. IsState(u) /\ id \in DOMAIN u.orders /\ u.orders[id] \in Order
        BY <2>2, <2>4
      <4> QED
        BY <4>1, RecordPartFillDoes
    <3>3. OneOrder(u, st', id, p)
      BY <2>2, <2>4, <3>1, <3>2 DEF p
    <3>4. OneOrder(st, st', id, p)
      BY <1>2, <2>2, <2>4, <3>3 DEF OneOrder
    <3>5. CountedFor(st, st', FALSE, p)
      <4>1. /\ st'.total_submitted = st.total_submitted
            /\ st'.total_filled = st.total_filled
            /\ st'.total_rejected = st.total_rejected
            /\ st'.total_cancelled = st.total_cancelled
            /\ st'.total_volume_usd = st.total_volume_usd
            /\ p.status = "PartiallyFilled" /\ p.filled = x.filled
        BY <1>5, <1>6, <3>1, <3>2
      <4> QED
        BY <1>0, <1>3, <1>4, <4>1 DEF CountedFor
    <3> QED
      BY <1>5, <3>1, <3>2, <3>4, <3>5
  <2> QED
    BY <2>1, <2>3, <2>4
<1>8. Ids' = Ids /\ Ids' = Ids \cup {id} /\ (id \notin Ids) = FALSE
  BY <1>2, <1>7 DEF Ids
<1>9. Linked(id, p, st'.exchange_to_oms, exch')
  <2>1. Agrees(p, x)
    BY <1>2, <1>4, <1>6 DEF Agrees, status, ExchangeStatuses, Terminal
  <2> QED
    BY <1>1, <1>2, <1>6, <1>7, <2>1 DEF Linked, x
<1>10. /\ published' = [y \in Ids' |-> published'[y]]
       /\ \A y \in Ids \ {id} : published'[y] = published[y]
       /\ Growing(published'[id], p.filled)
  <2>1. CASE newFill
    <3>1. published' = [published EXCEPT ![id] = Append(@, x.filled)]
      BY <1>1, <2>1
    <3>2. /\ published' = [y \in Ids |-> published'[y]]
          /\ \A y \in Ids \ {id} : published'[y] = published[y]
          /\ published'[id] = Append(published[id], x.filled)
      BY <1>2, <1>3, <3>1
    <3>3. Growing(Append(published[id], x.filled), x.filled)
      BY <1>2, <1>4, <2>1, GrowingAppend
    <3> QED
      BY <1>6, <1>8, <3>2, <3>3
  <2>2. CASE ~newFill
    <3>1. published' = published /\ x.filled = o.filled
      BY <1>1, <1>2, <1>4, <2>2
    <3> QED
      BY <1>2, <1>3, <1>6, <1>8, <3>1
  <2> QED
    BY <2>1, <2>2
<1>11. ExchangeMoves
  BY <1>1, <1>8, ExchangeStays
<1>12. (task \in TaskTypes)' /\ TaskOK'
  BY <1>1, <1>7, <1>8, RoundGoesOn
<1>13. /\ st'.next_id \in Nat /\ IsMap(st'.exchange_to_oms, Nat, Ids')
       /\ CountedFor(st, st', id \notin Ids, p)
       /\ st.orders[id].status \notin Terminal
       /\ p.exchange_order_id = st.orders[id].exchange_order_id
  BY <1>2, <1>3, <1>6, <1>7, <1>8 DEF o
<1> QED
  BY <1>1, <1>6, <1>7, <1>8, <1>9, <1>10, <1>11, <1>12, <1>13, OrderStep

\* A confirmed cancellation ends the order on both sides.
LEMMA CancelOkInv ==
  ASSUME IInv, NEW id \in DOMAIN st.orders, CancelOk(id)
  PROVE  IInv'
<1> DEFINE o == st.orders[id]
           eid == o.exchange_order_id
           x == exch[eid]
           p == [size |-> o.size, exchange_order_id |-> eid,
                 status |-> "Cancelled", filled |-> o.filled]
<1>1. /\ task.at = "cancel" /\ id \in task.todo /\ task' = Round("cancel", task.todo \ {id})
      /\ UNCHANGED <<live, poll_due, stale_due, aged, published>>
      /\ x.status = "Open"
      /\ exch' = [exch EXCEPT ![eid] = AfterEnd(x, "Cancelled")]
      /\ st' = Cancelled(st, id)
  BY DEF CancelOk, IsLive, AfterEnd, Cancelled
<1>2. /\ id \in Ids /\ DOMAIN st.orders = Ids
      /\ o \in Order /\ o.status \notin Terminal
      /\ eid # NoId /\ eid \in DOMAIN exch
      /\ x \in ExchangeOrder /\ Sound(x) /\ x.id = id
      /\ o.filled <= x.filled
      /\ Linked(id, o, st.exchange_to_oms, exch)
      /\ Growing(published[id], o.filled)
  BY <1>1, InTurn
<1>3. /\ IsState(st) /\ IsMap(st.exchange_to_oms, Nat, Ids) /\ st.total_cancelled \in Nat
      /\ st.next_id \in Nat /\ published = [y \in Ids |-> published[y]]
  BY DEF IInv, TypeOK
<1>4. /\ OneOrder(st, st', id, p)
      /\ st'.next_id = st.next_id
      /\ st'.exchange_to_oms = st.exchange_to_oms
      /\ st'.total_submitted = st.total_submitted
      /\ st'.total_filled = st.total_filled
      /\ st'.total_rejected = st.total_rejected
      /\ st'.total_cancelled = st.total_cancelled + 1
      /\ st'.total_volume_usd = st.total_volume_usd
  BY <1>1, <1>2, <1>3, CancelledDoes
<1> HIDE DEF o, eid, x
<1>5. /\ p \in Order /\ p.exchange_order_id = eid /\ p.status = "Cancelled" /\ p.filled = o.filled
  BY <1>2 DEF Order, Statuses, Terminal, eid
<1> HIDE DEF p
<1>6. Ids' = Ids /\ Ids' = Ids \cup {id} /\ Ids \subseteq Ids'
  BY <1>2, <1>4 DEF Ids
<1>7. /\ AfterEnd(x, "Cancelled") \in ExchangeOrder /\ Sound(AfterEnd(x, "Cancelled"))
      /\ Evolved(x, AfterEnd(x, "Cancelled"))
  BY <1>1, <1>2, ExchangeEdits
<1>8. ExchangeMoves
  BY <1>1, <1>2, <1>6, <1>7, ExchangeChanges DEF x
<1>9. Linked(id, p, st'.exchange_to_oms, exch')
  <2>1. Linked(id, o, st'.exchange_to_oms, exch')
    BY <1>2, <1>4, <1>8, LinkedKept DEF ExchangeMoves
  <2>2. Agrees(o, exch'[eid]) => Agrees(p, exch'[eid])
    BY <1>5 DEF Agrees, Terminal
  <2> QED
    BY <1>2, <1>5, <2>1, <2>2 DEF Linked, eid
<1>10. CountedFor(st, st', id \notin Ids, p)
  BY <1>2, <1>3, <1>4, <1>5 DEF CountedFor
<1>11. (task \in TaskTypes)' /\ TaskOK'
  BY <1>1, <1>4, <1>6, RoundGoesOn
<1>12. /\ st'.next_id \in Nat /\ IsMap(st'.exchange_to_oms, Nat, Ids')
       /\ st.orders[id].status \notin Terminal
       /\ p.exchange_order_id = st.orders[id].exchange_order_id
       /\ published' = [y \in Ids' |-> published'[y]]
       /\ \A y \in Ids \ {id} : published'[y] = published[y]
       /\ Growing(published'[id], p.filled)
  BY <1>1, <1>2, <1>3, <1>4, <1>5, <1>6 DEF o, eid
<1> QED
  BY <1>1, <1>4, <1>5, <1>6, <1>8, <1>9, <1>10, <1>11, <1>12, OrderStep

\* A cancellation without a confirmation leaves the order as it was, even if
\* the exchange ended it.
LEMMA CancelFailsInv ==
  ASSUME IInv, NEW id \in DOMAIN st.orders, NEW effective \in BOOLEAN, CancelFails(id, effective)
  PROVE  IInv'
<1> DEFINE eid == st.orders[id].exchange_order_id
           x == exch[eid]
<1>1. /\ task.at = "cancel" /\ id \in task.todo /\ task' = Round("cancel", task.todo \ {id})
      /\ UNCHANGED <<st, live, poll_due, stale_due, aged, published>>
      /\ effective => x.status = "Open"
      /\ exch' = IF effective THEN [exch EXCEPT ![eid] = AfterEnd(x, "Cancelled")] ELSE exch
  BY DEF CancelFails, IsLive, AfterEnd
<1>2. eid \in DOMAIN exch /\ x \in ExchangeOrder /\ Sound(x)
  BY <1>1, InTurn
<1>3. Ids' = Ids /\ Ids \subseteq Ids'
  BY <1>1 DEF Ids
<1> HIDE DEF eid
<1>4. ExchangeMoves
  <2>1. CASE effective
    <3>1. /\ AfterEnd(x, "Cancelled") \in ExchangeOrder /\ Sound(AfterEnd(x, "Cancelled"))
          /\ Evolved(x, AfterEnd(x, "Cancelled"))
      BY <1>1, <1>2, <2>1, ExchangeEdits
    <3> QED
      BY <1>1, <1>2, <1>3, <2>1, <3>1, ExchangeChanges
  <2>2. CASE ~effective
    BY <1>1, <1>3, <2>2, ExchangeStays
  <2> QED
    BY <2>1, <2>2
<1>5. task' \in TaskTypes /\ TaskOK'
  <2>1. task.todo \ {id} \in SUBSET ActiveOrders(st)
    BY <1>1 DEF IInv, TaskOK
  <2>2. ActiveOrders(st)' = ActiveOrders(st)
    BY <1>1
  <2> QED
    BY <1>1, <2>1, <2>2, RoundOK DEF TaskOK
<1>6. poll_due' \in BOOLEAN /\ stale_due' \in BOOLEAN /\ aged' \subseteq Ids
  BY <1>1 DEF IInv, TypeOK
<1> QED
  BY <1>1, <1>4, <1>5, <1>6, OutsideStep

\* Every step keeps the invariant.
LEMMA NextInv == IInv /\ [Next]_vars => IInv'
<1> SUFFICES ASSUME IInv, [Next]_vars PROVE IInv'
  OBVIOUS
<1>1. CASE PollTimer \/ StaleTimer \/ \E id \in DOMAIN st.orders : Age(id)
  BY <1>1, TimersInv
<1>2. CASE \E size \in Sizes, route \in Routes : SubmitTrade(size, route)
  BY <1>2, SubmitTradeInv
<1>3. CASE \E accepted \in BOOLEAN, reply \in {"ok", "retry", "fail"} : PlaceAttempt(accepted, reply)
  BY <1>3, PlaceAttemptInv
<1>4. CASE StartPoll \/ StartCancel \/ \E id \in DOMAIN st.orders : PollErr(id)
  BY <1>4, RoundsInv
<1>5. CASE \E id \in DOMAIN st.orders : PollOk(id)
  BY <1>5, PollOkInv
<1>6. CASE \E id \in DOMAIN st.orders : CancelOk(id)
  BY <1>6, CancelOkInv
<1>7. CASE \E id \in DOMAIN st.orders : \E effective \in BOOLEAN : CancelFails(id, effective)
  BY <1>7, CancelFailsInv
<1>8. CASE \E eid \in DOMAIN exch :
             ExchangeFill(eid) \/ \E status \in {"Cancelled", "Expired"} : ExchangeEnd(eid, status)
  BY <1>8, ExchangeInv
<1>9. CASE UNCHANGED vars
  <2>1. /\ UNCHANGED <<st, live, exch, published, task>>
        /\ poll_due' \in BOOLEAN /\ stale_due' \in BOOLEAN /\ aged' \subseteq Ids
    BY <1>9 DEF IInv, TypeOK, vars
  <2>2. task' \in TaskTypes /\ TaskOK'
    BY <2>1 DEF IInv, TypeOK, TaskTypes, TaskOK, ActiveOrders
  <2> QED
    BY <2>1, <2>2, LoopStep
<1> QED
  BY <1>1, <1>2, <1>3, <1>4, <1>5, <1>6, <1>7, <1>8, <1>9 DEF Next

\* The inductive invariant holds in every reachable state.
LEMMA Invariance == Spec => []IInv
BY InitInv, NextInv, PTL DEF Spec

----------------------------------------------------------------------------
(***************************************************************************)
(* Theorems.                                                               *)
(***************************************************************************)

\* The order table is sound after every step (manager.rs, order.rs): every
\* link between an order and the exchange is held both ways, and the
\* aggregate counters count the orders, whatever the exchange does between two
\* requests and however often a request is tried again.
THEOREM BookkeepingHolds == Spec => []Bookkeeping
<1>1. IInv => Bookkeeping
  <2> SUFFICES ASSUME IInv PROVE Bookkeeping
    OBVIOUS
  <2>1. LinksAreInverse
    <3>1. \A id \in DOMAIN st.orders : Linked(id, st.orders[id], st.exchange_to_oms, exch)
      BY DEF IInv, TypeOK, OrdersOK
    <3> QED
      BY <3>1 DEF IInv, LinksOK, LinksAreInverse, Linked
  <2> QED
    BY <2>1 DEF IInv, Bookkeeping
<1> QED
  BY <1>1, Invariance, PTL

\* What is recorded as filled is what was last published, quantities are
\* published in growing order, never ahead of the exchange, and an order that a
\* poll saw end has all its fills recorded (the fill that comes with the end is
\* not lost).
THEOREM FillsPublishedHolds == Spec => []FillsPublished
<1>1. IInv => FillsPublished
  <2> SUFFICES ASSUME IInv PROVE FillsPublished
    OBVIOUS
  <2>1. DOMAIN st.orders = Ids
    BY DEF IInv, TypeOK
  <2>2. \A id \in Ids : /\ Growing(published[id], st.orders[id].filled)
                        /\ Linked(id, st.orders[id], st.exchange_to_oms, exch)
    BY DEF IInv, OrdersOK
  <2>3. RecordedIsPublished
    BY <2>1, <2>2 DEF RecordedIsPublished, Growing, Linked, Agrees
  <2>4. PolledFillsComplete
    BY <2>1, <2>2 DEF PolledFillsComplete, WithStatus, Linked, Agrees
  <2> QED
    BY <2>3, <2>4 DEF FillsPublished
<1> QED
  BY <1>1, Invariance, PTL

\* An order that is terminal for the OMS never changes again: the loop's rounds
\* only hold active orders, and they stay active until their turn.
THEOREM TerminalIsFinalHolds == Spec => TerminalIsFinal
<1> DEFINE Final == \A id \in DOMAIN st.orders :
                      IsTerminal(st.orders[id]) => st'.orders[id] = st.orders[id]
<1>1. IInv /\ [Next]_vars => [Final]_vars
  <2> SUFFICES ASSUME IInv, Next, NEW id \in DOMAIN st.orders, IsTerminal(st.orders[id])
               PROVE  st'.orders[id] = st.orders[id]
    OBVIOUS
  <2>1. CASE st' = st
    BY <2>1
  <2>2. ASSUME NEW size \in Sizes, NEW route \in Routes, SubmitTrade(size, route)
        PROVE  st'.orders[id] = st.orders[id]
    <3>1. id \in Ids /\ id # st.next_id /\ IsState(st)
      BY DEF IInv, TypeOK, Ids
    <3>0. LET t == InsertOrder(st, size)
          IN  OneOrder(st, t, st.next_id, [size |-> size, exchange_order_id |-> NoId,
                                           status |-> "Pending", filled |-> 0])
      BY <3>1, InsertOrderDoes
    <3>2. /\ IsState(InsertOrder(st, size)) /\ InsertOrder(st, size).orders[id] = st.orders[id]
          /\ DOMAIN InsertOrder(st, size).orders = Ids \cup {st.next_id}
      BY <3>1, <3>0 DEF OneOrder, IInv, TypeOK
    <3>3. CASE st' = InsertOrder(st, size)
      BY <3>2, <3>3
    <3>4. CASE st' = RecordFill(InsertOrder(st, size), st.next_id, size, TRUE)
      <4> DEFINE s == InsertOrder(st, size)
      <4>1. /\ IsState(s) /\ DOMAIN s.orders = Ids \cup {st.next_id}
            /\ s.orders[id] = st.orders[id]
        BY <3>2
      <4> HIDE DEF s
      <4>2. RecordFill(s, st.next_id, size, TRUE).orders[id] = s.orders[id]
        BY <3>1, <4>1 DEF RecordFill, IsState, Fields
      <4> QED
        BY <3>4, <4>1, <4>2 DEF s
    <3> QED
      BY <2>2, <3>3, <3>4 DEF SubmitTrade
  <2>3. ASSUME NEW accepted \in BOOLEAN, NEW reply \in {"ok", "retry", "fail"},
               PlaceAttempt(accepted, reply)
        PROVE  st'.orders[id] = st.orders[id]
    <3>1. id # task.id
      BY <2>3 DEF PlaceAttempt, IInv, TaskOK, IsTerminal, Terminal
    <3>2. IsState(st)
      BY DEF IInv
    <3>3. \A eid : SetExchangeId(st, task.id, eid).orders[id] = st.orders[id]
      BY <3>1, <3>2 DEF SetExchangeId, IsState, Fields
    <3>4. MarkRejected(st, task.id).orders[id] = st.orders[id]
      BY <3>1, <3>2 DEF MarkRejected, IsState, Fields
    <3>5. \/ st' = SetExchangeId(st, task.id, NextEid)
          \/ st' = MarkRejected(st, task.id)
          \/ st' = st
      BY <2>3 DEF PlaceAttempt
    <3> QED
      BY <3>3, <3>4, <3>5
  <2>4. ASSUME NEW other \in DOMAIN st.orders, PollOk(other) \/ CancelOk(other)
        PROVE  st'.orders[id] = st.orders[id]
    <3>1. id # other
      BY <2>4 DEF PollOk, CancelOk, IInv, TaskOK, ActiveOrders
    <3>2. IsState(st)
      BY DEF IInv
    <3>3. CASE CancelOk(other)
      BY <3>1, <3>2, <3>3 DEF CancelOk, IsState, Fields
    <3>4. CASE PollOk(other)
      <4> DEFINE u(x) == ApplyExchangeUpdate(st, other, x)
      <4>1. \A x : /\ IsState(u(x)) /\ DOMAIN u(x).orders = DOMAIN st.orders
                   /\ u(x).orders[id] = st.orders[id]
        BY <3>1, <3>2, ZenonT(60) DEF ApplyExchangeUpdate, IsState, Fields
      <4>2. \A s, f, b : IsState(s) /\ DOMAIN s.orders = DOMAIN st.orders
                           => RecordFill(s, other, f, b).orders[id] = s.orders[id]
        BY <3>1 DEF RecordFill, IsState, Fields
      <4>3. \E x, f, b : st' = u(x) \/ st' = RecordFill(u(x), other, f, b)
        BY <3>4 DEF PollOk
      <4> HIDE DEF u
      <4> QED
        BY <4>1, <4>2, <4>3
    <3> QED
      BY <2>4, <3>3, <3>4, SMTT(40)
  <2> QED
    BY <2>1, <2>2, <2>3, <2>4 DEF Next, PollTimer, StaleTimer, Age, StartPoll, StartCancel,
                                  PollErr, CancelFails, ExchangeFill, ExchangeEnd
<1>2. Spec => [][Final]_vars
  BY <1>1, Invariance, PTL DEF Spec
<1> QED
  BY <1>2, SMTT(60) DEF TerminalIsFinal
=============================================================================

------------------------- MODULE Standalone_proofs -------------------------
(***************************************************************************)
(* Proofs about components that share no state with the trading loop, and  *)
(* that the runs analysis and edges explore one at a time on one instance  *)
(* each: here for all values of their parameters.                          *)
(***************************************************************************)
EXTENDS Standalone, SumTheorems, FiniteSetTheorems, WellFoundedInduction, TLAPS

----------------------------------------------------------------------------
(***************************************************************************)
(* meta_strategy.  What the engine keeps of a strategy is the last it sent  *)
(* (Remembered); and what is not older than twice the time to live is kept *)
(* (Kept), for the eviction timer takes a market only when all of it is    *)
(* older.  A signal that counts is younger still.                          *)
(***************************************************************************)

Entries(m) == state.markets[m].entries

MetaTyped ==
  /\ DOMAIN state = {"markets", "clock"} /\ state.clock \in Nat
  /\ \A m \in DOMAIN state.markets :
       state.markets[m] = [entries |-> Entries(m), magnitude |-> state.markets[m].magnitude,
                           shock_at |-> state.markets[m].shock_at]
  /\ DOMAIN hist \subseteq Markets \X Sources
  /\ \A k \in DOMAIN hist : hist[k].at \in Nat

Remembered ==
  \A m \in DOMAIN state.markets : \A s \in DOMAIN Entries(m) :
    <<m, s>> \in DOMAIN hist /\ Entries(m)[s] = hist[<<m, s>>]

Kept ==
  \A m \in Markets, s \in Sources :
    <<m, s>> \in DOMAIN hist /\ state.clock - hist[<<m, s>>].at <= 2 * Ttl =>
      m \in DOMAIN state.markets /\ s \in DOMAIN Entries(m)

MetaInv == Meta!MetaConstants /\ MetaTyped /\ Remembered /\ Kept /\ Meta!FusesEveryLiveSignal

\* What a MetaSignal says it fuses.
LEMMA MetaSignals ==
  ASSUME NEW m, NEW mkt, NEW i \in DOMAIN Meta!TryMetaSignal(m, mkt)
  PROVE  /\ Meta!TryMetaSignal(m, mkt)[i].market = m
         /\ Meta!TryMetaSignal(m, mkt)[i].strategies = Meta!Fresh(mkt.entries)
<1>1. PICK sig : sig = [market |-> m, dir |-> Meta!Winner(mkt.entries), confidence |-> Meta!Confidence(mkt),
                        edge |-> Meta!ExpectedEdge(mkt.entries), strategies |-> Meta!Fresh(mkt.entries)]
  OBVIOUS
<1>2. Meta!TryMetaSignal(m, mkt) = <<sig>> \/ Meta!TryMetaSignal(m, mkt) = <<>>
  BY <1>1 DEF Meta!TryMetaSignal
<1>3. Meta!TryMetaSignal(m, mkt)[i] = sig
  BY <1>2
<1> QED
  BY <1>1, <1>3

\* A signal is remembered, whatever was known of its market.
LEMMA SignalKeeps ==
  ASSUME MetaInv, NEW m \in Markets, NEW s \in Sources, NEW sig \in Signals, Meta!OnSignal(m, s, sig)
  PROVE  MetaInv'
<1>1. CASE sig.ev <= 0
  <2>1. out' = <<>> /\ UNCHANGED <<state, hist>>
    BY <1>1 DEF Meta!OnSignal
  <2> QED
    BY <2>1 DEF MetaInv, MetaTyped, Remembered, Kept, Entries, Meta!FusesEveryLiveSignal
<1>2. CASE ~(sig.ev <= 0)
  <2> DEFINE now == state.clock
             news == [sig |-> sig, at |-> now]
             old == Meta!MetaOf(m).entries
  <2>1. PICK mkt : mkt = [Meta!MetaOf(m) EXCEPT !.entries = Meta!Insert(@, s, news)]
    OBVIOUS
  <2>2. /\ state' = [state EXCEPT !.markets = Meta!Insert(@, m, mkt)]
        /\ out' = Meta!TryMetaSignal(m, mkt)
        /\ hist' = Meta!Insert(hist, <<m, s>>, news)
    BY <1>2, <2>1 DEF Meta!OnSignal
  <2>3. MetaTyped /\ Remembered /\ Kept
    BY DEF MetaInv
  <2>4. /\ mkt.entries = Meta!Insert(old, s, news)
        /\ mkt = [entries |-> mkt.entries, magnitude |-> mkt.magnitude, shock_at |-> mkt.shock_at]
    <3>1. Meta!MetaOf(m) = [entries |-> old, magnitude |-> Meta!MetaOf(m).magnitude, shock_at |-> Meta!MetaOf(m).shock_at]
      BY <2>3 DEF MetaTyped, Entries, Meta!MetaOf, Meta!GetOr, Meta!NewMeta
    <3> HIDE DEF old
    <3> QED
      BY <2>1, <3>1
  <2>5. /\ DOMAIN mkt.entries = DOMAIN old \cup {s} /\ mkt.entries[s] = news
        /\ \A x \in DOMAIN old : x # s => mkt.entries[x] = old[x]
    BY <2>4 DEF Meta!Insert
  <2>6. /\ DOMAIN state' = {"markets", "clock"} /\ state'.clock = now
        /\ DOMAIN state'.markets = DOMAIN state.markets \cup {m} /\ state'.markets[m] = mkt
        /\ \A x \in DOMAIN state.markets : x # m => state'.markets[x] = state.markets[x]
    BY <2>2, <2>3 DEF MetaTyped, Meta!Insert
  <2>7. /\ DOMAIN hist' = DOMAIN hist \cup {<<m, s>>} /\ hist'[<<m, s>>] = news
        /\ \A k \in DOMAIN hist : k # <<m, s>> => hist'[k] = hist[k]
    BY <2>2 DEF Meta!Insert
  <2>8. \A x \in DOMAIN old : <<m, x>> \in DOMAIN hist /\ old[x] = hist[<<m, x>>]
    BY <2>3 DEF Remembered, Entries, Meta!MetaOf, Meta!GetOr, Meta!NewMeta, Meta!EmptyMap
  <2>9. \A x \in Sources : <<m, x>> \in DOMAIN hist /\ now - hist[<<m, x>>].at <= 2 * Ttl => x \in DOMAIN old
    BY <2>3 DEF Kept, Entries, Meta!MetaOf, Meta!GetOr
  <2> HIDE DEF old
  <2>10. MetaTyped'
    <3>1. now \in Nat /\ news.at = now
      BY <2>3 DEF MetaTyped
    <3>2. \A x \in DOMAIN state'.markets :
            state'.markets[x] = [entries |-> state'.markets[x].entries, magnitude |-> state'.markets[x].magnitude,
                                 shock_at |-> state'.markets[x].shock_at]
      BY <2>3, <2>4, <2>6 DEF MetaTyped, Entries
    <3>3. DOMAIN hist' \subseteq Markets \X Sources /\ \A k \in DOMAIN hist' : hist'[k].at \in Nat
      BY <2>3, <2>7, <3>1 DEF MetaTyped
    <3> QED
      BY <2>6, <3>1, <3>2, <3>3 DEF MetaTyped, Entries
  <2>11. Remembered'
    <3> SUFFICES ASSUME NEW x \in DOMAIN state'.markets, NEW y \in DOMAIN state'.markets[x].entries
                 PROVE  <<x, y>> \in DOMAIN hist' /\ state'.markets[x].entries[y] = hist'[<<x, y>>]
      BY DEF Remembered, Entries
    <3>1. CASE x = m
      BY <2>5, <2>6, <2>7, <2>8, <3>1
    <3>2. CASE x # m
      BY <2>3, <2>6, <2>7, <3>2 DEF Remembered, Entries
    <3> QED
      BY <3>1, <3>2
  <2>12. Kept'
    <3> SUFFICES ASSUME NEW x \in Markets, NEW y \in Sources,
                        <<x, y>> \in DOMAIN hist', now - hist'[<<x, y>>].at <= 2 * Ttl
                 PROVE  x \in DOMAIN state'.markets /\ y \in DOMAIN state'.markets[x].entries
      BY <2>6 DEF Kept, Entries
    <3>1. CASE x = m
      BY <2>5, <2>6, <2>7, <2>9, <3>1
    <3>2. CASE x # m
      BY <2>3, <2>6, <2>7, <3>2 DEF Kept, Entries
    <3> QED
      BY <3>1, <3>2
  <2>13. Meta!FusesEveryLiveSignal'
    <3> SUFFICES ASSUME NEW i \in DOMAIN out'
                 PROVE  out'[i].strategies =
                          {x \in Sources : /\ <<out'[i].market, x>> \in DOMAIN hist'
                                           /\ now - hist'[<<out'[i].market, x>>].at <= Ttl}
      BY <2>6 DEF Meta!FusesEveryLiveSignal
    <3>1. out'[i].market = m /\ out'[i].strategies = Meta!Fresh(mkt.entries)
      BY <2>2, MetaSignals
    <3>2. Meta!Fresh(mkt.entries) = {x \in DOMAIN mkt.entries : now - mkt.entries[x].at <= Ttl}
      BY DEF Meta!Fresh
    <3>3. \A x \in DOMAIN mkt.entries :
            x \in Sources /\ <<m, x>> \in DOMAIN hist' /\ mkt.entries[x] = hist'[<<m, x>>]
      BY <2>6, <2>10, <2>11 DEF MetaTyped, Remembered, Entries
    <3>4. \A x \in Sources : <<m, x>> \in DOMAIN hist' /\ now - hist'[<<m, x>>].at <= Ttl => x \in DOMAIN mkt.entries
      <4>1. \A k \in DOMAIN hist' : hist'[k].at \in Nat
        BY <2>10 DEF MetaTyped
      <4>2. \A n \in Int : n <= Ttl => n <= 2 * Ttl
        BY DEF MetaInv, Meta!MetaConstants
      <4>3. now \in Nat
        BY <2>3 DEF MetaTyped
      <4>4. \A x \in Sources : <<m, x>> \in DOMAIN hist' /\ now - hist'[<<m, x>>].at <= Ttl
                                 => now - hist'[<<m, x>>].at <= 2 * Ttl
        BY <4>1, <4>2, <4>3
      <4> QED
        BY <2>6, <2>12, <4>4 DEF Kept, Entries
    <3> QED
      BY <3>1, <3>2, <3>3, <3>4
  <2> QED
    BY <2>10, <2>11, <2>12, <2>13 DEF MetaInv
<1> QED
  BY <1>1, <1>2

\* A shock changes nothing that a MetaSignal fuses.
LEMMA ShockKeeps ==
  ASSUME MetaInv, NEW m \in Markets, NEW magnitude, Meta!OnShock(m, magnitude)
  PROVE  MetaInv'
<1>1. PICK mkt : mkt = [Meta!MetaOf(m) EXCEPT !.magnitude = magnitude, !.shock_at = state.clock]
  OBVIOUS
<1>2. /\ state' = [state EXCEPT !.markets = Meta!Insert(@, m, mkt)]
      /\ out' = <<>> /\ hist' = hist
  BY <1>1 DEF Meta!OnShock
<1>3. MetaTyped /\ Remembered /\ Kept
  BY DEF MetaInv
<1>4. /\ mkt.entries = Meta!MetaOf(m).entries
      /\ mkt = [entries |-> mkt.entries, magnitude |-> mkt.magnitude, shock_at |-> mkt.shock_at]
  <2>1. PICK o, n, a : Meta!MetaOf(m) = [entries |-> o, magnitude |-> n, shock_at |-> a]
    BY <1>3 DEF MetaTyped, Entries, Meta!MetaOf, Meta!GetOr, Meta!NewMeta
  <2> QED
    BY <1>1, <2>1
<1>5. /\ DOMAIN state' = {"markets", "clock"} /\ state'.clock = state.clock
      /\ DOMAIN state'.markets = DOMAIN state.markets \cup {m} /\ state'.markets[m] = mkt
      /\ \A x \in DOMAIN state.markets : x # m => state'.markets[x] = state.markets[x]
  BY <1>2, <1>3 DEF MetaTyped, Meta!Insert
<1>6. /\ m \in DOMAIN state.markets => mkt.entries = Entries(m)
      /\ m \notin DOMAIN state.markets => DOMAIN mkt.entries = {}
  BY <1>4 DEF Meta!MetaOf, Meta!GetOr, Meta!NewMeta, Meta!EmptyMap, Entries
<1>7. MetaTyped'
  BY <1>2, <1>3, <1>4, <1>5 DEF MetaTyped, Entries
<1>8. Remembered'
  <2> SUFFICES ASSUME NEW x \in DOMAIN state'.markets, NEW y \in DOMAIN state'.markets[x].entries
               PROVE  <<x, y>> \in DOMAIN hist /\ state'.markets[x].entries[y] = hist[<<x, y>>]
    BY <1>2, ZenonT(60) DEF Remembered, Entries
  <2>1. x \in DOMAIN state.markets /\ state'.markets[x].entries = Entries(x)
    BY <1>5, <1>6 DEF Entries
  <2> QED
    BY <1>3, <2>1 DEF Remembered
<1>9. Kept'
  BY <1>2, <1>3, <1>5, <1>6 DEF Kept, Entries
<1>10. Meta!FusesEveryLiveSignal'
  BY <1>2 DEF Meta!FusesEveryLiveSignal
<1> QED
  BY <1>7, <1>8, <1>9, <1>10 DEF MetaInv

\* The eviction timer takes no market with a signal that may still count.
LEMMA EvictionKeeps ==
  ASSUME MetaInv, Meta!OnEvictionTick
  PROVE  MetaInv'
<1>1. MetaTyped /\ Remembered /\ Kept /\ Ttl \in Nat
  BY DEF MetaInv, Meta!MetaConstants
<1>2. /\ DOMAIN state' = {"markets", "clock"} /\ state'.clock = state.clock
      /\ out' = <<>> /\ hist' = hist
      /\ DOMAIN state'.markets = {x \in DOMAIN state.markets : ~Meta!Stale(x)}
      /\ \A x \in DOMAIN state'.markets : state'.markets[x] = state.markets[x]
  <2>1. PICK gone : gone = {x \in DOMAIN state.markets : Meta!Stale(x)}
    OBVIOUS
  <2>2. state' = [state EXCEPT !.markets = Meta!RemoveAll(@, gone)] /\ out' = <<>> /\ hist' = hist
    BY <2>1 DEF Meta!OnEvictionTick
  <2>3. /\ DOMAIN state' = {"markets", "clock"} /\ state'.clock = state.clock
        /\ state'.markets = Meta!RemoveAll(state.markets, gone)
    BY <1>1, <2>2 DEF MetaTyped
  <2>4. /\ DOMAIN state'.markets = DOMAIN state.markets \ gone
        /\ \A x \in DOMAIN state'.markets : state'.markets[x] = state.markets[x]
    BY <2>3 DEF Meta!RemoveAll, Meta!Restrict
  <2> QED
    BY <2>1, <2>2, <2>3, <2>4
<1>3. MetaTyped'
  BY <1>1, <1>2 DEF MetaTyped, Entries
<1>4. Remembered'
  BY <1>1, <1>2 DEF Remembered, Entries
<1>5. Kept'
  <2> SUFFICES ASSUME NEW m \in Markets, NEW s \in Sources, <<m, s>> \in DOMAIN hist,
                      state.clock - hist[<<m, s>>].at <= 2 * Ttl
               PROVE  m \in DOMAIN state'.markets /\ s \in DOMAIN state'.markets[m].entries
    BY <1>2 DEF Kept, Entries
  <2>1. m \in DOMAIN state.markets /\ s \in DOMAIN Entries(m)
    BY <1>1 DEF Kept
  <2>2. Entries(m)[s].at = hist[<<m, s>>].at
    BY <1>1, <2>1 DEF Remembered
  <2>3. ~(hist[<<m, s>>].at < state.clock - 2 * Ttl)
    BY <1>1 DEF MetaTyped
  <2>4. ~Meta!Stale(m)
    BY <2>1, <2>2, <2>3 DEF Meta!Stale, Entries
  <2> QED
    BY <1>2, <2>1, <2>4 DEF Entries
<1>6. Meta!FusesEveryLiveSignal'
  BY <1>2 DEF Meta!FusesEveryLiveSignal
<1> QED
  BY <1>3, <1>4, <1>5, <1>6 DEF MetaInv

\* Time passes: what was old stays old.
LEMMA TickKeeps ==
  ASSUME MetaInv, Meta!Tick
  PROVE  MetaInv'
<1>1. MetaTyped /\ Remembered /\ Kept /\ Ttl \in Nat
  BY DEF MetaInv, Meta!MetaConstants
<1>2. /\ DOMAIN state' = {"markets", "clock"} /\ state'.clock = state.clock + 1
      /\ out' = <<>> /\ hist' = hist /\ state'.markets = state.markets
  BY <1>1 DEF Meta!Tick, MetaTyped
<1>3. MetaTyped'
  BY <1>1, <1>2 DEF MetaTyped, Entries
<1>4. Remembered'
  BY <1>1, <1>2 DEF Remembered, Entries
<1>5. Kept'
  BY <1>1, <1>2 DEF Kept, Entries, MetaTyped
<1>6. Meta!FusesEveryLiveSignal'
  BY <1>2 DEF Meta!FusesEveryLiveSignal
<1> QED
  BY <1>3, <1>4, <1>5, <1>6 DEF MetaInv

MetaPart == which = "meta" => MetaInv

\* A MetaSignal fuses exactly the strategies whose last signal is alive: for
\* all markets, strategies and times to live, however signals, shocks and the
\* eviction timer are interleaved.
THEOREM MetaSignalFusesTheLiving == Spec => []FusesEveryLiveSignal
<1>1. Meta!Init => MetaInv
  <2> SUFFICES ASSUME Meta!Init PROVE MetaInv
    OBVIOUS
  <2>0. Meta!MetaConstants
    BY StandaloneConstants
  <2>1. /\ DOMAIN state = {"markets", "clock"} /\ state.clock = 0
        /\ DOMAIN state.markets = {} /\ DOMAIN hist = {} /\ out = <<>>
    BY DEF Meta!Init, Meta!EmptyMap
  <2> QED
    BY <2>0, <2>1 DEF MetaInv, MetaTyped, Remembered, Kept, Meta!FusesEveryLiveSignal
<1>2. MetaInv /\ [Meta!Next]_(Meta!vars) => MetaInv'
  <2> SUFFICES ASSUME MetaInv, [Meta!Next]_(Meta!vars) PROVE MetaInv'
    OBVIOUS
  <2>1. CASE UNCHANGED Meta!vars
    BY <2>1 DEF Meta!vars, MetaInv, MetaTyped, Remembered, Kept, Entries, Meta!FusesEveryLiveSignal
  <2> QED
    BY <2>1, SignalKeeps, ShockKeeps, EvictionKeeps, TickKeeps DEF Meta!Next
<1>3. MetaInv => Meta!FusesEveryLiveSignal
  BY DEF MetaInv
<1>4. Init => MetaPart
  BY <1>1 DEF Init, MetaPart
<1>5. MetaPart /\ [Next]_vars => MetaPart'
  <2> SUFFICES ASSUME MetaPart, [Next]_vars, which' = "meta" PROVE MetaInv'
    BY DEF MetaPart
  <2>1. which = "meta" /\ [Meta!Next]_(Meta!vars)
    BY DEF Next, vars, Meta!vars
  <2> QED
    BY <1>2, <2>1 DEF MetaPart
<1>6. MetaPart => FusesEveryLiveSignal
  BY <1>3 DEF MetaPart, FusesEveryLiveSignal
<1> QED
  BY <1>4, <1>5, <1>6, PTL DEF Spec

----------------------------------------------------------------------------
(***************************************************************************)
(* calibration.  Until a market ends its pending prediction is the last    *)
(* posterior received and nothing of it is scored; from its end on it is   *)
(* resolved, and posteriors, prices and scores leave it as it is.          *)
(***************************************************************************)

CalEvents == [kind : {"posterior", "price"}, market : CalMarkets, prob : Predictions \cup CalPrices]
CalRecords ==
  {[market |-> m, predicted |-> p, outcome |-> o, brier |-> Cal!Square(p - o)] :
     m \in CalMarkets, p \in Predictions, o \in {0, Scale}}

CalTyped ==
  /\ state = [pending |-> state.pending, records |-> state.records, resolved |-> state.resolved]
  /\ DOMAIN state.pending \subseteq CalMarkets
  /\ \A m \in DOMAIN state.pending : state.pending[m] \in Predictions
  /\ state.records \in Seq(CalRecords)
  /\ hist \in Seq(CalEvents)

Ends(m) ==
  {i \in DOMAIN hist : hist[i].kind = "price" /\ hist[i].market = m /\ Cal!Resolves(hist[i].prob)}
Before(m) ==
  {i \in DOMAIN hist : /\ hist[i].kind = "posterior" /\ hist[i].market = m
                       /\ \A e \in Ends(m) : i < e}
ScoresOf(m) == {r \in DOMAIN state.records : state.records[r].market = m}
IsLast(i, S) == i \in S /\ \A j \in S : j <= i

Open(m) ==
  /\ Ends(m) = {} /\ ScoresOf(m) = {}
  /\ m \notin DOMAIN state.pending => Before(m) = {}
  /\ m \in DOMAIN state.pending =>
       \E i \in DOMAIN hist : IsLast(i, Before(m)) /\ state.pending[m] = hist[i].prob
Over(m) ==
  /\ Ends(m) # {} /\ m \notin DOMAIN state.pending
  /\ Before(m) = {} => ScoresOf(m) = {}
  /\ Before(m) # {} =>
       \E r \in DOMAIN state.records, i \in DOMAIN hist :
         ScoresOf(m) = {r} /\ IsLast(i, Before(m)) /\ state.records[r].predicted = hist[i].prob

CalInv ==
  /\ CalTyped
  /\ \A m \in CalMarkets : IF m \in state.resolved THEN Over(m) ELSE Open(m)

\* The past of a market as one more event leaves it.
LEMMA OneMoreEvent ==
  ASSUME hist \in Seq(CalEvents), NEW e \in CalEvents, hist' = Append(hist, e),
         NEW n, n = Len(hist) + 1, NEW m \in CalMarkets
  PROVE  /\ hist' \in Seq(CalEvents) /\ n \in Nat /\ n \in DOMAIN hist' /\ hist'[n] = e
         /\ \A i \in DOMAIN hist : i \in DOMAIN hist' /\ hist'[i] = hist[i] /\ i < n
         /\ IF e.kind = "price" /\ e.market = m /\ Cal!Resolves(e.prob)
            THEN Ends(m)' = Ends(m) \cup {n} ELSE Ends(m)' = Ends(m)
         /\ IF e.kind = "posterior" /\ e.market = m /\ Ends(m) = {}
            THEN Before(m)' = Before(m) \cup {n} ELSE Before(m)' = Before(m)
<1>1. /\ hist' \in Seq(CalEvents) /\ n \in Nat /\ n \in DOMAIN hist' /\ hist'[n] = e
      /\ DOMAIN hist' = DOMAIN hist \cup {n}
      /\ \A i \in DOMAIN hist : i \in DOMAIN hist' /\ hist'[i] = hist[i] /\ i \in Nat /\ i < n
  <2>1. e \in CalEvents /\ Len(hist) \in Nat /\ DOMAIN hist = 1..Len(hist)
    OBVIOUS
  <2> QED
    BY <2>1
<1>2. IF e.kind = "price" /\ e.market = m /\ Cal!Resolves(e.prob)
      THEN Ends(m)' = Ends(m) \cup {n} ELSE Ends(m)' = Ends(m)
  BY <1>1 DEF Ends, Cal!Resolves
<1>3. IF e.kind = "posterior" /\ e.market = m /\ Ends(m) = {}
      THEN Before(m)' = Before(m) \cup {n} ELSE Before(m)' = Before(m)
  <2>1. Ends(m) \subseteq DOMAIN hist /\ Before(m) \subseteq DOMAIN hist
    BY DEF Ends, Before
  <2>2. \A i \in DOMAIN hist : (\A x \in Ends(m)' : i < x) <=> (\A x \in Ends(m) : i < x)
    BY <1>1, <1>2
  <2>3. \A i \in DOMAIN hist : i \in Before(m)' <=> i \in Before(m)
    BY <1>1, <2>2 DEF Before
  <2>4. n \in Before(m)' <=> e.kind = "posterior" /\ e.market = m /\ Ends(m) = {}
    <3>1. e.kind = "posterior" => Ends(m)' = Ends(m)
      BY <1>2
    <3>2. Ends(m) # {} => ~(\A x \in Ends(m) : n < x)
      BY <1>1, <2>1
    <3> QED
      BY <1>1, <3>1, <3>2 DEF Before
  <2>5. Before(m)' \subseteq DOMAIN hist'
    BY DEF Before
  <2>6. DOMAIN hist' = DOMAIN hist \cup {n}
    BY <1>1
  <2>7. CASE e.kind = "posterior" /\ e.market = m /\ Ends(m) = {}
    <3>1. \A i : i \in Before(m)' <=> i \in Before(m) \cup {n}
      BY <2>1, <2>3, <2>4, <2>5, <2>6, <2>7
    <3>2. Before(m)' = Before(m) \cup {n}
      BY <3>1
    <3> QED
      BY <2>7, <3>2
  <2>8. CASE ~(e.kind = "posterior" /\ e.market = m /\ Ends(m) = {})
    <3>1. \A i : i \in Before(m)' <=> i \in Before(m)
      BY <2>1, <2>3, <2>4, <2>5, <2>6, <2>8
    <3>2. Before(m)' = Before(m)
      BY <3>1
    <3> QED
      BY <2>8, <3>2
  <2> QED
    BY <2>7, <2>8
<1> QED
  BY <1>1, <1>2, <1>3

\* A market that the event is not about, or that is over, stays as it is, if
\* the step leaves its prediction and its scores alone.
LEMMA CalUntouched ==
  ASSUME CalInv, NEW e \in CalEvents, hist' = Append(hist, e), NEW m \in CalMarkets,
         e.market # m \/ m \in state.resolved \/ (e.kind = "price" /\ ~Cal!Resolves(e.prob)),
         m \in state'.resolved <=> m \in state.resolved,
         m \in DOMAIN state'.pending <=> m \in DOMAIN state.pending,
         m \in DOMAIN state.pending => state'.pending[m] = state.pending[m],
         ScoresOf(m)' = ScoresOf(m),
         \A r \in ScoresOf(m) : r \in DOMAIN state'.records /\ state'.records[r] = state.records[r]
  PROVE  (IF m \in state.resolved THEN Over(m) ELSE Open(m))'
<1>1. PICK n : n = Len(hist) + 1
  OBVIOUS
<1>2. hist \in Seq(CalEvents) /\ IF m \in state.resolved THEN Over(m) ELSE Open(m)
  BY DEF CalInv, CalTyped
<1>3. /\ \A i \in DOMAIN hist : i \in DOMAIN hist' /\ hist'[i] = hist[i]
      /\ Ends(m) # {} => Ends(m)' # {}
      /\ m \in state.resolved \/ Ends(m)' = Ends(m)
      /\ Before(m)' = Before(m)
  <2>1. m \in state.resolved => Ends(m) # {}
    BY <1>2 DEF Over
  <2> QED
    BY <1>1, <1>2, <2>1, OneMoreEvent
<1>4. CASE m \in state.resolved
  <2>1. Over(m)
    BY <1>2, <1>4
  <2>2. Before(m)' # {} =>
          \E r \in DOMAIN state'.records, i \in DOMAIN hist' :
            ScoresOf(m)' = {r} /\ IsLast(i, Before(m))' /\ state'.records[r].predicted = hist'[i].prob
    <3> SUFFICES ASSUME Before(m) # {}
                 PROVE  \E r \in DOMAIN state'.records, i \in DOMAIN hist' :
                          ScoresOf(m)' = {r} /\ IsLast(i, Before(m))' /\ state'.records[r].predicted = hist'[i].prob
      BY <1>3
    <3>1. PICK r \in DOMAIN state.records, i \in DOMAIN hist :
            ScoresOf(m) = {r} /\ IsLast(i, Before(m)) /\ state.records[r].predicted = hist[i].prob
      BY <2>1 DEF Over
    <3>2. r \in DOMAIN state'.records /\ state'.records[r] = state.records[r] /\ i \in DOMAIN hist' /\ hist'[i] = hist[i]
      BY <1>3, <3>1
    <3>3. ScoresOf(m)' = {r} /\ IsLast(i, Before(m))'
      BY <1>3, <3>1 DEF IsLast
    <3> QED
      BY <3>1, <3>2, <3>3
  <2> QED
    BY <1>3, <1>4, <2>1, <2>2 DEF Over
<1>5. CASE m \notin state.resolved
  <2>1. Open(m)
    BY <1>2, <1>5
  <2>2. m \in DOMAIN state'.pending =>
          \E i \in DOMAIN hist' : IsLast(i, Before(m))' /\ state'.pending[m] = hist'[i].prob
    <3> SUFFICES ASSUME m \in DOMAIN state.pending
                 PROVE  \E i \in DOMAIN hist' : IsLast(i, Before(m))' /\ state'.pending[m] = hist'[i].prob
      OBVIOUS
    <3>1. PICK i \in DOMAIN hist : IsLast(i, Before(m)) /\ state.pending[m] = hist[i].prob
      BY <2>1 DEF Open
    <3> QED
      BY <1>3, <3>1 DEF IsLast
  <2> QED
    BY <1>3, <1>5, <2>1, <2>2 DEF Open
<1> QED
  BY <1>4, <1>5

\* A posterior becomes the pending prediction of a market that is not over.
LEMMA PosteriorKeeps ==
  ASSUME CalInv, NEW m \in CalMarkets, NEW p \in Predictions, Cal!OnPosterior(m, p),
         Cal!Received([kind |-> "posterior", market |-> m, prob |-> p])
  PROVE  CalInv'
<1>1. PICK e : e = [kind |-> "posterior", market |-> m, prob |-> p]
  OBVIOUS
<1>2. e \in CalEvents /\ hist' = Append(hist, e) /\ e.market = m /\ e.kind = "posterior" /\ e.prob = p
  BY <1>1 DEF CalEvents, Cal!Received
<1>3. PICK n : n = Len(hist) + 1
  OBVIOUS
<1>4. CalTyped
  BY DEF CalInv
<1>5. /\ state' = [pending |-> state'.pending, records |-> state.records, resolved |-> state.resolved]
      /\ state'.records = state.records /\ state'.resolved = state.resolved
      /\ m \in state.resolved => state'.pending = state.pending
      /\ m \notin state.resolved => state'.pending = Cal!Insert(state.pending, m, p)
  BY <1>4 DEF CalTyped, Cal!OnPosterior
<1>6. /\ DOMAIN state'.pending \subseteq DOMAIN state.pending \cup {m}
      /\ m \notin state.resolved => m \in DOMAIN state'.pending /\ state'.pending[m] = p
      /\ \A x : x # m \/ m \in state.resolved =>
           /\ x \in DOMAIN state'.pending <=> x \in DOMAIN state.pending
           /\ x \in DOMAIN state.pending => state'.pending[x] = state.pending[x]
  BY <1>5 DEF Cal!Insert
<1>7. hist' \in Seq(CalEvents)
  BY <1>2, <1>3, <1>4, OneMoreEvent DEF CalTyped
<1>8. \A x \in DOMAIN state'.pending : state'.pending[x] \in Predictions
  <2> SUFFICES ASSUME NEW x \in DOMAIN state'.pending PROVE state'.pending[x] \in Predictions
    OBVIOUS
  <2>1. CASE x = m /\ m \notin state.resolved
    BY <1>6, <2>1
  <2>2. CASE x # m \/ m \in state.resolved
    BY <1>4, <1>6, <2>2 DEF CalTyped
  <2> QED
    BY <2>1, <2>2
<1>9. CalTyped'
  BY <1>4, <1>5, <1>6, <1>7, <1>8 DEF CalTyped
<1>10. ASSUME NEW x \in CalMarkets
       PROVE  (IF x \in state.resolved THEN Over(x) ELSE Open(x))'
  <2>1. ScoresOf(x)' = ScoresOf(x)
    BY <1>5 DEF ScoresOf
  <2>2. \A r \in ScoresOf(x) : r \in DOMAIN state'.records /\ state'.records[r] = state.records[r]
    BY <1>5 DEF ScoresOf
  <2>3. CASE x # m \/ m \in state.resolved
    <3>1. /\ e.market # x \/ x \in state.resolved
          /\ x \in state'.resolved <=> x \in state.resolved
          /\ x \in DOMAIN state'.pending <=> x \in DOMAIN state.pending
          /\ x \in DOMAIN state.pending => state'.pending[x] = state.pending[x]
      BY <1>2, <1>5, <1>6, <2>3
    <3> QED
      BY <1>2, <2>1, <2>2, <3>1, CalUntouched
  <2>4. CASE x = m /\ m \notin state.resolved
    <3>1. Open(m)
      BY <2>4 DEF CalInv
    <3>2. Ends(m) = {}
      BY <3>1 DEF Open
    <3>3. /\ n \in Nat /\ n \in DOMAIN hist' /\ hist'[n] = e
          /\ \A i \in DOMAIN hist : i < n
          /\ Ends(m)' = {} /\ Before(m)' = Before(m) \cup {n}
      <4>1. hist \in Seq(CalEvents)
        BY <1>4 DEF CalTyped
      <4> QED
        BY <1>2, <1>3, <3>2, <4>1, OneMoreEvent
    <3>4. \A i \in Before(m) : i \in Nat /\ i < n
      <4>1. \A i \in Before(m) : i \in DOMAIN hist /\ i \in Nat
        BY <1>4 DEF CalTyped, Before
      <4> QED
        BY <3>3, <4>1
    <3>5. IsLast(n, Before(m))'
      <4>1. \A i \in Before(m)' : i <= n
        BY <3>3, <3>4
      <4> QED
        BY <3>3, <4>1 DEF IsLast
    <3>6. state'.pending[m] = hist'[n].prob /\ m \in DOMAIN state'.pending
      BY <1>2, <1>6, <2>4, <3>3
    <3>7. Open(m)'
      BY <2>1, <2>4, <3>1, <3>3, <3>5, <3>6 DEF Open
    <3> QED
      BY <1>5, <2>4, <3>7
  <2> QED
    BY <2>3, <2>4
<1> QED
  BY <1>9, <1>10 DEF CalInv

\* The first extreme price of a market scores its pending prediction.
LEMMA PriceKeeps ==
  ASSUME CalInv, NEW m \in CalMarkets, NEW p \in CalPrices, Cal!OnMarketUpdate(m, p),
         Cal!Received([kind |-> "price", market |-> m, prob |-> p])
  PROVE  CalInv'
<1>1. PICK e : e = [kind |-> "price", market |-> m, prob |-> p]
  OBVIOUS
<1>2. e \in CalEvents /\ hist' = Append(hist, e) /\ e.market = m /\ e.kind = "price" /\ e.prob = p
  BY <1>1 DEF CalEvents, Cal!Received
<1>3. PICK n : n = Len(hist) + 1
  OBVIOUS
<1>4. CalTyped
  BY DEF CalInv
<1>5. hist' \in Seq(CalEvents)
  BY <1>2, <1>3, <1>4, OneMoreEvent DEF CalTyped
<1>6. CASE m \in state.resolved \/ ~Cal!Resolves(p)
  <2>1. state' = state
    BY <1>6 DEF Cal!OnMarketUpdate
  <2>2. CalTyped'
    BY <1>4, <1>5, <2>1 DEF CalTyped
  <2>3. ASSUME NEW x \in CalMarkets
        PROVE  (IF x \in state.resolved THEN Over(x) ELSE Open(x))'
    <3>1. /\ e.market # x \/ x \in state.resolved \/ (e.kind = "price" /\ ~Cal!Resolves(e.prob))
          /\ ScoresOf(x)' = ScoresOf(x)
          /\ \A r \in ScoresOf(x) : r \in DOMAIN state'.records /\ state'.records[r] = state.records[r]
      BY <1>2, <1>6, <2>1 DEF ScoresOf
    <3>2. /\ x \in state'.resolved <=> x \in state.resolved
          /\ x \in DOMAIN state'.pending <=> x \in DOMAIN state.pending
          /\ x \in DOMAIN state.pending => state'.pending[x] = state.pending[x]
      BY <2>1
    <3> QED
      BY <1>2, <3>1, <3>2, CalUntouched
  <2> QED
    BY <2>2, <2>3 DEF CalInv
<1>7. CASE m \notin state.resolved /\ Cal!Resolves(p)
  <2>1. PICK o \in {0, Scale} : o = IF p <= Epsilon THEN 0 ELSE Scale
    OBVIOUS
  <2>2. PICK scored : scored = IF m \in DOMAIN state.pending
                               THEN <<[market |-> m, predicted |-> state.pending[m], outcome |-> o,
                                       brier |-> Cal!Square(state.pending[m] - o)]>>
                               ELSE <<>>
    OBVIOUS
  <2>3. state' = [pending |-> Cal!RemoveAll(state.pending, {m}), records |-> state.records \o scored,
                  resolved |-> state.resolved \cup {m}]
    BY <1>7, <2>1, <2>2 DEF Cal!OnMarketUpdate, Cal!Settled
  <2>4. /\ state'.records = state.records \o scored /\ state'.resolved = state.resolved \cup {m}
        /\ state' = [pending |-> state'.pending, records |-> state'.records, resolved |-> state'.resolved]
        /\ state'.pending = Cal!RemoveAll(state.pending, {m})
    BY <2>3
  <2>5. /\ DOMAIN state'.pending = DOMAIN state.pending \ {m}
        /\ \A x \in DOMAIN state'.pending : state'.pending[x] = state.pending[x]
    BY <2>4 DEF Cal!RemoveAll, Cal!Restrict
  <2>6. scored \in Seq(CalRecords)
    <3>1. m \in DOMAIN state.pending =>
            [market |-> m, predicted |-> state.pending[m], outcome |-> o,
             brier |-> Cal!Square(state.pending[m] - o)] \in CalRecords
      BY <1>4 DEF CalTyped, CalRecords
    <3> QED
      BY <2>2, <3>1
  <2>7. state.records \in Seq(CalRecords)
    BY <1>4 DEF CalTyped
  <2>8. /\ m \notin DOMAIN state.pending => state'.records = state.records
        /\ m \in DOMAIN state.pending =>
             /\ Len(state.records) + 1 \in DOMAIN state'.records
             /\ state'.records[Len(state.records) + 1].market = m
             /\ state'.records[Len(state.records) + 1].predicted = state.pending[m]
             /\ DOMAIN state'.records = DOMAIN state.records \cup {Len(state.records) + 1}
        /\ \A r \in DOMAIN state.records : r \in DOMAIN state'.records /\ state'.records[r] = state.records[r]
    <3>1. CASE m \notin DOMAIN state.pending
      <4>1. scored = <<>>
        BY <2>2, <3>1
      <4>2. state'.records = state.records
        BY <2>4, <2>7, <4>1
      <4> QED
        BY <3>1, <4>2
    <3>2. CASE m \in DOMAIN state.pending
      <4>1. PICK record : record = [market |-> m, predicted |-> state.pending[m], outcome |-> o,
                                    brier |-> Cal!Square(state.pending[m] - o)]
        OBVIOUS
      <4>2. scored = <<record>> /\ record.market = m /\ record.predicted = state.pending[m]
        BY <2>2, <3>2, <4>1
      <4>3. record \in CalRecords
        BY <1>4, <3>2, <4>1 DEF CalTyped, CalRecords
      <4>4. state'.records = state.records \o <<record>>
        BY <2>4, <4>2
      <4> QED
        BY <2>7, <3>2, <4>2, <4>3, <4>4
    <3> QED
      BY <3>1, <3>2
  <2>9. CalTyped'
    <3>1. state'.records \in Seq(CalRecords)
      BY <2>4, <2>6, <2>7
    <3>2. \A x \in DOMAIN state'.pending : x \in CalMarkets /\ state'.pending[x] \in Predictions
      BY <1>4, <2>5 DEF CalTyped
    <3> QED
      BY <1>5, <2>4, <3>1, <3>2 DEF CalTyped
  <2>10. ASSUME NEW x \in CalMarkets
         PROVE  (IF x \in state.resolved THEN Over(x) ELSE Open(x))'
    <3>1. CASE x # m
      <4>1. ScoresOf(x)' = ScoresOf(x)
        <5>1. \A r \in DOMAIN state'.records : state'.records[r].market = x => r \in DOMAIN state.records
          BY <2>8, <3>1
        <5> QED
          BY <2>8, <5>1 DEF ScoresOf
      <4>2. \A r \in ScoresOf(x) : r \in DOMAIN state'.records /\ state'.records[r] = state.records[r]
        BY <2>8 DEF ScoresOf
      <4>3. /\ e.market # x
            /\ x \in state'.resolved <=> x \in state.resolved
            /\ x \in DOMAIN state'.pending <=> x \in DOMAIN state.pending
            /\ x \in DOMAIN state.pending => state'.pending[x] = state.pending[x]
        BY <1>2, <2>4, <2>5, <3>1
      <4> QED
        BY <1>2, <4>1, <4>2, <4>3, CalUntouched
    <3>2. CASE x = m
      <4>1. Open(m)
        BY <1>7 DEF CalInv
      <4>2. /\ n \in DOMAIN hist' /\ Ends(m)' = Ends(m) \cup {n} /\ Before(m)' = Before(m)
            /\ \A i \in DOMAIN hist : i \in DOMAIN hist' /\ hist'[i] = hist[i]
        <5>1. hist \in Seq(CalEvents) /\ e.kind # "posterior" /\ Cal!Resolves(e.prob)
          BY <1>2, <1>4, <1>7 DEF CalTyped
        <5> QED
          BY <1>2, <1>3, <5>1, OneMoreEvent
      <4>3. Ends(m)' # {} /\ m \notin DOMAIN state'.pending /\ m \in state'.resolved
        BY <2>4, <2>5, <4>2
      <4>4. CASE m \notin DOMAIN state.pending
        <5>1. Before(m)' = {}
          BY <4>1, <4>2, <4>4 DEF Open
        <5>2. ScoresOf(m)' = {}
          BY <2>8, <4>1, <4>4 DEF Open, ScoresOf
        <5> QED
          BY <3>2, <4>3, <5>1, <5>2 DEF Over
      <4>5. CASE m \in DOMAIN state.pending
        <5>1. PICK i \in DOMAIN hist : IsLast(i, Before(m)) /\ state.pending[m] = hist[i].prob
          BY <4>1, <4>5 DEF Open
        <5>2. PICK r : r = Len(state.records) + 1
          OBVIOUS
        <5>3. r \in DOMAIN state'.records /\ state'.records[r].predicted = hist'[i].prob
          BY <2>8, <4>2, <4>5, <5>1, <5>2
        <5>4. ScoresOf(m)' = {r}
          <6>1. \A s \in DOMAIN state'.records : state'.records[s].market = m => s = r
            BY <2>8, <4>1, <4>5, <5>2 DEF Open, ScoresOf
          <6> QED
            BY <2>8, <4>5, <5>2, <6>1 DEF ScoresOf
        <5>5. IsLast(i, Before(m))'
          BY <4>2, <5>1 DEF IsLast
        <5>6. Before(m)' # {}
          BY <5>5 DEF IsLast
        <5>7. i \in DOMAIN hist'
          BY <4>2, <5>1
        <5> QED
          BY <3>2, <4>3, <5>3, <5>4, <5>5, <5>6, <5>7 DEF Over
      <4> QED
        BY <4>4, <4>5
    <3> QED
      BY <3>1, <3>2
  <2> QED
    BY <2>9, <2>10 DEF CalInv
<1> QED
  BY <1>6, <1>7

CalPart == which = "cal" => CalInv

\* A market is scored once, when its price first becomes extreme, on the last
\* posterior received before that: for all markets and probabilities, whatever
\* comes in between and after.
THEOREM ScoredOnTheLastPrediction == Spec => []ScoredOnWhatWasPredicted
<1>1. Cal!Init => CalInv
  <2> SUFFICES ASSUME Cal!Init PROVE CalInv
    OBVIOUS
  <2>1. /\ state = [pending |-> Cal!EmptyMap, records |-> <<>>, resolved |-> {}]
        /\ DOMAIN Cal!EmptyMap = {} /\ hist = <<>> /\ DOMAIN hist = {}
    BY DEF Cal!Init, Cal!EmptyMap
  <2>2. CalTyped
    BY <2>1 DEF CalTyped
  <2>3. \A m \in CalMarkets : m \notin state.resolved /\ Open(m)
    BY <2>1 DEF Open, Ends, Before, ScoresOf
  <2> QED
    BY <2>2, <2>3 DEF CalInv
<1>2. CalInv /\ [Cal!Next]_(Cal!vars) => CalInv'
  <2> SUFFICES ASSUME CalInv, [Cal!Next]_(Cal!vars) PROVE CalInv'
    OBVIOUS
  <2>1. CASE UNCHANGED Cal!vars
    <3>1. state' = state /\ hist' = hist
      BY <2>1 DEF Cal!vars
    <3>2. CalTyped'
      BY <3>1 DEF CalInv, CalTyped
    <3>3. ASSUME NEW m \in CalMarkets
          PROVE  Ends(m)' = Ends(m) /\ Before(m)' = Before(m) /\ ScoresOf(m)' = ScoresOf(m)
      BY <3>1 DEF Ends, Before, ScoresOf
    <3>4. ASSUME NEW m \in CalMarkets
          PROVE  (IF m \in state.resolved THEN Over(m) ELSE Open(m))'
      <4>1. Open(m) => Open(m)'
        BY <3>1, <3>3 DEF Open, IsLast
      <4>2. Over(m) => Over(m)'
        BY <3>1, <3>3 DEF Over, IsLast
      <4> QED
        BY <3>1, <4>1, <4>2 DEF CalInv
    <3> QED
      BY <3>2, <3>4 DEF CalInv
  <2> QED
    BY <2>1, PosteriorKeeps, PriceKeeps DEF Cal!Next
<1>3. CalInv => Cal!ScoredOnWhatWasPredicted
  <2> SUFFICES ASSUME CalInv, NEW m \in CalMarkets
               PROVE  IF Ends(m) = {} \/ Before(m) = {} THEN ScoresOf(m) = {}
                      ELSE \E r \in ScoresOf(m), last \in Before(m) :
                             /\ ScoresOf(m) = {r} /\ \A i \in Before(m) : i <= last
                             /\ state.records[r].predicted = hist[last].prob
    BY DEF Cal!ScoredOnWhatWasPredicted, Ends, Before, ScoresOf
  <2>1. CASE m \notin state.resolved
    BY <2>1 DEF CalInv, Open
  <2>2. CASE m \in state.resolved
    <3>1. Over(m)
      BY <2>2 DEF CalInv
    <3> QED
      BY <3>1 DEF Over, IsLast
  <2> QED
    BY <2>1, <2>2
<1>4. Init => CalPart
  BY <1>1 DEF Init, CalPart
<1>5. CalPart /\ [Next]_vars => CalPart'
  <2> SUFFICES ASSUME CalPart, [Next]_vars, which' = "cal" PROVE CalInv'
    BY DEF CalPart
  <2>1. which = "cal" /\ [Cal!Next]_(Cal!vars)
    BY DEF Next, vars, Cal!vars
  <2> QED
    BY <1>2, <2>1 DEF CalPart
<1>6. CalPart => ScoredOnWhatWasPredicted
  BY <1>3 DEF CalPart, ScoredOnWhatWasPredicted
<1> QED
  BY <1>4, <1>5, <1>6, PTL DEF Spec

----------------------------------------------------------------------------
(***************************************************************************)
(* strategy_research.  What the registry holds are candidates that met the *)
(* criteria, each under its own id; what it lacks is no better than what   *)
(* it holds, and it lacks nothing while there is room.                     *)
(***************************************************************************)

Tasks ==
  {Research!Waiting, Research!Running, [at |-> "panicked"]}
    \cup {[at |-> "done", metrics |-> o] : o \in Outcomes}
Candidates == [id : Nat \X Nat, sharpe : Int]

ResearchTyped ==
  /\ DOMAIN state = {"cycle", "tasks", "next", "registry"}
  /\ state.cycle \in Nat /\ state.next \in Nat \ {0} /\ state.tasks \in Seq(Tasks)
  /\ hist \subseteq Candidates /\ IsFiniteSet(hist) /\ IsFiniteSet(DOMAIN state.registry)

\* The next candidate has an id that none had before.
IdsAreOld ==
  \A c \in hist : c.id[1] < state.cycle \/ (c.id[1] = state.cycle /\ c.id[2] < state.next)
IdsAreUnique == \A c, d \in hist : c.id = d.id => c = d

Held == {c \in hist : c.id \in DOMAIN state.registry}
HeldAsFound == \A k \in DOMAIN state.registry : [id |-> k, sharpe |-> state.registry[k]] \in hist
HeldAreBest == \A c \in hist \ Held, k \in Held : c.sharpe <= k.sharpe
FullOrComplete ==
  Cardinality(DOMAIN state.registry) = Research!MinOf(Capacity, Cardinality(hist))

ResearchInv ==
  /\ Research!ResearchConstants
  /\ ResearchTyped /\ IdsAreOld /\ IdsAreUnique
  /\ HeldAsFound /\ HeldAreBest /\ FullOrComplete

\* The instance counts as this module does.
LEMMA SameCardinality ==
  ASSUME NEW S
  PROVE  Research!Cardinality(S) = Cardinality(S)
BY DEF Research!Cardinality, Cardinality

\* The candidates held are as many as the entries of the registry.
LEMMA HeldByTheRegistry ==
  ASSUME ResearchTyped, IdsAreUnique, HeldAsFound
  PROVE  /\ IsFiniteSet(Held)
         /\ Cardinality(Held) = Cardinality(DOMAIN state.registry)
         /\ \A c \in Held : c.sharpe = state.registry[c.id]
<1> DEFINE entry == [k \in DOMAIN state.registry |-> [id |-> k, sharpe |-> state.registry[k]]]
<1>1. \A k \in DOMAIN state.registry : entry[k] \in Held
  BY DEF HeldAsFound, Held
<1>2. \A c \in Held : c.id \in DOMAIN state.registry /\ entry[c.id] = c
  <2> SUFFICES ASSUME NEW c \in Held PROVE c.id \in DOMAIN state.registry /\ entry[c.id] = c
    OBVIOUS
  <2>1. c.id \in DOMAIN state.registry /\ c \in hist /\ entry[c.id] \in hist /\ entry[c.id].id = c.id
    BY <1>1 DEF Held
  <2> QED
    BY <2>1 DEF IdsAreUnique
<1>3. \A j, k \in DOMAIN state.registry : entry[j] = entry[k] => j = k
  OBVIOUS
<1>4. ExistsBijection(DOMAIN state.registry, Held)
  <2>1. entry \in [DOMAIN state.registry -> Held]
    BY <1>1
  <2>2. entry \in Bijection(DOMAIN state.registry, Held)
    BY <1>2, <1>3, <2>1 DEF Bijection, Injection, IsInjective, Surjection
  <2> QED
    BY <2>2 DEF ExistsBijection
<1>5. IsFiniteSet(Held) /\ Cardinality(Held) = Cardinality(DOMAIN state.registry)
  BY <1>4, FS_Bijection DEF ResearchTyped
<1>6. ASSUME NEW c \in Held
      PROVE  c.sharpe = state.registry[c.id]
  <2>1. PICK k \in DOMAIN state.registry : k = c.id
    BY <1>2
  <2>2. c = [id |-> k, sharpe |-> state.registry[k]]
    BY <1>2, <2>1
  <2> QED
    BY <2>1, <2>2
<1> QED
  BY <1>5, <1>6

\* What the registry holds depends on nothing but the candidates and itself.
LEMMA RegistryUntouched ==
  ASSUME ResearchInv, state'.registry = state.registry, hist' = hist,
         ResearchTyped', IdsAreOld'
  PROVE  ResearchInv'
<1>1. Held' = Held
  BY DEF Held
<1>2. IdsAreUnique' /\ HeldAsFound' /\ FullOrComplete'
  BY DEF ResearchInv, IdsAreUnique, HeldAsFound, FullOrComplete
<1>3. HeldAreBest'
  BY <1>1 DEF ResearchInv, HeldAreBest
<1> QED
  BY <1>2, <1>3 DEF ResearchInv

\* A cycle starts, and its candidates get ids of their own.
LEMMA StartKeeps ==
  ASSUME ResearchInv, Research!StartCycle
  PROVE  ResearchInv'
<1>1. ResearchTyped /\ IdsAreOld /\ BatchSize \in Nat
  BY DEF ResearchInv, Research!ResearchConstants
<1>2. PICK ts : ts = [i \in 1..BatchSize |-> Research!Waiting]
  OBVIOUS
<1>3. /\ state' = [state EXCEPT !.cycle = state.cycle + 1, !.next = 1, !.tasks = ts]
      /\ hist' = hist
  BY <1>2 DEF Research!StartCycle
<1>4. ts \in Seq(Tasks)
  <2>1. Research!Waiting \in Tasks
    BY DEF Tasks
  <2> QED
    BY <1>1, <1>2, <2>1
<1>5. /\ DOMAIN state' = {"cycle", "tasks", "next", "registry"} /\ state'.cycle = state.cycle + 1
      /\ state'.next = 1 /\ state'.tasks = ts /\ state'.registry = state.registry
  BY <1>1, <1>3 DEF ResearchTyped
<1>6. ResearchTyped'
  BY <1>1, <1>3, <1>4, <1>5 DEF ResearchTyped
<1>7. IdsAreOld'
  <2> SUFFICES ASSUME NEW c \in hist PROVE c.id[1] < state.cycle + 1
    BY <1>3, <1>5 DEF IdsAreOld
  <2>1. c.id[1] \in Nat /\ state.cycle \in Nat
    BY <1>1 DEF ResearchTyped, Candidates
  <2>2. c.id[1] < state.cycle \/ c.id[1] = state.cycle
    BY <1>1 DEF IdsAreOld
  <2> QED
    BY <2>1, <2>2
<1> QED
  BY <1>3, <1>5, <1>6, <1>7, RegistryUntouched

\* A task runs or ends.
LEMMA TaskKeeps ==
  ASSUME ResearchInv, NEW i \in DOMAIN state.tasks, NEW t \in Tasks,
         state' = [state EXCEPT !.tasks[i] = t], hist' = hist
  PROVE  ResearchInv'
<1>1. ResearchTyped /\ IdsAreOld
  BY DEF ResearchInv
<1>2. /\ DOMAIN state' = {"cycle", "tasks", "next", "registry"} /\ state'.cycle = state.cycle
      /\ state'.next = state.next /\ state'.registry = state.registry
      /\ state'.tasks = [state.tasks EXCEPT ![i] = t]
  BY <1>1 DEF ResearchTyped
<1>3. state'.tasks \in Seq(Tasks)
  BY <1>1, <1>2 DEF ResearchTyped
<1>4. ResearchTyped' /\ IdsAreOld'
  BY <1>1, <1>2, <1>3 DEF ResearchTyped, IdsAreOld
<1> QED
  BY <1>2, <1>4, RegistryUntouched

\* A candidate that meets the criteria is offered to the registry.
LEMMA OfferKeeps ==
  ASSUME ResearchInv, NEW s \in Int, NEW c, c = [id |-> <<state.cycle, state.next>>, sharpe |-> s],
         NEW r, r \in Research!TryInsert(state.registry, c.id, s),
         state' = [state EXCEPT !.next = state.next + 1, !.registry = r], hist' = hist \cup {c}
  PROVE  ResearchInv'
<1> DEFINE reg == state.registry
<1>1. /\ ResearchTyped /\ IdsAreOld /\ IdsAreUnique /\ HeldAsFound /\ HeldAreBest /\ FullOrComplete
      /\ Capacity \in Nat
  BY DEF ResearchInv, Research!ResearchConstants
<1>2. /\ DOMAIN state' = {"cycle", "tasks", "next", "registry"} /\ state'.cycle = state.cycle
      /\ state'.next = state.next + 1 /\ state'.registry = r /\ state'.tasks = state.tasks
  BY <1>1 DEF ResearchTyped
<1>3. c \in Candidates /\ c.sharpe = s /\ \A d \in hist : d.id # c.id
  <2>1. c.id = <<state.cycle, state.next>> /\ c.sharpe = s /\ state.cycle \in Nat /\ state.next \in Nat
    BY <1>1 DEF ResearchTyped
  <2>2. c \in Candidates
    BY <2>1 DEF Candidates
  <2>3. ASSUME NEW d \in hist, d.id = c.id
        PROVE  FALSE
    <3>1. d.id[1] = state.cycle /\ d.id[2] = state.next
      BY <2>1, <2>3
    <3>2. d.id[1] < state.cycle \/ d.id[2] < state.next
      BY <1>1 DEF IdsAreOld
    <3> QED
      BY <2>1, <3>1, <3>2
  <2> QED
    BY <2>1, <2>2, <2>3
<1>4. /\ IsFiniteSet(hist') /\ Cardinality(hist') = Cardinality(hist) + 1
      /\ Cardinality(hist) \in Nat /\ IsFiniteSet(DOMAIN reg) /\ Cardinality(DOMAIN reg) \in Nat
  <2>1. IsFiniteSet(hist) /\ IsFiniteSet(DOMAIN reg) /\ c \notin hist
    BY <1>1, <1>3 DEF ResearchTyped
  <2> QED
    BY <2>1, FS_AddElement, FS_CardinalityType
<1>5. c.id \notin DOMAIN reg
  BY <1>1, <1>3 DEF HeldAsFound
<1>6. IdsAreUnique'
  BY <1>1, <1>3 DEF IdsAreUnique
<1>7. IdsAreOld'
  <2> SUFFICES ASSUME NEW d \in hist'
               PROVE  d.id[1] < state.cycle \/ (d.id[1] = state.cycle /\ d.id[2] < state.next + 1)
    BY <1>2 DEF IdsAreOld
  <2>1. state.next \in Nat
    BY <1>1 DEF ResearchTyped
  <2>2. CASE d \in hist
    <3>1. d.id[2] \in Nat
      BY <1>1, <2>2 DEF ResearchTyped, Candidates
    <3> QED
      BY <1>1, <2>1, <2>2, <3>1 DEF IdsAreOld
  <2>3. CASE d = c
    BY <2>1, <2>3
  <2> QED
    BY <2>2, <2>3
<1>8. /\ IsFiniteSet(Held) /\ Cardinality(Held) = Cardinality(DOMAIN reg)
      /\ \A d \in Held : d.sharpe = reg[d.id]
  BY <1>1, HeldByTheRegistry
<1>9. \A k \in DOMAIN reg : reg[k] \in Int
  BY <1>1 DEF HeldAsFound, ResearchTyped, Candidates
<1>10. SUFFICES /\ IsFiniteSet(DOMAIN r) /\ HeldAsFound' /\ HeldAreBest'
                /\ Cardinality(DOMAIN r) = Research!MinOf(Capacity, Cardinality(hist) + 1)
  <2>1. FullOrComplete'
    BY <1>2, <1>4 DEF FullOrComplete, Research!MinOf
  <2>2. ResearchTyped'
    <3>1. state.next + 1 \in Nat \ {0} /\ hist' \subseteq Candidates
      BY <1>1, <1>3 DEF ResearchTyped
    <3> QED
      BY <1>1, <1>2, <1>4, <3>1 DEF ResearchTyped
  <2> QED
    BY <1>6, <1>7, <2>1, <2>2 DEF ResearchInv
<1>11. CASE Cardinality(DOMAIN reg) < Capacity
  <2>1. r = Research!Insert(reg, c.id, s)
    BY <1>11, SameCardinality DEF Research!TryInsert
  <2>2. /\ DOMAIN r = DOMAIN reg \cup {c.id} /\ r[c.id] = s
        /\ \A k \in DOMAIN reg : r[k] = reg[k]
    BY <1>5, <2>1 DEF Research!Insert
  <2>3. IsFiniteSet(DOMAIN r) /\ Cardinality(DOMAIN r) = Cardinality(DOMAIN reg) + 1
    BY <1>4, <1>5, <2>2, FS_AddElement
  <2>4. Cardinality(hist) = Cardinality(DOMAIN reg)
    BY <1>1, <1>4, <1>11 DEF FullOrComplete, Research!MinOf
  <2>5. Held = hist
    <3>1. Held \in SUBSET hist /\ IsFiniteSet(hist)
      BY <1>1 DEF Held, ResearchTyped
    <3>2. Cardinality(Held) = Cardinality(hist)
      BY <1>8, <2>4
    <3> QED
      BY <3>1, <3>2, FS_Subset
  <2>6. HeldAsFound'
    <3> SUFFICES ASSUME NEW k \in DOMAIN r PROVE [id |-> k, sharpe |-> r[k]] \in hist'
      BY <1>2 DEF HeldAsFound
    <3>1. CASE k = c.id
      BY <2>2, <3>1
    <3>2. CASE k # c.id
      BY <1>1, <2>2, <3>2 DEF HeldAsFound
    <3> QED
      BY <3>1, <3>2
  <2>7. Held' = hist'
    BY <1>2, <2>2, <2>5 DEF Held
  <2>8. HeldAreBest'
    BY <2>7 DEF HeldAreBest
  <2>9. Cardinality(DOMAIN r) = Research!MinOf(Capacity, Cardinality(hist) + 1)
    BY <1>1, <1>4, <1>11, <2>3, <2>4 DEF Research!MinOf
  <2> QED
    BY <2>3, <2>6, <2>8, <2>9
<1>12. CASE ~(Cardinality(DOMAIN reg) < Capacity)
  <2>1. /\ Cardinality(DOMAIN reg) = Capacity
        /\ Research!MinOf(Capacity, Cardinality(hist) + 1) = Capacity
    BY <1>1, <1>4, <1>12 DEF FullOrComplete, Research!MinOf
  <2>2. CASE Research!Worst(reg, s) = {}
    <3>1. r = reg
      BY <1>12, <2>2, SameCardinality DEF Research!TryInsert
    <3>2. Held' = Held
      BY <1>2, <1>5, <3>1 DEF Held
    <3>3. HeldAsFound'
      BY <1>1, <1>2, <3>1 DEF HeldAsFound
    <3>4. \A k \in DOMAIN reg : s <= reg[k]
      <4>1. SUFFICES ASSUME NEW d \in DOMAIN reg, ~(s <= reg[d]) PROVE FALSE
        OBVIOUS
      <4>2. PICK k \in DOMAIN reg : \A j \in DOMAIN reg : reg[k] <= reg[j]
        BY <1>4, <1>9, HasLeast
      <4>3. reg[k] < s
        BY <1>9, <4>1, <4>2
      <4>4. k \in Research!Worst(reg, s)
        BY <4>2, <4>3 DEF Research!Worst
      <4> QED
        BY <2>2, <4>4
    <3>5. \A d \in Held : s <= d.sharpe
      BY <1>8, <3>4 DEF Held
    <3>6. HeldAreBest'
      BY <1>1, <1>3, <3>2, <3>5 DEF HeldAreBest
    <3> QED
      BY <1>4, <2>1, <3>1, <3>3, <3>6
  <2>3. CASE Research!Worst(reg, s) # {}
    <3>1. PICK k \in Research!Worst(reg, s) : r = Research!Insert(Research!RemoveAll(reg, {k}), c.id, s)
      BY <1>12, <2>3, SameCardinality DEF Research!TryInsert
    <3>2. k \in DOMAIN reg /\ reg[k] < s /\ \A j \in DOMAIN reg : reg[k] <= reg[j]
      BY <3>1 DEF Research!Worst
    <3>3. /\ DOMAIN r = (DOMAIN reg \ {k}) \cup {c.id} /\ r[c.id] = s
          /\ \A j \in DOMAIN reg \ {k} : r[j] = reg[j]
      BY <1>5, <3>1 DEF Research!Insert, Research!RemoveAll, Research!Restrict
    <3>4. IsFiniteSet(DOMAIN r) /\ Cardinality(DOMAIN r) = Capacity
      <4>1. /\ IsFiniteSet(DOMAIN reg \ {k})
            /\ Cardinality(DOMAIN reg \ {k}) = Cardinality(DOMAIN reg) - 1
        BY <1>4, <3>2, FS_RemoveElement
      <4>2. PICK rest : rest = DOMAIN reg \ {k}
        OBVIOUS
      <4>3. IsFiniteSet(rest) /\ c.id \notin rest /\ DOMAIN r = rest \cup {c.id}
        BY <1>5, <3>3, <4>1, <4>2
      <4>4. IsFiniteSet(DOMAIN r) /\ Cardinality(DOMAIN r) = Cardinality(rest) + 1
        BY <4>3, FS_AddElement
      <4> QED
        BY <1>4, <2>1, <4>1, <4>2, <4>4
    <3>5. HeldAsFound'
      <4> SUFFICES ASSUME NEW j \in DOMAIN r PROVE [id |-> j, sharpe |-> r[j]] \in hist'
        BY <1>2 DEF HeldAsFound
      <4>1. CASE j = c.id
        BY <3>3, <4>1
      <4>2. CASE j # c.id
        BY <1>1, <3>3, <4>2 DEF HeldAsFound
      <4> QED
        BY <4>1, <4>2
    <3>6. Held' = (Held \ {d \in Held : d.id = k}) \cup {c}
      BY <1>2, <1>3, <1>5, <3>3 DEF Held
    <3>7. HeldAreBest'
      <4> SUFFICES ASSUME NEW d \in hist' \ Held', NEW e \in Held'
                   PROVE  d.sharpe <= e.sharpe
        BY DEF HeldAreBest
      <4>1. \A x \in hist' : x.sharpe \in Int
        BY <1>1, <1>3 DEF ResearchTyped, Candidates
      <4>2. d \in hist /\ (d \notin Held \/ d.id = k)
        BY <3>6
      <4>3. PICK w \in Held : w.id = k /\ w.sharpe = reg[k]
        <5>1. [id |-> k, sharpe |-> reg[k]] \in Held
          BY <1>1, <3>2 DEF HeldAsFound, Held
        <5> QED
          BY <5>1
      <4>4. d.sharpe <= reg[k]
        <5>1. CASE d \notin Held
          BY <1>1, <4>2, <4>3, <5>1 DEF HeldAreBest
        <5>2. CASE d \in Held
          BY <1>8, <1>9, <3>2, <4>2, <5>2
        <5> QED
          BY <5>1, <5>2
      <4>5. reg[k] <= e.sharpe
        <5>1. CASE e = c
          BY <1>3, <1>9, <3>2, <5>1
        <5>2. CASE e # c
          <6>1. e \in Held /\ e.id \in DOMAIN reg
            BY <3>6, <5>2 DEF Held
          <6> QED
            BY <1>8, <3>2, <6>1
        <5> QED
          BY <5>1, <5>2
      <4>6. d.sharpe \in Int /\ e.sharpe \in Int /\ reg[k] \in Int
        BY <1>9, <3>2, <4>1 DEF Held
      <4> QED
        BY <4>4, <4>5, <4>6
    <3> QED
      BY <2>1, <3>4, <3>5, <3>7
  <2> QED
    BY <2>2, <2>3
<1> QED
  BY <1>11, <1>12

\* The engine takes a task's result in.
LEMMA CollectKeeps ==
  ASSUME ResearchInv, Research!Collect
  PROVE  ResearchInv'
<1>1. ResearchTyped /\ IdsAreOld /\ \A o \in Outcomes : o.sharpe \in Int
  BY DEF ResearchInv, Research!ResearchConstants
<1>2. PICK task : task = state.tasks[state.next]
  OBVIOUS
<1>3. PICK id : id = <<state.cycle, state.next>>
  OBVIOUS
<1>4. \/ state' = [state EXCEPT !.next = state.next + 1] /\ hist' = hist
      \/ /\ task.at = "done" /\ Research!MeetsPromotionCriteria(task.metrics)
         /\ \E r \in Research!TryInsert(state.registry, id, task.metrics.sharpe) :
              state' = [state EXCEPT !.next = state.next + 1, !.registry = r]
         /\ hist' = hist \cup {[id |-> id, sharpe |-> task.metrics.sharpe]}
  BY <1>2, <1>3, Zenon DEF Research!Collect
<1>5. ~Research!Idle
  BY Zenon DEF Research!Collect
<1>6. CASE state' = [state EXCEPT !.next = state.next + 1] /\ hist' = hist
  <2>1. /\ DOMAIN state' = {"cycle", "tasks", "next", "registry"} /\ state'.cycle = state.cycle
        /\ state'.next = state.next + 1 /\ state'.registry = state.registry
        /\ state'.tasks = state.tasks
    BY <1>1, <1>6 DEF ResearchTyped
  <2>2. ResearchTyped'
    BY <1>1, <1>6, <2>1 DEF ResearchTyped
  <2>3. IdsAreOld'
    <3> SUFFICES ASSUME NEW c \in hist
                 PROVE  c.id[1] < state.cycle \/ (c.id[1] = state.cycle /\ c.id[2] < state.next + 1)
      BY <1>6, <2>1 DEF IdsAreOld
    <3>1. state.next \in Nat /\ c.id[2] \in Nat
      BY <1>1 DEF ResearchTyped, Candidates
    <3> QED
      BY <1>1, <3>1 DEF IdsAreOld
  <2> QED
    BY <1>6, <2>1, <2>2, <2>3, RegistryUntouched
<1>7. CASE /\ task.at = "done"
           /\ \E r \in Research!TryInsert(state.registry, id, task.metrics.sharpe) :
                state' = [state EXCEPT !.next = state.next + 1, !.registry = r]
           /\ hist' = hist \cup {[id |-> id, sharpe |-> task.metrics.sharpe]}
  <2>1. task \in Tasks
    <3>1. state.next <= Len(state.tasks)
      <4>1. Research!Len(state.tasks) = Len(state.tasks)
        OBVIOUS
      <4> QED
        BY <1>1, <1>5, <4>1 DEF Research!Idle, ResearchTyped
    <3> QED
      BY <1>1, <1>2, <3>1 DEF ResearchTyped
  <2>2. task.metrics \in Outcomes
    BY <1>7, <2>1 DEF Tasks, Research!Waiting, Research!Running
  <2>3. PICK s \in Int : s = task.metrics.sharpe
    BY <1>1, <2>2
  <2>4. PICK c : c = [id |-> <<state.cycle, state.next>>, sharpe |-> s]
    OBVIOUS
  <2>5. PICK r \in Research!TryInsert(state.registry, id, s) :
          state' = [state EXCEPT !.next = state.next + 1, !.registry = r]
    BY <1>7, <2>3, Zenon
  <2>6. c.id = id /\ hist' = hist \cup {c}
    BY <1>3, <1>7, <2>3, <2>4
  <2> QED
    BY <2>4, <2>5, <2>6, OfferKeeps, Zenon
<1> QED
  BY <1>4, <1>6, <1>7, Zenon

ResearchPart == which = "research" => ResearchInv

\* The registry holds the best candidates that ever met the criteria, as many
\* as it has room for: for every capacity, batch size and degree of
\* parallelism, in whatever order tasks run, end and panic.
THEOREM RegistryHoldsTheBest == Spec => []RegistryKeepsTheBest
<1>1. Research!Init => ResearchInv
  <2> SUFFICES ASSUME Research!Init PROVE ResearchInv
    OBVIOUS
  <2>0. Research!ResearchConstants
    BY StandaloneConstants
  <2>1. /\ state = [cycle |-> 0, tasks |-> <<>>, next |-> 1, registry |-> Research!EmptyMap]
        /\ hist = {} /\ DOMAIN Research!EmptyMap = {} /\ Capacity \in Nat
    BY <2>0 DEF Research!Init, Research!EmptyMap, Research!ResearchConstants
  <2>2. IsFiniteSet({}) /\ Cardinality({}) = 0
    BY FS_EmptySet
  <2>3. ResearchTyped /\ IdsAreOld /\ IdsAreUnique /\ HeldAsFound /\ HeldAreBest
    BY <2>1, <2>2 DEF ResearchTyped, IdsAreOld, IdsAreUnique, HeldAsFound, HeldAreBest
  <2>4. FullOrComplete
    BY <2>1, <2>2 DEF FullOrComplete, Research!MinOf
  <2> QED
    BY <2>0, <2>3, <2>4 DEF ResearchInv
<1>2. ResearchInv /\ [Research!Next]_(Research!vars) => ResearchInv'
  <2> SUFFICES ASSUME ResearchInv, [Research!Next]_(Research!vars) PROVE ResearchInv'
    OBVIOUS
  <2>1. CASE UNCHANGED Research!vars
    <3>1. state' = state /\ hist' = hist
      BY <2>1 DEF Research!vars
    <3>2. ResearchTyped' /\ IdsAreOld'
      BY <3>1 DEF ResearchInv, ResearchTyped, IdsAreOld
    <3> QED
      BY <3>1, <3>2, RegistryUntouched
  <2>2. ASSUME NEW i, Research!Acquire(i) \/ Research!Finish(i)
        PROVE  ResearchInv'
    <3>1. i \in DOMAIN state.tasks /\ hist' = hist
      BY <2>2 DEF Research!Acquire, Research!Finish, Research!At
    <3>2. \E t \in Tasks : state' = [state EXCEPT !.tasks[i] = t]
      BY <2>2 DEF Research!Acquire, Research!Finish, Tasks
    <3> QED
      BY <3>1, <3>2, TaskKeeps
  <2> QED
    BY <2>1, <2>2, StartKeeps, CollectKeeps DEF Research!Next
<1>3. ResearchInv => Research!RegistryKeepsTheBest
  <2> SUFFICES ASSUME ResearchInv PROVE Research!RegistryKeepsTheBest
    OBVIOUS
  <2>1. ResearchTyped /\ IdsAreUnique /\ HeldAsFound /\ HeldAreBest /\ FullOrComplete
    BY DEF ResearchInv
  <2>2. Cardinality(Held) = Cardinality(DOMAIN state.registry)
    BY <2>1, HeldByTheRegistry
  <2>3. /\ Research!Cardinality(Held) = Cardinality(Held)
        /\ Research!Cardinality(hist) = Cardinality(hist)
        /\ Research!Cardinality(DOMAIN state.registry) = Cardinality(DOMAIN state.registry)
    BY SameCardinality
  <2>4. {c \in hist : c.id \in DOMAIN state.registry} = Held
    BY DEF Held
  <2> QED
    BY <2>1, <2>2, <2>3, <2>4 DEF Research!RegistryKeepsTheBest, HeldAreBest, FullOrComplete
<1>4. Init => ResearchPart
  BY <1>1 DEF Init, ResearchPart
<1>5. ResearchPart /\ [Next]_vars => ResearchPart'
  <2> SUFFICES ASSUME ResearchPart, [Next]_vars, which' = "research" PROVE ResearchInv'
    BY DEF ResearchPart
  <2>1. which = "research" /\ [Research!Next]_(Research!vars)
    BY DEF Next, vars, Research!vars
  <2> QED
    BY <1>2, <2>1 DEF ResearchPart
<1>6. ResearchPart => RegistryKeepsTheBest
  BY <1>3 DEF ResearchPart, RegistryKeepsTheBest
<1> QED
  BY <1>4, <1>5, <1>6, PTL DEF Spec

----------------------------------------------------------------------------
(***************************************************************************)
(* bayesian_edge_agent.  The entry of a market is rebuilt from the last    *)
(* event of each kind (FromHistory), so a signal judged on the entry is    *)
(* judged on what was heard last; the rest is arithmetic: what a boost, a  *)
(* damping and a sizing can and cannot do.                                 *)
(***************************************************************************)

EdgeEvents ==
  [kind : {"posterior", "price", "implied", "shock"}, market : Markets,
   what : Posteriors \cup Prices \cup Implied \cup Shocks, at : Nat]

Heard(k, m) == {i \in DOMAIN hist : hist[i].kind = k /\ hist[i].market = m}
Last(k, m) == hist[CHOOSE i \in Heard(k, m) : \A j \in Heard(k, m) : j <= i]

PosteriorHeard(m) ==
  IF Heard("posterior", m) = {} THEN <<>> ELSE <<Last("posterior", m).what.posterior>>
ConfidenceHeard(m) ==
  IF Heard("posterior", m) = {} THEN 0 ELSE Last("posterior", m).what.confidence
PriceHeard(m) == IF Heard("price", m) = {} THEN <<>> ELSE <<Last("price", m).what>>
ImpliedHeard(m) == IF Heard("implied", m) = {} THEN <<>> ELSE <<Last("implied", m).what>>
ShockHeard(m) ==
  IF Heard("shock", m) = {} THEN <<>>
  ELSE <<[magnitude |-> Edge!Clamp(Last("shock", m).what.magnitude, 0, Scale),
          at |-> Last("shock", m).at - Last("shock", m).what.age]>>

FromHistory(m) ==
  [posterior |-> PosteriorHeard(m), confidence |-> ConfidenceHeard(m), price |-> PriceHeard(m),
   implied |-> ImpliedHeard(m), shock |-> ShockHeard(m)]

HeardTyped ==
  \A i \in DOMAIN hist :
    /\ hist[i].kind = "posterior" => Edge!Valid(hist[i].what.posterior) /\ Edge!Valid(hist[i].what.confidence)
    /\ hist[i].kind \in {"price", "implied"} => Edge!Valid(hist[i].what)
    /\ hist[i].kind = "shock" => hist[i].what \in Shocks

HasLast(k, m) == Heard(k, m) # {} => \E i \in Heard(k, m) : IsLast(i, Heard(k, m))

Kinds == {"posterior", "price", "implied", "shock"}

OutIsJudged ==
  out = <<>> \/ \E m \in Markets : out = Edge!TrySignal(m, Edge!Entry(m), state.clock)

EdgeInv ==
  /\ Edge!EdgeConstants
  /\ DOMAIN state = {"beliefs", "clock"} /\ state.clock \in Nat
  /\ hist \in Seq(EdgeEvents) /\ HeardTyped
  /\ \A k \in Kinds, m \in Markets : HasLast(k, m)
  /\ \A m \in Markets : Edge!Entry(m) = FromHistory(m)
  /\ OutIsJudged

\* The greatest index, once there is one, is the one chosen.
LEMMA ChosenIsLast ==
  ASSUME NEW S, NEW i, i \in S, \A j \in S : j \in Int /\ j <= i
  PROVE  (CHOOSE x \in S : \A j \in S : j <= x) = i
<1>1. PICK c : c = (CHOOSE x \in S : \A j \in S : j <= x)
  OBVIOUS
<1>2. c \in S /\ \A j \in S : j <= c
  BY <1>1
<1> QED
  BY <1>1, <1>2

\* An event is the last of its kind for its market; nothing else changes.
LEMMA OneMoreHeard ==
  ASSUME EdgeInv, NEW x \in EdgeEvents, hist' = Append(hist, x), NEW k \in Kinds, NEW m \in Markets
  PROVE  /\ hist' \in Seq(EdgeEvents) /\ HasLast(k, m)'
         /\ x.kind = k /\ x.market = m => Heard(k, m)' # {} /\ Last(k, m)' = x
         /\ ~(x.kind = k /\ x.market = m) => /\ Heard(k, m)' = Heard(k, m)
                                             /\ Heard(k, m) # {} => Last(k, m)' = Last(k, m)
<1>1. PICK n : n = Len(hist) + 1
  OBVIOUS
<1>2. hist \in Seq(EdgeEvents)
  BY DEF EdgeInv
<1>3. /\ hist' \in Seq(EdgeEvents) /\ n \in Nat /\ hist'[n] = x /\ DOMAIN hist' = DOMAIN hist \cup {n}
      /\ \A i \in DOMAIN hist : hist'[i] = hist[i] /\ i \in Nat /\ i < n
  BY <1>1, <1>2
<1>4. PICK old : old = Heard(k, m)
  OBVIOUS
<1>5. PICK new : new = Heard(k, m)'
  OBVIOUS
<1>6. \A i \in old : i \in DOMAIN hist /\ i \in Nat /\ i < n
  BY <1>3, <1>4 DEF Heard
<1>7. CASE x.kind = k /\ x.market = m
  <2>1. new = old \cup {n}
    BY <1>3, <1>4, <1>5, <1>7 DEF Heard
  <2>2. n \in new /\ \A j \in new : j \in Int /\ j <= n
    BY <1>3, <1>6, <2>1
  <2>3. (CHOOSE i \in new : \A j \in new : j <= i) = n
    BY <2>2, ChosenIsLast
  <2>4. Last(k, m)' = x
    BY <1>3, <1>5, <2>3 DEF Last
  <2>5. HasLast(k, m)'
    BY <1>5, <2>2 DEF HasLast, IsLast
  <2> QED
    BY <1>3, <1>5, <1>7, <2>2, <2>4, <2>5
<1>8. CASE ~(x.kind = k /\ x.market = m)
  <2>1. new = old
    BY <1>3, <1>4, <1>5, <1>8 DEF Heard
  <2>2. HasLast(k, m)'
    BY <1>4, <1>5, <2>1 DEF EdgeInv, HasLast, IsLast
  <2>3. old # {} => Last(k, m)' = Last(k, m)
    <3> SUFFICES ASSUME old # {} PROVE Last(k, m)' = Last(k, m)
      OBVIOUS
    <3>1. PICK i \in old : \A j \in old : j <= i
      BY <1>4 DEF EdgeInv, HasLast, IsLast
    <3>2. (CHOOSE y \in old : \A j \in old : j <= y) = i
      BY <1>6, <3>1, ChosenIsLast
    <3>3. Last(k, m) = hist[i]
      BY <1>4, <3>2 DEF Last
    <3>4. Last(k, m)' = hist'[i]
      BY <1>5, <2>1, <3>2 DEF Last
    <3> QED
      BY <1>3, <1>6, <3>3, <3>4
  <2> QED
    BY <1>3, <1>4, <1>5, <1>8, <2>1, <2>2, <2>3
<1> QED
  BY <1>7, <1>8

\* After an event about m its fields are those of the event, and the fields
\* of other kinds, and of other markets, are what they were.
LEMMA FieldsHeard ==
  ASSUME EdgeInv, NEW x \in EdgeEvents, hist' = Append(hist, x), NEW m \in Markets
  PROVE  /\ IF x.kind = "posterior" /\ x.market = m
            THEN PosteriorHeard(m)' = <<x.what.posterior>> /\ ConfidenceHeard(m)' = x.what.confidence
            ELSE PosteriorHeard(m)' = PosteriorHeard(m) /\ ConfidenceHeard(m)' = ConfidenceHeard(m)
         /\ IF x.kind = "price" /\ x.market = m
            THEN PriceHeard(m)' = <<x.what>> ELSE PriceHeard(m)' = PriceHeard(m)
         /\ IF x.kind = "implied" /\ x.market = m
            THEN ImpliedHeard(m)' = <<x.what>> ELSE ImpliedHeard(m)' = ImpliedHeard(m)
         /\ IF x.kind = "shock" /\ x.market = m
            THEN ShockHeard(m)' = <<[magnitude |-> Edge!Clamp(x.what.magnitude, 0, Scale),
                                     at |-> x.at - x.what.age]>>
            ELSE ShockHeard(m)' = ShockHeard(m)
<1>1. ASSUME NEW k \in Kinds
      PROVE  /\ x.kind = k /\ x.market = m => Heard(k, m)' # {} /\ Last(k, m)' = x
             /\ ~(x.kind = k /\ x.market = m) => /\ Heard(k, m)' = Heard(k, m)
                                                 /\ Heard(k, m) # {} => Last(k, m)' = Last(k, m)
  BY OneMoreHeard
<1>2. IF x.kind = "posterior" /\ x.market = m
      THEN PosteriorHeard(m)' = <<x.what.posterior>> /\ ConfidenceHeard(m)' = x.what.confidence
      ELSE PosteriorHeard(m)' = PosteriorHeard(m) /\ ConfidenceHeard(m)' = ConfidenceHeard(m)
  <2>1. "posterior" \in Kinds
    BY DEF Kinds
  <2> QED
    BY <1>1, <2>1 DEF PosteriorHeard, ConfidenceHeard
<1>3. IF x.kind = "price" /\ x.market = m
      THEN PriceHeard(m)' = <<x.what>> ELSE PriceHeard(m)' = PriceHeard(m)
  <2>1. "price" \in Kinds
    BY DEF Kinds
  <2> QED
    BY <1>1, <2>1 DEF PriceHeard
<1>4. IF x.kind = "implied" /\ x.market = m
      THEN ImpliedHeard(m)' = <<x.what>> ELSE ImpliedHeard(m)' = ImpliedHeard(m)
  <2>1. "implied" \in Kinds
    BY DEF Kinds
  <2> QED
    BY <1>1, <2>1 DEF ImpliedHeard
<1>5. IF x.kind = "shock" /\ x.market = m
      THEN ShockHeard(m)' = <<[magnitude |-> Edge!Clamp(x.what.magnitude, 0, Scale),
                               at |-> x.at - x.what.age]>>
      ELSE ShockHeard(m)' = ShockHeard(m)
  <2>1. "shock" \in Kinds
    BY DEF Kinds
  <2> QED
    BY <1>1, <2>1 DEF ShockHeard
<1> QED
  BY <1>2, <1>3, <1>4, <1>5

\* An event whose fields are put into the entry of its market keeps the books.
LEMMA EntryKeeps ==
  ASSUME EdgeInv, NEW x \in EdgeEvents, hist' = Append(hist, x),
         NEW e, state' = [state EXCEPT !.beliefs = Edge!Insert(state.beliefs, x.market, e)],
         x.kind = "posterior" => Edge!Valid(x.what.posterior) /\ Edge!Valid(x.what.confidence),
         x.kind \in {"price", "implied"} => Edge!Valid(x.what),
         x.kind = "shock" => x.what \in Shocks,
         e = FromHistory(x.market)',
         out' = <<>> \/ out' = Edge!TrySignal(x.market, e, state.clock)
  PROVE  EdgeInv'
<1>1. /\ DOMAIN state = {"beliefs", "clock"} /\ state.clock \in Nat
      /\ hist \in Seq(EdgeEvents) /\ HeardTyped
      /\ \A m \in Markets : Edge!Entry(m) = FromHistory(m)
  BY DEF EdgeInv
<1>2. /\ DOMAIN state' = {"beliefs", "clock"} /\ state'.clock = state.clock
      /\ state'.beliefs = Edge!Insert(state.beliefs, x.market, e)
  BY <1>1
<1>3. x.market \in Markets /\ x.kind \in Kinds
  BY DEF EdgeEvents, Kinds
<1>4. /\ x.market \in DOMAIN state'.beliefs /\ state'.beliefs[x.market] = e
      /\ \A m : m # x.market => /\ m \in DOMAIN state'.beliefs <=> m \in DOMAIN state.beliefs
                                /\ m \in DOMAIN state.beliefs => state'.beliefs[m] = state.beliefs[m]
  BY <1>2 DEF Edge!Insert
<1>5. Edge!Entry(x.market)' = e
  BY <1>4 DEF Edge!Entry, Edge!GetOr
<1>6. ASSUME NEW m \in Markets
      PROVE  Edge!Entry(m)' = FromHistory(m)'
  <2>1. CASE m = x.market
    BY <1>5, <2>1
  <2>2. CASE m # x.market
    <3>1. Edge!Entry(m)' = Edge!Entry(m)
      BY <1>4, <2>2 DEF Edge!Entry, Edge!GetOr
    <3>2. FromHistory(m)' = FromHistory(m)
      <4>1. /\ PosteriorHeard(m)' = PosteriorHeard(m) /\ ConfidenceHeard(m)' = ConfidenceHeard(m)
            /\ PriceHeard(m)' = PriceHeard(m) /\ ImpliedHeard(m)' = ImpliedHeard(m)
            /\ ShockHeard(m)' = ShockHeard(m)
        BY <2>2, FieldsHeard
      <4> QED
        BY <4>1 DEF FromHistory
    <3> QED
      BY <1>1, <3>1, <3>2
  <2> QED
    BY <2>1, <2>2
<1>7. hist' \in Seq(EdgeEvents) /\ \A k \in Kinds, m \in Markets : HasLast(k, m)'
  BY <1>3, OneMoreHeard
<1>8. HeardTyped'
  <2>1. PICK n : n = Len(hist) + 1
    OBVIOUS
  <2>2. /\ hist'[n] = x /\ DOMAIN hist' = DOMAIN hist \cup {n}
        /\ \A i \in DOMAIN hist : hist'[i] = hist[i]
    BY <1>1, <2>1
  <2> QED
    BY <1>1, <2>2 DEF HeardTyped, Edge!Valid
<1>9. OutIsJudged'
  <2>1. out' = <<>> \/ out' = Edge!TrySignal(x.market, Edge!Entry(x.market)', state'.clock)
    BY <1>2, <1>5
  <2> QED
    BY <1>3, <2>1 DEF OutIsJudged
<1>10. Edge!EdgeConstants
  BY DEF EdgeInv
<1> QED
  BY <1>1, <1>2, <1>6, <1>7, <1>8, <1>9, <1>10 DEF EdgeInv

\* A belief, a price, a node of the graph or a shock is put into the entry.
LEMMA EventKeeps ==
  ASSUME EdgeInv, NEW m \in Markets,
         \/ \E u \in Posteriors : Edge!OnPosteriorUpdate(m, u)
         \/ \E p \in Prices : Edge!OnMarketUpdate(m, p)
         \/ \E i \in Implied : Edge!OnGraphUpdate(m, i)
         \/ \E s \in Shocks : Edge!OnShock(m, s)
  PROVE  EdgeInv'
<1>1. PICK old : old = Edge!Entry(m)
  OBVIOUS
<1>2. /\ state.clock \in Nat
      /\ old = [posterior |-> PosteriorHeard(m), confidence |-> ConfidenceHeard(m),
                price |-> PriceHeard(m), implied |-> ImpliedHeard(m), shock |-> ShockHeard(m)]
  BY <1>1 DEF EdgeInv, FromHistory
<1>3. CASE \E u \in Posteriors : Edge!OnPosteriorUpdate(m, u)
  <2>1. PICK u \in Posteriors : Edge!OnPosteriorUpdate(m, u)
    BY <1>3
  <2>2. PICK e : e = [old EXCEPT !.posterior = <<u.posterior>>, !.confidence = u.confidence]
    OBVIOUS
  <2>3. PICK x : x = [kind |-> "posterior", market |-> m, what |-> u, at |-> state.clock]
    OBVIOUS
  <2>4. /\ hist' = Append(hist, x) /\ Edge!Valid(u.posterior) /\ Edge!Valid(u.confidence)
        /\ state' = [state EXCEPT !.beliefs = Edge!Insert(state.beliefs, m, e)]
        /\ out' = Edge!TrySignal(m, e, state.clock)
    <3>1. hist' = Append(hist, x) /\ Edge!Valid(u.posterior) /\ Edge!Valid(u.confidence)
      BY <2>1, <2>3, Zenon DEF Edge!OnPosteriorUpdate, Edge!Heard
    <3>2. Edge!Judge(m, e)
      BY <1>1, <2>1, <2>2, Zenon DEF Edge!OnPosteriorUpdate
    <3> QED
      BY <3>1, <3>2 DEF Edge!Judge
  <2>5. x \in EdgeEvents /\ x.kind = "posterior" /\ x.market = m /\ x.what = u
    BY <1>2, <2>3 DEF EdgeEvents
  <2>6. e = FromHistory(m)'
    <3>1. /\ PosteriorHeard(m)' = <<u.posterior>> /\ ConfidenceHeard(m)' = u.confidence
          /\ PriceHeard(m)' = PriceHeard(m) /\ ImpliedHeard(m)' = ImpliedHeard(m)
          /\ ShockHeard(m)' = ShockHeard(m)
      BY <2>4, <2>5, FieldsHeard
    <3> QED
      BY <1>2, <2>2, <3>1 DEF FromHistory
  <2> QED
    BY <2>4, <2>5, <2>6, EntryKeeps
<1>4. CASE \E p \in Prices : Edge!OnMarketUpdate(m, p)
  <2>1. PICK p \in Prices : Edge!OnMarketUpdate(m, p)
    BY <1>4
  <2>2. PICK e : e = [old EXCEPT !.price = <<p>>]
    OBVIOUS
  <2>3. PICK x : x = [kind |-> "price", market |-> m, what |-> p, at |-> state.clock]
    OBVIOUS
  <2>4. /\ hist' = Append(hist, x) /\ Edge!Valid(p)
        /\ state' = [state EXCEPT !.beliefs = Edge!Insert(state.beliefs, m, e)]
        /\ out' = Edge!TrySignal(m, e, state.clock)
    BY <1>1, <2>1, <2>2, <2>3 DEF Edge!OnMarketUpdate, Edge!Heard, Edge!Judge
  <2>5. x \in EdgeEvents /\ x.kind = "price" /\ x.market = m /\ x.what = p
    BY <1>2, <2>3 DEF EdgeEvents
  <2>6. e = FromHistory(m)'
    <3>1. /\ PosteriorHeard(m)' = PosteriorHeard(m) /\ ConfidenceHeard(m)' = ConfidenceHeard(m)
          /\ PriceHeard(m)' = <<p>> /\ ImpliedHeard(m)' = ImpliedHeard(m)
          /\ ShockHeard(m)' = ShockHeard(m)
      BY <2>4, <2>5, FieldsHeard
    <3> QED
      BY <1>2, <2>2, <3>1 DEF FromHistory
  <2> QED
    BY <2>4, <2>5, <2>6, EntryKeeps
<1>5. CASE \E i \in Implied : Edge!OnGraphUpdate(m, i)
  <2>1. PICK i \in Implied : Edge!OnGraphUpdate(m, i)
    BY <1>5
  <2>2. PICK e : e = [old EXCEPT !.implied = <<i>>]
    OBVIOUS
  <2>3. PICK x : x = [kind |-> "implied", market |-> m, what |-> i, at |-> state.clock]
    OBVIOUS
  <2>4. /\ hist' = Append(hist, x) /\ Edge!Valid(i)
        /\ state' = [state EXCEPT !.beliefs = Edge!Insert(state.beliefs, m, e)]
        /\ out' = <<>>
    BY <1>1, <2>1, <2>2, <2>3 DEF Edge!OnGraphUpdate, Edge!Heard
  <2>5. x \in EdgeEvents /\ x.kind = "implied" /\ x.market = m /\ x.what = i
    BY <1>2, <2>3 DEF EdgeEvents
  <2>6. e = FromHistory(m)'
    <3>1. /\ PosteriorHeard(m)' = PosteriorHeard(m) /\ ConfidenceHeard(m)' = ConfidenceHeard(m)
          /\ PriceHeard(m)' = PriceHeard(m) /\ ImpliedHeard(m)' = <<i>>
          /\ ShockHeard(m)' = ShockHeard(m)
      BY <2>4, <2>5, FieldsHeard
    <3> QED
      BY <1>2, <2>2, <3>1 DEF FromHistory
  <2> QED
    BY <2>4, <2>5, <2>6, EntryKeeps
<1>6. CASE \E s \in Shocks : Edge!OnShock(m, s)
  <2>1. PICK s \in Shocks : Edge!OnShock(m, s)
    BY <1>6
  <2>2. PICK shock : shock = [magnitude |-> Edge!Clamp(s.magnitude, 0, Scale), at |-> state.clock - s.age]
    OBVIOUS
  <2>3. PICK e : e = [old EXCEPT !.shock = <<shock>>]
    OBVIOUS
  <2>4. PICK x : x = [kind |-> "shock", market |-> m, what |-> s, at |-> state.clock]
    OBVIOUS
  <2>5. /\ hist' = Append(hist, x)
        /\ state' = [state EXCEPT !.beliefs = Edge!Insert(state.beliefs, m, e)]
        /\ out' = <<>>
    BY <1>1, <2>1, <2>2, <2>3, <2>4 DEF Edge!OnShock, Edge!Heard
  <2>6. x \in EdgeEvents /\ x.kind = "shock" /\ x.market = m /\ x.what = s /\ x.at = state.clock
    BY <1>2, <2>4 DEF EdgeEvents
  <2>7. e = FromHistory(m)'
    <3>1. /\ PosteriorHeard(m)' = PosteriorHeard(m) /\ ConfidenceHeard(m)' = ConfidenceHeard(m)
          /\ PriceHeard(m)' = PriceHeard(m) /\ ImpliedHeard(m)' = ImpliedHeard(m)
          /\ ShockHeard(m)' = <<shock>>
      BY <2>2, <2>5, <2>6, FieldsHeard
    <3> QED
      BY <1>2, <2>3, <3>1 DEF FromHistory
  <2> QED
    BY <2>5, <2>6, <2>7, EntryKeeps
<1> QED
  BY <1>3, <1>4, <1>5, <1>6

\* A boost does not lower a confidence.
LEMMA BoostRaises ==
  ASSUME NEW c \in Nat, NEW one \in Nat \ {0}, NEW x \in Nat
  PROVE  (c * (one + x)) \div one \in Int /\ (c * (one + x)) \div one >= c
<1>1. PICK a \in Int : a = c * (one + x)
  OBVIOUS
<1>2. PICK p \in Nat : p = c * x
  OBVIOUS
<1>3. a = one * c + p
  BY <1>1, <1>2
<1>4. PICK q \in Int : q = a \div one
  OBVIOUS
<1>5. one * q <= a /\ a < one * q + one
  BY <1>4
<1>6. q >= c
  <2> SUFFICES ASSUME q + 1 <= c PROVE FALSE
    OBVIOUS
  <2>1. PICK d \in Nat : c = q + 1 + d
    <3>1. c - q - 1 \in Nat /\ c = q + 1 + (c - q - 1)
      OBVIOUS
    <3> QED
      BY <3>1
  <2>2. one * c = one * q + one + one * d
    BY <2>1
  <2>3. one * d \in Nat /\ one * c \in Int /\ one * q \in Int
    OBVIOUS
  <2> QED
    BY <1>3, <1>5, <2>2, <2>3
<1> QED
  BY <1>1, <1>4, <1>6

\* A damped belief lies between the belief and what it is damped towards.
LEMMA DampingIsBetween ==
  ASSUME NEW d \in Nat, NEW n \in 0..d, NEW p \in Int, NEW i \in Int
  PROVE  /\ (d - n) * p + n * i \in Int
         /\ d * Edge!MinOf(p, i) <= (d - n) * p + n * i
         /\ (d - n) * p + n * i <= d * Edge!MaxOf(p, i)
<1>1. PICK m \in Nat : m = d - n
  OBVIOUS
<1>2. d = m + n
  BY <1>1
<1>3. CASE p <= i
  <2>1. PICK u \in Nat : u = i - p
    BY <1>3
  <2>2. m * u \in Nat /\ n * u \in Nat /\ m * p \in Int /\ n * p \in Int
    OBVIOUS
  <2>3. i = p + u /\ n * i = n * p + n * u /\ d * p = m * p + n * p /\ d * i = d * p + m * u + n * u
    BY <1>2, <2>1
  <2>4. Edge!MinOf(p, i) = p /\ Edge!MaxOf(p, i) = i
    BY <1>3 DEF Edge!MinOf, Edge!MaxOf
  <2> QED
    BY <1>1, <2>2, <2>3, <2>4
<1>4. CASE i < p
  <2>1. PICK u \in Nat : u = p - i
    BY <1>4
  <2>2. m * u \in Nat /\ n * u \in Nat /\ m * i \in Int /\ n * i \in Int
    OBVIOUS
  <2>3. p = i + u /\ m * p = m * i + m * u /\ d * i = m * i + n * i /\ d * p = d * i + m * u + n * u
    BY <1>2, <2>1
  <2>4. Edge!MinOf(p, i) = i /\ Edge!MaxOf(p, i) = p
    BY <1>4 DEF Edge!MinOf, Edge!MaxOf
  <2> QED
    BY <1>1, <2>2, <2>3, <2>4
<1> QED
  BY <1>3, <1>4

\* A sized signal is at most the cap, and something if the cap allows it.
LEMMA SizedWithinCap ==
  ASSUME NEW gain \in Int, gain > 0, NEW room \in Int, room > 0, NEW den \in Nat \ {0},
         NEW unit \in Nat, NEW cap \in Nat
  PROVE  Edge!Sized(gain, room, den, unit, cap) \in Edge!MinOf(1, cap)..cap
<1>1. PICK b \in Int : b = room * den
  OBVIOUS
<1>2. b > 0
  BY <1>1
<1>3. PICK a \in Int : a = gain * unit
  OBVIOUS
<1>4. PICK q \in Int : q = a \div b
  BY <1>2
<1>5. Edge!Sized(gain, room, den, unit, cap) = Edge!MinOf(cap, Edge!MaxOf(1, q))
  BY <1>1, <1>3, <1>4 DEF Edge!Sized
<1> QED
  BY <1>5 DEF Edge!MinOf, Edge!MaxOf

\* What has been heard of a market is what its last events of each kind say.
LEMMA HeardWithinBounds ==
  ASSUME EdgeInv, NEW m \in Markets
  PROVE  /\ Heard("posterior", m) # {} => /\ Edge!Valid(Last("posterior", m).what.posterior)
                                          /\ Edge!Valid(Last("posterior", m).what.confidence)
         /\ Heard("price", m) # {} => Edge!Valid(Last("price", m).what)
         /\ Heard("implied", m) # {} => Edge!Valid(Last("implied", m).what)
         /\ Heard("shock", m) # {} => Last("shock", m).what \in Shocks /\ Last("shock", m).at \in Nat
<1>1. ASSUME NEW k \in Kinds, Heard(k, m) # {}
      PROVE  \E i \in DOMAIN hist : Last(k, m) = hist[i] /\ hist[i].kind = k /\ hist[i] \in EdgeEvents
  <2>1. PICK i \in Heard(k, m) : \A j \in Heard(k, m) : j <= i
    BY <1>1 DEF EdgeInv, HasLast, IsLast
  <2>2. \A j \in Heard(k, m) : j \in Int
    BY DEF EdgeInv, Heard
  <2>3. (CHOOSE x \in Heard(k, m) : \A j \in Heard(k, m) : j <= x) = i
    BY <2>1, <2>2, ChosenIsLast
  <2>4. Last(k, m) = hist[i]
    BY <2>3 DEF Last
  <2>5. i \in DOMAIN hist /\ hist[i].kind = k
    BY DEF Heard
  <2>6. hist[i] \in EdgeEvents
    BY <2>5 DEF EdgeInv
  <2> QED
    BY <2>4, <2>5, <2>6
<1>2. "posterior" \in Kinds /\ "price" \in Kinds /\ "implied" \in Kinds /\ "shock" \in Kinds
  BY DEF Kinds
<1>3. HeardTyped
  BY DEF EdgeInv
<1>4. Heard("posterior", m) # {} => /\ Edge!Valid(Last("posterior", m).what.posterior)
                                    /\ Edge!Valid(Last("posterior", m).what.confidence)
  BY <1>1, <1>2, <1>3 DEF HeardTyped
<1>5. Heard("price", m) # {} => Edge!Valid(Last("price", m).what)
  BY <1>1, <1>2, <1>3 DEF HeardTyped
<1>6. Heard("implied", m) # {} => Edge!Valid(Last("implied", m).what)
  BY <1>1, <1>2, <1>3 DEF HeardTyped
<1>7. Heard("shock", m) # {} => Last("shock", m).what \in Shocks /\ Last("shock", m).at \in Nat
  BY <1>1, <1>2, <1>3 DEF HeardTyped, EdgeEvents
<1> QED
  BY <1>4, <1>5, <1>6, <1>7

\* A confidence is the belief's own without a fresh shock, and never less.
LEMMA ConfidenceIsBoosted ==
  ASSUME Edge!EdgeConstants, NEW e, e.confidence \in 0..Scale, NEW now \in Int,
         e.shock # <<>> => e.shock[1].magnitude \in Nat /\ e.shock[1].at \in Int
  PROVE  /\ Edge!Confidence(e, now) \in 0..Scale
         /\ IF e.shock # <<>> /\ Edge!Magnitude(now - e.shock[1].at) <= Freshness
            THEN Edge!Confidence(e, now) >= e.confidence
            ELSE Edge!Confidence(e, now) = e.confidence
<1>1. Scale \in Nat \ {0} /\ EdgeBoost \in Nat /\ Freshness \in Nat
  BY DEF Edge!EdgeConstants
<1>2. CASE e.shock = <<>>
  BY <1>1, <1>2 DEF Edge!Confidence
<1>3. CASE e.shock # <<>>
  <2>1. PICK g \in Nat : g = e.shock[1].magnitude
    BY <1>3
  <2>2. PICK c \in Nat : c = e.confidence /\ c <= Scale
    BY <1>1
  <2>3. PICK x \in Nat : x = EdgeBoost * g
    BY <1>1
  <2>4. PICK b \in Int : b = (c * (Scale + x)) \div Scale /\ b >= c
    BY <1>1, BoostRaises
  <2>5. Edge!Clamp(b, 0, Scale) \in 0..Scale /\ Edge!Clamp(b, 0, Scale) >= c
    BY <1>1, <2>2, <2>4 DEF Edge!Clamp, Edge!MinOf, Edge!MaxOf
  <2>6. Edge!Confidence(e, now) = IF Edge!Magnitude(now - e.shock[1].at) > Freshness THEN c
                                  ELSE Edge!Clamp(b, 0, Scale)
    BY <1>3, <2>1, <2>2, <2>3, <2>4 DEF Edge!Confidence
  <2>7. Edge!Magnitude(now - e.shock[1].at) \in Int
    <3>1. PICK a \in Int : a = e.shock[1].at
      BY <1>3
    <3>2. now - a \in Int
      OBVIOUS
    <3> QED
      BY <3>1, <3>2 DEF Edge!Magnitude
  <2> QED
    BY <1>1, <1>3, <2>2, <2>5, <2>6, <2>7
<1> QED
  BY <1>2, <1>3

\* What is published on an entry of the books is what the property says.
LEMMA JudgedRight ==
  ASSUME EdgeInv
  PROVE  Edge!BoostedByFreshShockOnly
<1> SUFFICES ASSUME NEW k \in DOMAIN out
             PROVE  LET sig == out[k]
                        belief == Last("posterior", sig.market).what
                        shock == Last("shock", sig.market)
                        fresh == /\ Heard("shock", sig.market) # {}
                                 /\ Edge!Magnitude(state.clock - (shock.at - shock.what.age)) <= Freshness
                        towards == IF Heard("implied", sig.market) = {} THEN belief.posterior
                                   ELSE Last("implied", sig.market).what
                        gain == IF sig.dir = "Buy" THEN sig.posterior - DampDen * sig.price
                                ELSE DampDen * sig.price - sig.posterior
                    IN /\ Heard("posterior", sig.market) # {} /\ Heard("price", sig.market) # {}
                       /\ sig.price = Last("price", sig.market).what
                       /\ IF fresh THEN sig.confidence >= belief.confidence
                          ELSE sig.confidence = belief.confidence
                       /\ sig.confidence \in MinConfidence..Scale
                       /\ DampDen * Edge!MinOf(belief.posterior, towards) <= sig.posterior
                       /\ sig.posterior <= DampDen * Edge!MaxOf(belief.posterior, towards)
                       /\ gain >= DampDen * (Cost + MinEv) /\ gain > DampDen * Cost
                       /\ sig.size \in Edge!MinOf(1, Cap)..Cap
  BY DEF Edge!BoostedByFreshShockOnly, Heard, Last
<1>1. PICK m \in Markets : out = Edge!TrySignal(m, Edge!Entry(m), state.clock)
  BY DEF EdgeInv, OutIsJudged
<1>2. PICK e : e = FromHistory(m)
  OBVIOUS
<1>3. Edge!Entry(m) = e /\ Edge!EdgeConstants /\ state.clock \in Nat
  BY <1>2 DEF EdgeInv
<1>4. out # <<>>
  OBVIOUS
<1> DEFINE price == e.price[1]
           adjusted == Edge!Damped(e)
           deviation == adjusted - DampDen * price
           dir == IF deviation > 0 THEN "Buy" ELSE "Sell"
           room == Edge!Room(dir, price, Scale)
           size == Edge!Sized(Edge!Magnitude(deviation), DampDen * room, KellyDen, Unit, Cap)
<1>5. /\ e.posterior # <<>> /\ e.price # <<>>
      /\ Edge!Confidence(e, state.clock) >= MinConfidence
      /\ deviation # 0 /\ Edge!Magnitude(deviation) - DampDen * Cost > 0
      /\ Edge!Magnitude(deviation) - DampDen * Cost >= DampDen * MinEv
      /\ room > 0
      /\ out = <<[market |-> m, dir |-> dir, price |-> price, posterior |-> adjusted,
                  confidence |-> Edge!Confidence(e, state.clock), size |-> size]>>
  <2>1. out = Edge!TrySignal(m, e, state.clock)
    BY <1>1, <1>3
  <2> QED
    BY <1>4, <2>1, Zenon DEF Edge!TrySignal
<1>6. /\ out[k].market = m /\ out[k].dir = dir /\ out[k].price = price /\ out[k].posterior = adjusted
      /\ out[k].confidence = Edge!Confidence(e, state.clock) /\ out[k].size = size
  <2> HIDE DEF price, adjusted, dir, size
  <2> QED
    BY <1>5
<1>7. /\ e.posterior = PosteriorHeard(m) /\ e.confidence = ConfidenceHeard(m) /\ e.price = PriceHeard(m)
      /\ e.implied = ImpliedHeard(m) /\ e.shock = ShockHeard(m)
  BY <1>2 DEF FromHistory
<1>8. Heard("posterior", m) # {} /\ Heard("price", m) # {}
  BY <1>5, <1>7 DEF PosteriorHeard, PriceHeard
<1>9. /\ e.posterior[1] = Last("posterior", m).what.posterior
      /\ e.confidence = Last("posterior", m).what.confidence
      /\ price = Last("price", m).what
  BY <1>7, <1>8 DEF PosteriorHeard, ConfidenceHeard, PriceHeard
<1>10. e.posterior[1] \in 0..Scale /\ e.confidence \in 0..Scale /\ price \in 0..Scale
  <2> HIDE DEF price
  <2> QED
    BY <1>8, <1>9, HeardWithinBounds DEF Edge!Valid
<1> HIDE DEF price, adjusted, dir, size, room
<1>11. /\ IF /\ Heard("shock", m) # {}
             /\ Edge!Magnitude(state.clock - (Last("shock", m).at - Last("shock", m).what.age)) <= Freshness
          THEN Edge!Confidence(e, state.clock) >= e.confidence
          ELSE Edge!Confidence(e, state.clock) = e.confidence
       /\ Edge!Confidence(e, state.clock) \in 0..Scale
  <2>1. CASE Heard("shock", m) = {}
    <3>1. e.shock = <<>>
      BY <1>7, <2>1 DEF ShockHeard
    <3> QED
      BY <1>3, <1>10, <2>1, <3>1, ConfidenceIsBoosted, SMTT(40)
  <2>2. CASE Heard("shock", m) # {}
    <3>1. Last("shock", m).what \in Shocks /\ Last("shock", m).at \in Nat
      BY <2>2, HeardWithinBounds
    <3>2. Last("shock", m).what.magnitude \in Int /\ Last("shock", m).what.age \in Int /\ Scale \in Nat
      BY <1>3, <3>1 DEF Edge!EdgeConstants
    <3>3. /\ e.shock # <<>> /\ e.shock[1].at = Last("shock", m).at - Last("shock", m).what.age
          /\ e.shock[1].magnitude = Edge!Clamp(Last("shock", m).what.magnitude, 0, Scale)
      BY <1>7, <2>2 DEF ShockHeard
    <3>4. e.shock[1].magnitude \in Nat /\ e.shock[1].at \in Int
      BY <3>1, <3>2, <3>3 DEF Edge!Clamp, Edge!MinOf, Edge!MaxOf
    <3>5. PICK now \in Int : now = state.clock
      BY <1>3
    <3>6. IF e.shock # <<>> /\ Edge!Magnitude(now - e.shock[1].at) <= Freshness
          THEN Edge!Confidence(e, now) >= e.confidence
          ELSE Edge!Confidence(e, now) = e.confidence
      BY <1>3, <1>10, <3>4, ConfidenceIsBoosted
    <3>7. Edge!Confidence(e, now) \in 0..Scale
      BY <1>3, <1>10, <3>4, ConfidenceIsBoosted
    <3> QED
      BY <2>2, <3>3, <3>5, <3>6, <3>7
  <2> QED
    BY <2>1, <2>2
<1> DEFINE belief == e.posterior[1]
           towards == IF Heard("implied", m) = {} THEN belief ELSE Last("implied", m).what
<1>12. /\ adjusted \in Int /\ DampDen * Edge!MinOf(belief, towards) <= adjusted
       /\ adjusted <= DampDen * Edge!MaxOf(belief, towards)
  <2>0. DampDen \in Nat \ {0} /\ DampNum \in 0..DampDen /\ Scale \in Nat
    BY <1>3 DEF Edge!EdgeConstants
  <2>1. CASE Heard("implied", m) = {}
    <3>1. e.implied = <<>> /\ towards = belief
      BY <1>7, <2>1 DEF ImpliedHeard
    <3>2. adjusted = DampDen * belief
      BY <3>1 DEF adjusted, Edge!Damped
    <3>3. Edge!MinOf(belief, towards) = belief /\ Edge!MaxOf(belief, towards) = belief
      BY <3>1 DEF Edge!MinOf, Edge!MaxOf
    <3> QED
      BY <1>10, <2>0, <3>2, <3>3
  <2>2. CASE Heard("implied", m) # {}
    <3>1. e.implied # <<>> /\ e.implied[1] = towards
      BY <1>7, <2>2 DEF ImpliedHeard
    <3>2. towards \in 0..Scale
      BY <2>2, HeardWithinBounds DEF Edge!Valid
    <3>3. adjusted = (DampDen - DampNum) * belief + DampNum * towards
      <4> HIDE DEF towards
      <4> QED
        BY <3>1 DEF adjusted, Edge!Damped
    <3>4. belief \in Int /\ towards \in Int
      BY <1>10, <2>0, <3>2
    <3> HIDE DEF belief, towards
    <3> QED
      BY <2>0, <3>3, <3>4, DampingIsBetween
  <2> QED
    BY <2>1, <2>2
<1> DEFINE gain == IF dir = "Buy" THEN adjusted - DampDen * price ELSE DampDen * price - adjusted
<1>13. /\ price \in Int /\ deviation \in Int /\ DampDen * price \in Int /\ DampDen * Cost \in Int
       /\ DampDen * MinEv \in Int /\ DampDen * (Cost + MinEv) = DampDen * Cost + DampDen * MinEv
       /\ Edge!Magnitude(deviation) = gain /\ gain \in Int
  <2>1. DampDen \in Nat \ {0} /\ Cost \in Nat /\ MinEv \in Nat /\ Scale \in Nat
    BY <1>3 DEF Edge!EdgeConstants
  <2>2. price \in Int
    BY <1>10, <2>1
  <2>3. DampDen * price \in Int /\ DampDen * Cost \in Int /\ DampDen * MinEv \in Int
    BY <2>1, <2>2
  <2>4. DampDen * (Cost + MinEv) = DampDen * Cost + DampDen * MinEv
    BY <2>1
  <2>5. Edge!Magnitude(deviation) = gain /\ gain \in Int /\ deviation \in Int
    BY <1>5, <1>12, <2>3 DEF Edge!Magnitude, dir
  <2> QED
    BY <2>2, <2>3, <2>4, <2>5
<1>14. gain >= DampDen * (Cost + MinEv) /\ gain > DampDen * Cost
  BY <1>5, <1>13
<1>15. size \in Edge!MinOf(1, Cap)..Cap
  <2>1. DampDen \in Nat \ {0} /\ Cost \in Nat /\ KellyDen \in Nat \ {0} /\ Unit \in Nat /\ Cap \in Nat
        /\ Scale \in Nat
    BY <1>3 DEF Edge!EdgeConstants
  <2>2. room \in Int /\ room > 0
    BY <1>5, <1>10, <2>1 DEF room, Edge!Room
  <2>3. DampDen * room \in Int /\ DampDen * room > 0
    BY <2>1, <2>2
  <2>4. DampDen * Cost >= 0
    BY <2>1
  <2>5. gain > 0
    BY <1>13, <1>14, <2>4
  <2>6. PICK g \in Int : g = Edge!Magnitude(deviation) /\ g > 0
    BY <1>13, <2>5
  <2>7. PICK r \in Int : r = DampDen * room /\ r > 0
    BY <2>3
  <2> QED
    BY <2>1, <2>6, <2>7, SizedWithinCap DEF size
<1>16. Edge!Confidence(e, state.clock) \in MinConfidence..Scale
  BY <1>3, <1>5, <1>11 DEF Edge!EdgeConstants
<1> HIDE DEF deviation
<1> QED
  BY <1>6, <1>8, <1>9, <1>11, <1>12, <1>14, <1>15, <1>16, SMTT(40)

\* The books are kept when the events and the entries are what they were.
LEMMA BooksUntouched ==
  ASSUME EdgeInv, hist' = hist, DOMAIN state' = {"beliefs", "clock"}, state'.beliefs = state.beliefs,
         state'.clock \in Nat, out' = <<>> \/ (out' = out /\ state' = state)
  PROVE  EdgeInv'
<1>1. \A m \in Markets : Edge!Entry(m)' = Edge!Entry(m) /\ FromHistory(m)' = FromHistory(m)
  BY DEF Edge!Entry, FromHistory, PosteriorHeard, ConfidenceHeard, PriceHeard, ImpliedHeard, ShockHeard,
         Heard, Last
<1>2. HeardTyped' /\ \A k \in Kinds, m \in Markets : HasLast(k, m)'
  BY DEF EdgeInv, HeardTyped, HasLast, IsLast, Heard
<1>3. OutIsJudged'
  BY <1>1 DEF EdgeInv, OutIsJudged
<1>4. Edge!EdgeConstants'
  BY DEF EdgeInv
<1> QED
  BY <1>1, <1>2, <1>3, <1>4 DEF EdgeInv

EdgePart == which = "edge" => EdgeInv

\* A signal stands on the last belief and the last price, is boosted only by a
\* fresh shock, lies between the belief and what the graph implies, and is
\* past the price by the costs: for all prices, factors and thresholds that
\* the configuration may hold, and in whatever order events come.
THEOREM BoostOnlyByFreshShock == Spec => []BoostedByFreshShockOnly
<1>1. Edge!Init => EdgeInv
  <2> SUFFICES ASSUME Edge!Init PROVE EdgeInv
    OBVIOUS
  <2>0. Edge!EdgeConstants
    BY StandaloneConstants
  <2>1. state = [beliefs |-> Edge!EmptyMap, clock |-> 0] /\ out = <<>> /\ hist = <<>>
    BY DEF Edge!Init
  <2>2. DOMAIN hist = {} /\ DOMAIN state.beliefs = {} /\ state.clock = 0
    BY <2>1 DEF Edge!EmptyMap
  <2>3. \A k \in Kinds, m \in Markets : Heard(k, m) = {}
    BY <2>2 DEF Heard
  <2>4. \A m \in Markets : Edge!Entry(m) = FromHistory(m)
    <3> SUFFICES ASSUME NEW m \in Markets PROVE Edge!Entry(m) = FromHistory(m)
      OBVIOUS
    <3>1. Edge!Entry(m) = Edge!NewEntry
      BY <2>2 DEF Edge!Entry, Edge!GetOr
    <3>2. /\ PosteriorHeard(m) = <<>> /\ ConfidenceHeard(m) = 0 /\ PriceHeard(m) = <<>>
          /\ ImpliedHeard(m) = <<>> /\ ShockHeard(m) = <<>>
      BY <2>3 DEF Kinds, PosteriorHeard, ConfidenceHeard, PriceHeard, ImpliedHeard, ShockHeard
    <3> QED
      BY <3>1, <3>2 DEF Edge!NewEntry, FromHistory
  <2> QED
    BY <2>0, <2>1, <2>2, <2>3, <2>4 DEF EdgeInv, HeardTyped, HasLast, OutIsJudged
<1>2. EdgeInv /\ [Edge!Next]_(Edge!vars) => EdgeInv'
  <2> SUFFICES ASSUME EdgeInv, [Edge!Next]_(Edge!vars) PROVE EdgeInv'
    OBVIOUS
  <2>1. CASE UNCHANGED Edge!vars
    <3>1. state' = state /\ out' = out /\ hist' = hist
      BY <2>1 DEF Edge!vars
    <3>2. DOMAIN state' = {"beliefs", "clock"} /\ state'.clock \in Nat
      BY <3>1 DEF EdgeInv
    <3> QED
      BY <3>1, <3>2, BooksUntouched
  <2>2. CASE Edge!Second
    <3>1. state' = [state EXCEPT !.clock = state.clock + 1] /\ out' = <<>> /\ hist' = hist
      BY <2>2 DEF Edge!Second
    <3>2. DOMAIN state' = {"beliefs", "clock"} /\ state'.beliefs = state.beliefs /\ state'.clock \in Nat
      BY <3>1 DEF EdgeInv
    <3> QED
      BY <3>1, <3>2, BooksUntouched
  <2> QED
    BY <2>1, <2>2, EventKeeps DEF Edge!Next
<1>4. Init => EdgePart
  BY <1>1 DEF Init, EdgePart
<1>5. EdgePart /\ [Next]_vars => EdgePart'
  <2> SUFFICES ASSUME EdgePart, [Next]_vars, which' = "edge" PROVE EdgeInv'
    BY DEF EdgePart
  <2>1. which = "edge" /\ [Edge!Next]_(Edge!vars)
    BY DEF Next, vars, Edge!vars
  <2> QED
    BY <1>2, <2>1 DEF EdgePart
<1>6. EdgePart => BoostedByFreshShockOnly
  BY JudgedRight DEF EdgePart, BoostedByFreshShockOnly
<1> QED
  BY <1>4, <1>5, <1>6, PTL DEF Spec
----------------------------------------------------------------------------
(***************************************************************************)
(* market_graph.  Whatever the graph, its weights and its cycles,          *)
(* probabilities stay in range and a GraphUpdate tells what its pass       *)
(* changed, all of it and nothing else.                                    *)
(***************************************************************************)

LEMMA GraphBounds ==
  /\ GraphScale \in Nat \ {0} /\ Probs \subseteq 0..GraphScale
  /\ WeightScale \in Nat \ {0} /\ Alike \cup Opposed \subseteq 0..WeightScale
  /\ ChangeThreshold \in Nat /\ ConvergenceThreshold \in Nat \ {0}
  /\ MaxDepth \in Nat /\ MaxEdges \in Nat
BY StandaloneConstants DEF Graph!GraphConstants

\* The sequences of the instance are those of this module.
LEMMA GraphSequences ==
  ASSUME NEW s, NEW x
  PROVE  Graph!Head(s) = Head(s) /\ Graph!Tail(s) = Tail(s) /\ Graph!Append(s, x) = Append(s, x)
OBVIOUS

(***************************************************************************)
(* The markets within n hops.  Within is a recursive function over the  *)
(* edges of the state; the lemmas are about the same function of any edges, *)
(* so that they apply before and after a step.                             *)
(***************************************************************************)

DependentsIn(E, m) == {e[2] : e \in {d \in DOMAIN E : d[1] = m}}

Hop(E, m, g, n) == IF n = 0 THEN {m}
                   ELSE g[n - 1] \cup UNION {DependentsIn(E, k) : k \in g[n - 1]}

Reach(E, m) == CHOOSE f : f = [n \in 0..MaxDepth |-> Hop(E, m, f, n)]

\* Graph!Within is that function of the edges of the state.
LEMMA WithinIsReach ==
  ASSUME NEW m
  PROVE  Graph!Within(m) = Reach(state.edges, m)
BY DEF Graph!Within, Reach, Hop, Graph!Dependents, DependentsIn

\* The recursive function exists, so it satisfies its equation.
LEMMA ReachEquation ==
  ASSUME NEW E, NEW m
  PROVE  \A n \in 0..MaxDepth : Reach(E, m)[n] = Hop(E, m, Reach(E, m), n)
<1> DEFINE G == {k \in Nat : \E g : g = [n \in 0..k |-> Hop(E, m, g, n)]}
<1>1. 0 \in G
  <2>1. PICK g : g = [n \in 0..0 |-> {m}]
    OBVIOUS
  <2>2. g = [n \in 0..0 |-> Hop(E, m, g, n)]
    BY <2>1 DEF Hop
  <2> QED
    BY <2>2
<1>2. ASSUME NEW k \in G
      PROVE  k + 1 \in G
  <2>1. PICK g : g = [n \in 0..k |-> Hop(E, m, g, n)]
    OBVIOUS
  <2>2. PICK h : h = [n \in 0..(k + 1) |-> Hop(E, m, g, n)]
    OBVIOUS
  <2>3. k \in Nat
    OBVIOUS
  <2>4. \A n \in 0..k : h[n] = g[n]
    BY <2>1, <2>2, <2>3
  <2>5. ASSUME NEW n \in 0..(k + 1)
        PROVE  Hop(E, m, g, n) = Hop(E, m, h, n)
    <3>1. n = 0 \/ n - 1 \in 0..k
      BY <2>3
    <3>2. n # 0 => g[n - 1] = h[n - 1]
      BY <2>4, <3>1
    <3> QED
      BY <3>2 DEF Hop
  <2>6. h = [n \in 0..(k + 1) |-> Hop(E, m, h, n)]
    BY <2>2, <2>5, Zenon
  <2>7. k + 1 \in Nat
    BY <2>3
  <2> QED
    BY <2>6, <2>7, Zenon
<1>3. MaxDepth \in G
  <2> HIDE DEF G
  <2>1. G \in SUBSET Nat
    BY DEF G
  <2> QED
    BY <1>1, <1>2, <2>1, NatSetInduction, GraphBounds
<1>4. PICK g : g = [n \in 0..MaxDepth |-> Hop(E, m, g, n)]
  BY <1>3
<1>5. Reach(E, m) = [n \in 0..MaxDepth |-> Hop(E, m, Reach(E, m), n)]
  BY <1>4 DEF Reach
<1> QED
  BY <1>5

\* Further hops lead to all the markets that fewer do.
LEMMA ReachGrows ==
  ASSUME NEW E, NEW m, NEW i \in 0..MaxDepth
  PROVE  Reach(E, m)[i] \subseteq Reach(E, m)[MaxDepth]
<1> DEFINE G == {j \in Nat : i + j <= MaxDepth => Reach(E, m)[i] \subseteq Reach(E, m)[i + j]}
<1>0. MaxDepth \in Nat /\ i \in Nat
  BY GraphBounds
<1>1. 0 \in G
  BY <1>0
<1>2. ASSUME NEW j \in G
      PROVE  j + 1 \in G
  <2>1. j \in Nat
    OBVIOUS
  <2> SUFFICES ASSUME i + (j + 1) <= MaxDepth
               PROVE  Reach(E, m)[i] \subseteq Reach(E, m)[i + (j + 1)]
    BY <2>1
  <2>2. PICK n \in 1..MaxDepth : n = i + (j + 1)
    BY <1>0, <2>1
  <2>3. Reach(E, m)[n] = Hop(E, m, Reach(E, m), n)
    BY <1>0, <2>2, ReachEquation
  <2>4. Reach(E, m)[n - 1] \subseteq Reach(E, m)[n]
    BY <2>2, <2>3 DEF Hop
  <2>5. n - 1 = i + j /\ i + j <= MaxDepth
    BY <1>0, <2>1, <2>2
  <2> QED
    BY <2>2, <2>4, <2>5
<1>3. G = Nat
  <2> HIDE DEF G
  <2>1. G \in SUBSET Nat
    BY DEF G
  <2> QED
    BY <1>1, <1>2, <2>1, NatSetInduction
<1>4. PICK j : j = MaxDepth - i
  OBVIOUS
<1>5. j \in Nat /\ i + j = MaxDepth
  BY <1>0, <1>4
<1>6. j \in G
  BY <1>3, <1>5
<1> QED
  BY <1>0, <1>5, <1>6

\* The source is within no hops, and a dependent of a market within n hops is
\* within n + 1.
LEMMA ReachSteps ==
  ASSUME NEW E, NEW m
  PROVE  /\ Reach(E, m)[0] = {m}
         /\ \A n \in 0..MaxDepth : n < MaxDepth =>
              \A k \in Reach(E, m)[n] : DependentsIn(E, k) \subseteq Reach(E, m)[n + 1]
<1>0. MaxDepth \in Nat
  BY GraphBounds
<1>1. Reach(E, m)[0] = {m}
  <2>1. Reach(E, m)[0] = Hop(E, m, Reach(E, m), 0)
    <3>1. 0 \in 0..MaxDepth
      BY <1>0
    <3> QED
      BY <3>1, ReachEquation, Zenon
  <2> QED
    BY <2>1 DEF Hop
<1>2. ASSUME NEW n \in 0..MaxDepth, n < MaxDepth, NEW k \in Reach(E, m)[n]
      PROVE  DependentsIn(E, k) \subseteq Reach(E, m)[n + 1]
  <2>1. PICK j \in 1..MaxDepth : j = n + 1 /\ j - 1 = n /\ j # 0
    BY <1>0, <1>2
  <2>2. Reach(E, m)[j] = Hop(E, m, Reach(E, m), j)
    BY <1>0, <2>1, ReachEquation
  <2>3. Reach(E, m)[j] = Reach(E, m)[n] \cup UNION {DependentsIn(E, x) : x \in Reach(E, m)[n]}
    BY <2>1, <2>2 DEF Hop
  <2> QED
    BY <2>1, <2>3
<1> QED
  BY <1>1, <1>2

(***************************************************************************)
(* The inductive invariant.  During a pass the edges do not change and the *)
(* prices do not either; what the queue holds lies within the hops its     *)
(* depth allows; and the changes noted are what the pass did to the nodes  *)
(* so far.                                                                 *)
(***************************************************************************)

\* What the queue may hold: a known market that can be reached in depth hops.
JobRecord == [node : DOMAIN state.nodes, delta : (-GraphScale)..GraphScale, depth : 0..MaxDepth]
Jobs == {j \in JobRecord : j.node \in Reach(state.edges, state.task.source)[j.depth]}

Change == [old : 0..GraphScale, new : 0..GraphScale]

TaskOK ==
  /\ DOMAIN state.task = {"at", "source", "queue", "todo", "open", "changes"}
  /\ state.task.source \in DOMAIN state.nodes
  /\ state.task.queue \in Seq(Jobs)
  /\ state.task.open \in BOOLEAN
  /\ state.task.open => state.task.queue # <<>>
  /\ state.task.todo # {} => /\ state.task.open
                       /\ state.task.todo \subseteq DependentsIn(state.edges, Head(state.task.queue).node)
                       /\ Head(state.task.queue).depth < MaxDepth
  /\ Graph!IsMap(state.task.changes, DOMAIN state.nodes, Change)
  /\ hist \in [DOMAIN state.nodes -> Graph!Node]

\* What the pass did to market m, and what it noted of it.
Told(m) ==
  IF m \in DOMAIN state.task.changes
  THEN /\ state.task.changes[m] = [old |-> hist[m].implied_prob, new |-> state.nodes[m].implied_prob]
       /\ m \in Reach(state.edges, state.task.source)[MaxDepth]
  ELSE state.nodes[m].implied_prob = hist[m].implied_prob

\* No cycle of MaxDepth hops or fewer leads back to the source.
NoWayBack == \A m \in Reach(state.edges, state.task.source)[MaxDepth] :
               state.task.source \notin DependentsIn(state.edges, m)

Ground == NoWayBack => /\ state.nodes[state.task.source].implied_prob = state.nodes[state.task.source].current_prob
                       /\ state.task.source \notin DOMAIN state.task.changes

GraphInv ==
  /\ DOMAIN state = {"nodes", "edges", "task"}
  /\ Graph!IsMap(state.nodes, GraphMarkets, Graph!Node)
  /\ Graph!IsMap(state.edges, (DOMAIN state.nodes) \X (DOMAIN state.nodes), Graph!Weights)
  /\ state.task.at \in {"recv", "propagate"}
  /\ Graph!Passing =>
       /\ TaskOK
       /\ \A m \in (DOMAIN state.nodes) \ {state.task.source} : Told(m)
       /\ Ground

----------------------------------------------------------------------------
(***************************************************************************)
(* Arithmetic and maps.                                                    *)
(***************************************************************************)

\* A probability clamped, and the distance between two of them.
LEMMA ProbFacts ==
  /\ \A p \in Int : Graph!ClampProb(p) \in 0..GraphScale
  /\ \A p, q \in 0..GraphScale : p - q \in (-GraphScale)..GraphScale
BY GraphBounds DEF Graph!ClampProb, Graph!MinOf, Graph!MaxOf

\* Graph!Weights and what they weigh are integers.
LEMMA WeightFacts ==
  /\ \A w \in Graph!Weights : w \in Int
  /\ \A a, b \in Int : Graph!Weighted(a, b) \in Int
<1>1. \A w \in Graph!Weights : w \in Int
  BY GraphBounds DEF Graph!Weights
<1>2. ASSUME NEW a \in Int, NEW b \in Int
      PROVE  Graph!Weighted(a, b) \in Int
  <2>1. PICK c \in Int : c = a * b
    OBVIOUS
  <2>2. c \div WeightScale \in Int /\ (-c) \div WeightScale \in Int
    BY GraphBounds
  <2> QED
    BY <2>1, <2>2 DEF Graph!Weighted
<1> QED
  BY <1>1, <1>2

\* A key inserted in a map.
LEMMA InsertMap ==
  ASSUME NEW K, NEW V, NEW map, Graph!IsMap(map, K, V), NEW k \in K, NEW v \in V
  PROVE  /\ Graph!IsMap(Graph!Insert(map, k, v), K, V)
         /\ DOMAIN Graph!Insert(map, k, v) = DOMAIN map \cup {k}
         /\ Graph!Insert(map, k, v)[k] = v
         /\ \A j \in DOMAIN map : j # k => Graph!Insert(map, k, v)[j] = map[j]
BY DEF Graph!IsMap, Graph!Insert

\* Ends of an edge that is known are markets that are known.
LEMMA DependentIsNode ==
  ASSUME NEW N, NEW E, NEW W, Graph!IsMap(E, N \X N, W), NEW m, NEW to \in DependentsIn(E, m)
  PROVE  to \in N /\ <<m, to>> \in DOMAIN E /\ E[<<m, to>>] \in W
BY DEF Graph!IsMap, DependentsIn

----------------------------------------------------------------------------
(***************************************************************************)
(* The invariant holds at first and is kept by every step.                 *)
(***************************************************************************)

LEMMA GraphInitInv == Graph!Init => GraphInv
<1> SUFFICES ASSUME Graph!Init PROVE GraphInv
  OBVIOUS
<1>1. state.task.at = "recv" /\ ~Graph!Passing /\ DOMAIN state = {"nodes", "edges", "task"}
  BY DEF Graph!Init, Graph!Recv, Graph!Passing
<1>2. state.nodes \in [{} -> Graph!Node] /\ state.edges \in [{} -> Graph!Weights]
  BY DEF Graph!Init, Graph!EmptyMap
<1> QED
  BY <1>1, <1>2 DEF GraphInv, Graph!IsMap

\* A node is added between passes; the edges still join known markets.
LEMMA NewMarketInv ==
  ASSUME GraphInv, NEW m \in GraphMarkets, NEW prob \in Probs, Graph!OnNewMarket(m, prob)
  PROVE  GraphInv'
<1>1. /\ DOMAIN state' = DOMAIN state /\ state'.edges = state.edges
      /\ state'.task = Graph!Recv /\ ~Graph!Passing'
  BY DEF GraphInv, Graph!OnNewMarket, Graph!Idle, Graph!Recv, Graph!Passing
<1>2. [current_prob |-> prob, implied_prob |-> prob] \in Graph!Node
  BY GraphBounds DEF Graph!Node
<1>3. Graph!IsMap(state'.nodes, GraphMarkets, Graph!Node) /\ DOMAIN state.nodes \subseteq DOMAIN state'.nodes
  <2>1. PICK node \in Graph!Node : node = [current_prob |-> prob, implied_prob |-> prob]
    BY <1>2
  <2>2. state'.nodes = Graph!Insert(state.nodes, m, node)
    BY <2>1 DEF GraphInv, Graph!OnNewMarket
  <2>3. Graph!IsMap(state.nodes, GraphMarkets, Graph!Node)
    BY DEF GraphInv
  <2>4. Graph!IsMap(state'.nodes, GraphMarkets, Graph!Node) /\ DOMAIN state'.nodes = DOMAIN state.nodes \cup {m}
    BY <2>2, <2>3 DEF Graph!IsMap, Graph!Insert
  <2> QED
    BY <2>4
<1>4. Graph!IsMap(state.edges, (DOMAIN state'.nodes) \X (DOMAIN state'.nodes), Graph!Weights)
  BY <1>3 DEF GraphInv, Graph!IsMap
<1> QED
  BY <1>1, <1>3, <1>4 DEF GraphInv, Graph!Recv

\* An edge is added between passes.
LEMMA RelationshipInv ==
  ASSUME GraphInv, NEW from \in GraphMarkets, NEW to \in GraphMarkets, NEW weight \in Graph!Weights,
         Graph!OnRelationship(from, to, weight)
  PROVE  GraphInv'
<1>1. /\ DOMAIN state' = DOMAIN state /\ state'.nodes = state.nodes
      /\ state'.task = Graph!Recv /\ ~Graph!Passing'
  BY DEF GraphInv, Graph!OnRelationship, Graph!Idle, Graph!Recv, Graph!Passing
<1>2. Graph!IsMap(state'.edges, (DOMAIN state.nodes) \X (DOMAIN state.nodes), Graph!Weights)
  <2>1. CASE {from, to} \subseteq DOMAIN state.nodes
    <3>1. <<from, to>> \in (DOMAIN state.nodes) \X (DOMAIN state.nodes)
      BY <2>1
    <3> QED
      BY <2>1, <3>1, InsertMap DEF Graph!OnRelationship, GraphInv
  <2>2. CASE ~({from, to} \subseteq DOMAIN state.nodes)
    BY <2>2 DEF Graph!OnRelationship, GraphInv
  <2> QED
    BY <2>1, <2>2
<1> QED
  BY <1>1, <1>2 DEF GraphInv, Graph!Recv

\* A price is recorded, and may start a pass: nothing has been noted yet, and
\* only the source differs from the nodes before the pass.
LEMMA KnownMarketInv ==
  ASSUME GraphInv, NEW m \in GraphMarkets, NEW prob \in Probs, Graph!OnKnownMarket(m, prob)
  PROVE  GraphInv'
<1>1. /\ m \in DOMAIN state.nodes /\ state.task = Graph!Recv /\ prob \in 0..GraphScale
      /\ DOMAIN state' = DOMAIN state /\ state'.edges = state.edges
  BY GraphBounds DEF GraphInv, Graph!OnKnownMarket, Graph!Idle
<1>2. state.nodes \in [DOMAIN state.nodes -> Graph!Node] /\ state.nodes[m] \in Graph!Node
  BY <1>1 DEF GraphInv, Graph!IsMap
<1>3. CASE Graph!Starts(m, prob)
  <2>1. /\ state'.nodes = [state.nodes EXCEPT ![m] = [current_prob |-> prob, implied_prob |-> prob]]
        /\ state'.task = Graph!Seed(m, Graph!Drift(m, prob)) /\ hist' = state.nodes
    BY <1>3 DEF GraphInv, Graph!OnKnownMarket
  <2>2. [current_prob |-> prob, implied_prob |-> prob] \in Graph!Node
    BY <1>1 DEF Graph!Node
  <2>3. state'.nodes \in [DOMAIN state.nodes -> Graph!Node] /\ DOMAIN state'.nodes = DOMAIN state.nodes
    BY <1>2, <2>1, <2>2
  <2>4. /\ \A k \in DOMAIN state.nodes : k # m => state'.nodes[k] = state.nodes[k]
        /\ state'.nodes[m].implied_prob = prob /\ state'.nodes[m].current_prob = prob
    BY <1>1, <1>2, <2>1
  <2>5. /\ state'.task.at = "propagate" /\ state'.task.source = m /\ state'.task.todo = {} /\ state'.task.open = FALSE
        /\ state'.task.queue = <<[node |-> m, delta |-> Graph!Drift(m, prob), depth |-> 0]>>
        /\ state'.task.changes = Graph!EmptyMap /\ hist' = state.nodes
        /\ DOMAIN state'.task = {"at", "source", "queue", "todo", "open", "changes"}
    BY <2>1 DEF Graph!Seed
  <2>6. Graph!Drift(m, prob) \in (-GraphScale)..GraphScale
    <3>1. state.nodes[m].implied_prob \in 0..GraphScale
      BY <1>2 DEF Graph!Node
    <3> QED
      BY <1>1, <3>1, ProbFacts DEF Graph!Drift
  <2>7. [node |-> m, delta |-> Graph!Drift(m, prob), depth |-> 0] \in Jobs'
    <3>1. 0 \in 0..MaxDepth
      BY GraphBounds
    <3>2. m \in Reach(state'.edges, m)[0]
      BY ReachSteps
    <3> QED
      BY <1>1, <2>3, <2>5, <2>6, <3>1, <3>2 DEF Jobs, JobRecord
  <2>8. state'.task.queue \in Seq(Jobs')
    BY <2>5, <2>7
  <2>9. DOMAIN state'.task.changes = {} /\ state'.task.changes \in [{} -> Change]
    BY <2>5 DEF Graph!EmptyMap
  <2>10. TaskOK'
    BY <1>1, <1>2, <2>3, <2>5, <2>8, <2>9 DEF TaskOK, Graph!IsMap, Change, Graph!Node
  <2>11. \A k \in (DOMAIN state'.nodes) \ {state'.task.source} : Told(k)'
    BY <2>3, <2>4, <2>5, <2>9 DEF Told
  <2>12. Ground'
    BY <2>4, <2>5, <2>9 DEF Ground
  <2>13. Graph!IsMap(state'.nodes, GraphMarkets, Graph!Node)
    BY <2>3 DEF GraphInv, Graph!IsMap
  <2>14. Graph!IsMap(state'.edges, (DOMAIN state'.nodes) \X (DOMAIN state'.nodes), Graph!Weights)
    BY <1>1, <2>3 DEF GraphInv
  <2> QED
    BY <1>1, <2>5, <2>10, <2>11, <2>12, <2>13, <2>14 DEF GraphInv, Graph!Node
<1>4. CASE ~Graph!Starts(m, prob)
  <2>1. state'.nodes = [state.nodes EXCEPT ![m].current_prob = prob] /\ state'.task = state.task
    BY <1>4 DEF GraphInv, Graph!OnKnownMarket
  <2>2. [state.nodes[m] EXCEPT !.current_prob = prob] \in Graph!Node
    BY <1>1, <1>2 DEF Graph!Node
  <2>3. state'.nodes \in [DOMAIN state.nodes -> Graph!Node] /\ DOMAIN state'.nodes = DOMAIN state.nodes
    BY <1>2, <2>1, <2>2
  <2>4. state'.task.at = "recv" /\ ~Graph!Passing'
    BY <1>1, <2>1 DEF Graph!Recv, Graph!Passing
  <2>5. Graph!IsMap(state'.nodes, GraphMarkets, Graph!Node)
    BY <2>3 DEF GraphInv, Graph!IsMap
  <2>6. Graph!IsMap(state'.edges, (DOMAIN state'.nodes) \X (DOMAIN state'.nodes), Graph!Weights)
    BY <1>1, <2>3 DEF GraphInv
  <2> QED
    BY <1>1, <2>4, <2>5, <2>6 DEF GraphInv, Graph!Node
<1> QED
  BY <1>3, <1>4

\* Steps that change neither the nodes, the edges, nor what was noted.
LEMMA QuietInv ==
  ASSUME GraphInv, Graph!Passing, Graph!Passing', TaskOK',
         DOMAIN state' = DOMAIN state, state'.nodes = state.nodes, state'.edges = state.edges,
         state'.task.source = state.task.source, state'.task.changes = state.task.changes,
         hist' = hist
  PROVE  GraphInv'
BY DEF GraphInv, Told, Ground, NoWayBack, Graph!Node, Change, Graph!Passing

LEMMA TakeUpInv ==
  ASSUME GraphInv, Graph!TakeUp
  PROVE  GraphInv'
<1>1. Graph!Passing /\ TaskOK /\ state.task.queue # <<>> /\ ~state.task.open
  BY DEF Graph!TakeUp, GraphInv, Graph!Passing
<1>2. PICK todo : todo = IF Head(state.task.queue).depth >= MaxDepth THEN {}
                         ELSE Graph!Dependents(Head(state.task.queue).node)
  OBVIOUS
<1>3. /\ state'.task = [state.task EXCEPT !.open = TRUE, !.todo = todo] /\ hist' = hist
      /\ DOMAIN state' = DOMAIN state /\ state'.nodes = state.nodes /\ state'.edges = state.edges
  BY <1>2, GraphSequences DEF GraphInv, Graph!TakeUp
<1>4. /\ DOMAIN state'.task = DOMAIN state.task /\ state'.task.open = TRUE /\ state'.task.todo = todo
      /\ state'.task.at = state.task.at /\ state'.task.source = state.task.source /\ state'.task.queue = state.task.queue
      /\ state'.task.changes = state.task.changes
  BY <1>1, <1>3 DEF TaskOK
<1>5. Head(state.task.queue) \in Jobs
  BY <1>1 DEF TaskOK
<1>6. todo # {} => /\ todo \subseteq DependentsIn(state.edges, Head(state.task.queue).node)
                   /\ Head(state.task.queue).depth < MaxDepth
  <2>1. Head(state.task.queue).depth \in 0..MaxDepth /\ MaxDepth \in Nat
    BY <1>5, GraphBounds DEF Jobs, JobRecord
  <2> QED
    BY <1>2, <2>1 DEF Graph!Dependents, DependentsIn
<1>7. Jobs' = Jobs
  BY <1>3, <1>4 DEF Jobs, JobRecord
<1>8. TaskOK'
  BY <1>1, <1>3, <1>4, <1>6, <1>7 DEF TaskOK, Change, Graph!Node
<1> QED
  BY <1>1, <1>3, <1>4, <1>8, QuietInv DEF Graph!Passing

LEMMA DropInv ==
  ASSUME GraphInv, Graph!Drop
  PROVE  GraphInv'
<1>1. Graph!Passing /\ TaskOK /\ state.task.open /\ state.task.todo = {} /\ state.task.queue # <<>>
  BY DEF Graph!Drop, GraphInv, Graph!Passing, TaskOK
<1>2. /\ state'.task = [state.task EXCEPT !.open = FALSE, !.queue = Tail(@)] /\ hist' = hist
      /\ DOMAIN state' = DOMAIN state /\ state'.nodes = state.nodes /\ state'.edges = state.edges
  BY GraphSequences DEF GraphInv, Graph!Drop
<1>3. /\ DOMAIN state'.task = DOMAIN state.task /\ state'.task.open = FALSE /\ state'.task.todo = {}
      /\ state'.task.at = state.task.at /\ state'.task.source = state.task.source /\ state'.task.queue = Tail(state.task.queue)
      /\ state'.task.changes = state.task.changes
  BY <1>1, <1>2 DEF TaskOK
<1>4. Jobs' = Jobs
  BY <1>2, <1>3 DEF Jobs, JobRecord
<1>5. Tail(state.task.queue) \in Seq(Jobs)
  BY <1>1 DEF TaskOK
<1>6. TaskOK'
  BY <1>1, <1>2, <1>3, <1>4, <1>5 DEF TaskOK, Change, Graph!Node
<1> QED
  BY <1>1, <1>2, <1>3, <1>6, QuietInv DEF Graph!Passing

\* An edge is followed: its end is within one hop more, and if its probability
\* moves, the move is noted against the probability before the pass.
LEMMA FollowInv ==
  ASSUME GraphInv, NEW to \in GraphMarkets, Graph!Follow(to)
  PROVE  GraphInv'
<1> DEFINE job    == Head(state.task.queue)
           change == Graph!Weighted(state.edges[<<job.node, to>>], job.delta)
           old    == state.nodes[to].implied_prob
           new    == Graph!NewImplied(to, change)
           item   == [node |-> to, delta |-> new - old, depth |-> job.depth + 1]
           note   == [old |-> IF to \in DOMAIN state.task.changes THEN state.task.changes[to].old ELSE old,
                      new |-> new]
           m      == state.task.source
<1>0. Graph!Passing /\ to \in state.task.todo /\ hist' = hist
  BY DEF Graph!Follow
<1>1. /\ Graph!Passing /\ TaskOK /\ to \in state.task.todo /\ Ground /\ hist' = hist
      /\ \A k \in (DOMAIN state.nodes) \ {m} : Told(k)
  BY <1>0 DEF GraphInv
<1>2. /\ state.task.open /\ state.task.queue # <<>> /\ state.task.queue \in Seq(Jobs)
      /\ to \in DependentsIn(state.edges, job.node) /\ job.depth < MaxDepth
  BY <1>1 DEF TaskOK
<1>3. job \in Jobs
  BY <1>2
<1>4. /\ job.node \in DOMAIN state.nodes /\ job.delta \in (-GraphScale)..GraphScale /\ job.depth \in 0..MaxDepth
      /\ job.node \in Reach(state.edges, m)[job.depth]
  BY <1>3 DEF Jobs, JobRecord
<1>5. to \in DOMAIN state.nodes /\ state.edges[<<job.node, to>>] \in Graph!Weights
  <2>1. Graph!IsMap(state.edges, (DOMAIN state.nodes) \X (DOMAIN state.nodes), Graph!Weights)
    BY DEF GraphInv
  <2> QED
    BY <1>2, <2>1, DependentIsNode
<1>6. state.nodes \in [DOMAIN state.nodes -> Graph!Node] /\ state.nodes[to] \in Graph!Node /\ old \in 0..GraphScale
  BY <1>5 DEF GraphInv, Graph!IsMap, Graph!Node
<1>7. change \in Int
  <2>1. job.delta \in Int
    BY <1>4
  <2> QED
    BY <1>5, <2>1, WeightFacts
<1>8. new \in 0..GraphScale /\ new - old \in (-GraphScale)..GraphScale
  <2>1. old + change \in Int
    BY <1>6, <1>7
  <2>2. new \in 0..GraphScale
    BY <2>1, ProbFacts DEF Graph!NewImplied
  <2> QED
    BY <1>6, <2>2, ProbFacts
<1>9. /\ to \in Reach(state.edges, m)[job.depth + 1] /\ job.depth + 1 \in 0..MaxDepth
      /\ to \in Reach(state.edges, m)[MaxDepth]
  <2>1. job.depth + 1 \in 0..MaxDepth
    <3>1. PICK d \in 0..MaxDepth : d = job.depth /\ d < MaxDepth
      BY <1>2, <1>4
    <3> QED
      BY <3>1, GraphBounds
  <2>2. to \in Reach(state.edges, m)[job.depth + 1]
    BY <1>2, <1>4, ReachSteps
  <2> QED
    BY <2>1, <2>2, ReachGrows
<1>10. NoWayBack => to # m
  <2>1. job.node \in Reach(state.edges, m)[MaxDepth]
    BY <1>4, ReachGrows
  <2> QED
    BY <1>2, <2>1 DEF NoWayBack
<1>11. CASE Graph!Magnitude(change) < ConvergenceThreshold \/ Graph!Magnitude(new - old) < ConvergenceThreshold
  <2>1. /\ state'.task = [state.task EXCEPT !.todo = @ \ {to}]
        /\ DOMAIN state' = DOMAIN state /\ state'.nodes = state.nodes /\ state'.edges = state.edges
    BY <1>11, GraphSequences DEF GraphInv, Graph!Follow
  <2>2. /\ DOMAIN state'.task = DOMAIN state.task /\ state'.task.open = state.task.open /\ state'.task.todo = state.task.todo \ {to}
        /\ state'.task.at = state.task.at /\ state'.task.source = m /\ state'.task.queue = state.task.queue
        /\ state'.task.changes = state.task.changes /\ hist' = hist
    BY <1>1, <2>1 DEF TaskOK
  <2>3. Jobs' = Jobs
    BY <1>1, <2>1, <2>2 DEF Jobs, JobRecord
  <2>4. TaskOK'
    BY <1>1, <2>1, <2>2, <2>3 DEF TaskOK, Change, Graph!Node
  <2> QED
    BY <1>1, <2>1, <2>2, <2>4, QuietInv DEF Graph!Passing
<1>12. CASE ~(Graph!Magnitude(change) < ConvergenceThreshold \/ Graph!Magnitude(new - old) < ConvergenceThreshold)
  <2> HIDE DEF new, change, job
  <2>0. state' = [state EXCEPT
                    !.nodes[to].implied_prob = new,
                    !.task.todo    = @ \ {to},
                    !.task.changes = Graph!Noted(@, to, old, new),
                    !.task.queue   = Graph!Append(@, item)]
    BY <1>12, Zenon DEF Graph!Follow, job, change, new
  <2>1. /\ DOMAIN state' = DOMAIN state /\ state'.edges = state.edges
        /\ state'.nodes = [state.nodes EXCEPT ![to].implied_prob = new]
        /\ state'.task = [state.task EXCEPT !.todo    = @ \ {to},
                                !.changes = Graph!Noted(@, to, old, new),
                                !.queue   = Append(@, item)]
    <3> HIDE DEF item
    <3> QED
      BY <2>0, GraphSequences DEF GraphInv
  <2>2. /\ DOMAIN state'.task = DOMAIN state.task /\ state'.task.open = state.task.open /\ state'.task.todo = state.task.todo \ {to}
        /\ state'.task.at = state.task.at /\ state'.task.source = m /\ hist' = hist
        /\ state'.task.changes = Graph!Noted(state.task.changes, to, old, new)
        /\ state'.task.queue = Append(state.task.queue, item)
    BY <1>1, <2>1 DEF TaskOK
  <2>3. [state.nodes[to] EXCEPT !.implied_prob = new] \in Graph!Node
    BY <1>6, <1>8 DEF Graph!Node
  <2>4. /\ state'.nodes \in [DOMAIN state.nodes -> Graph!Node] /\ DOMAIN state'.nodes = DOMAIN state.nodes
        /\ \A k \in DOMAIN state.nodes : k # to => state'.nodes[k] = state.nodes[k]
    BY <1>6, <2>1, <2>3
  <2>5. state'.nodes[to].implied_prob = new
    BY <1>5, <1>6, <2>1 DEF Graph!Node
  <2>6. Jobs' = Jobs
    BY <2>1, <2>2, <2>4 DEF Jobs, JobRecord
  <2>7. item \in Jobs
    BY <1>5, <1>8, <1>9 DEF Jobs, JobRecord
  <2>8. state'.task.queue \in Seq(Jobs)
    BY <1>2, <2>2, <2>7
  <2>9. Head(state'.task.queue) = job /\ state'.task.queue # <<>>
    BY <1>2, <2>2, <2>7 DEF job
  <2>10. note \in Change
    BY <1>1, <1>6, <1>8 DEF TaskOK, Graph!IsMap, Change
  <2>11. state'.task.changes = Graph!Insert(state.task.changes, to, note)
    BY <2>2 DEF Graph!Noted
  <2>12. /\ Graph!IsMap(state'.task.changes, DOMAIN state.nodes, Change)
         /\ DOMAIN state'.task.changes = DOMAIN state.task.changes \cup {to}
         /\ state'.task.changes[to] = note
         /\ \A k \in DOMAIN state.task.changes : k # to => state'.task.changes[k] = state.task.changes[k]
    <3>1. Graph!IsMap(state.task.changes, DOMAIN state.nodes, Change)
      BY <1>1 DEF TaskOK
    <3>2. PICK noted \in Change : noted = note
      BY <2>10
    <3> HIDE DEF note
    <3>3. state'.task.changes = Graph!Insert(state.task.changes, to, noted)
      BY <2>11, <3>2, SMTT(40)
    <3> QED
      BY <1>5, <3>1, <3>2, <3>3 DEF Graph!IsMap, Graph!Insert
  <2>13. TaskOK'
    <3>1. state'.task.todo # {} => /\ state'.task.open
                             /\ state'.task.todo \subseteq DependentsIn(state.edges, Head(state'.task.queue).node)
                             /\ Head(state'.task.queue).depth < MaxDepth
      BY <1>1, <1>2, <2>2, <2>9 DEF TaskOK, job
    <3> QED
      BY <1>1, <2>1, <2>2, <2>4, <2>6, <2>8, <2>9, <2>12, <3>1, SMTT(40) DEF TaskOK, Change, Graph!Node
  <2>14. ASSUME NEW k \in (DOMAIN state'.nodes) \ {state'.task.source}
         PROVE  Told(k)'
    <3>1. k \in DOMAIN state.nodes /\ k # m /\ Told(k)
      BY <1>1, <2>2, <2>4
    <3>2. CASE k = to
      <4>1. note.old = hist[to].implied_prob
        BY <3>1, <3>2, SMTT(40) DEF Told
      <4> QED
        BY <1>1, <1>9, <2>1, <2>2, <2>5, <2>12, <3>2, <4>1 DEF Told
    <3>3. CASE k # to
      BY <1>1, <2>1, <2>2, <2>4, <2>12, <3>1, <3>3 DEF Told
    <3> QED
      BY <3>2, <3>3
  <2>15. Ground'
    BY <1>1, <1>10, <2>1, <2>2, <2>4, <2>12 DEF Ground, NoWayBack, TaskOK
  <2>16. Graph!IsMap(state'.nodes, GraphMarkets, Graph!Node)
    BY <2>4 DEF GraphInv, Graph!IsMap
  <2>17. Graph!IsMap(state'.edges, (DOMAIN state'.nodes) \X (DOMAIN state'.nodes), Graph!Weights)
    BY <2>1, <2>4 DEF GraphInv
  <2> QED
    BY <1>1, <2>1, <2>2, <2>13, <2>14, <2>15, <2>16, <2>17 DEF GraphInv, Graph!Passing, Change, Graph!Node
<1> QED
  BY <1>11, <1>12

LEMMA PublishInv ==
  ASSUME GraphInv, Graph!Publish
  PROVE  GraphInv'
BY DEF GraphInv, Graph!Publish, Graph!Recv, Graph!Passing, Graph!IsMap, Graph!Node

LEMMA GraphNextInv == GraphInv /\ [Graph!Next]_(Graph!vars) => GraphInv'
<1> SUFFICES ASSUME GraphInv, [Graph!Next]_(Graph!vars) PROVE GraphInv'
  OBVIOUS
<1>1. CASE \E m \in GraphMarkets, prob \in Probs : Graph!OnNewMarket(m, prob) \/ Graph!OnKnownMarket(m, prob)
  BY <1>1, NewMarketInv, KnownMarketInv
<1>2. CASE \E from, to \in GraphMarkets, weight \in Graph!Weights : from # to /\ Graph!OnRelationship(from, to, weight)
  BY <1>2, RelationshipInv
<1>3. CASE Graph!TakeUp
  BY <1>3, TakeUpInv
<1>4. CASE \E to \in GraphMarkets : Graph!Follow(to)
  BY <1>4, FollowInv
<1>5. CASE Graph!Drop
  BY <1>5, DropInv
<1>6. CASE Graph!Publish
  BY <1>6, PublishInv
<1>7. CASE UNCHANGED Graph!vars
  BY <1>7 DEF Graph!vars, GraphInv, Graph!Passing, TaskOK, Told, Ground, NoWayBack, Jobs, JobRecord, Graph!Node, Change
<1> QED
  BY <1>1, <1>2, <1>3, <1>4, <1>5, <1>6, <1>7 DEF Graph!Next

----------------------------------------------------------------------------
(***************************************************************************)
(* The theorem.                                                            *)
(***************************************************************************)

LEMMA GraphIsTyped == GraphInv => Graph!TypeOK
<1> SUFFICES ASSUME GraphInv, Graph!Passing
             PROVE  /\ state.task.source \in DOMAIN state.nodes /\ DOMAIN hist = DOMAIN state.nodes
                    /\ \A i \in DOMAIN state.task.queue : /\ state.task.queue[i].node \in DOMAIN state.nodes
                                                    /\ state.task.queue[i].delta \in (-GraphScale)..GraphScale
                                                    /\ state.task.queue[i].depth \in 0..MaxDepth
                    /\ state.task.open => state.task.queue # <<>>
                    /\ state.task.todo # {} => /\ state.task.open
                                         /\ state.task.todo \subseteq Graph!Dependents(Head(state.task.queue).node)
                    /\ Graph!IsMap(state.task.changes, DOMAIN state.nodes, Change)
  BY DEF GraphInv, Graph!TypeOK, Graph!Passing, Change
<1>1. TaskOK
  BY DEF GraphInv
<1>2. \A i \in DOMAIN state.task.queue : state.task.queue[i] \in Jobs
  BY <1>1 DEF TaskOK
<1>3. \A i \in DOMAIN state.task.queue : /\ state.task.queue[i].node \in DOMAIN state.nodes
                                   /\ state.task.queue[i].delta \in (-GraphScale)..GraphScale
                                   /\ state.task.queue[i].depth \in 0..MaxDepth
  BY <1>2 DEF Jobs, JobRecord
<1> QED
  BY <1>1, <1>3 DEF TaskOK, Graph!Dependents, DependentsIn

\* Whatever is published is what the pass noted.
LEMMA PublishedIsNoted ==
  ASSUME Graph!Publish
  PROVE  Graph!Passing /\ out'.node_updates = state.task.changes
<1>1. PICK nothing, none : nothing = [source |-> "", node_updates |-> none] /\ none = Graph!EmptyMap
  BY Zenon
<1>2. nothing.node_updates = none
  BY <1>1, Zenon
<1>3. out' = IF state.task.changes = none THEN nothing
             ELSE [source |-> state.task.source, node_updates |-> state.task.changes]
  BY <1>1, Zenon DEF Graph!Publish, Graph!Nothing
<1>4. Graph!Passing
  BY Zenon DEF Graph!Publish
<1> QED
  BY <1>2, <1>3, <1>4

\* A pass that ends has told of every market it changed, with the probability
\* it had before and the one it has now, and of no other.
LEMMA PublishIsComplete ==
  ASSUME GraphInv, Graph!Publish, NEW m \in (DOMAIN state.nodes) \ {state.task.source}
  PROVE  IF m \in DOMAIN out'.node_updates
         THEN /\ out'.node_updates[m] = [old |-> hist[m].implied_prob,
                                            new |-> state.nodes[m].implied_prob]
              /\ m \in Graph!Within(state.task.source)[MaxDepth]
         ELSE state.nodes[m].implied_prob = hist[m].implied_prob
<1>1. Graph!Passing /\ out'.node_updates = state.task.changes
  BY PublishedIsNoted
<1>2. Told(m)
  BY <1>1 DEF GraphInv
<1> QED
  BY <1>1, <1>2, WithinIsReach DEF Told

\* A pass that cannot come back leaves its source at the price that started it.
LEMMA PublishKeepsSource ==
  ASSUME GraphInv, Graph!Publish,
         \A m \in Graph!Within(state.task.source)[MaxDepth] : state.task.source \notin Graph!Dependents(m)
  PROVE  /\ state.nodes[state.task.source].implied_prob = state.nodes[state.task.source].current_prob
         /\ state.task.source \notin DOMAIN out'.node_updates
<1>1. Graph!Passing /\ out'.node_updates = state.task.changes
  BY PublishedIsNoted
<1>2. NoWayBack
  BY WithinIsReach DEF NoWayBack, Graph!Dependents, DependentsIn
<1> QED
  BY <1>1, <1>2 DEF GraphInv, Ground

GraphPart == which = "graph" => GraphInv

\* The property of the run: in every behaviour of the task, for all markets,
\* weights, thresholds and depths, probabilities stay in range, and the
\* GraphUpdate of a pass is complete, true, confined to MaxDepth hops of the
\* source and silent about a source that no cycle reaches.
THEOREM GraphUpdatesAreRight == Spec => UpdateIsRight
<1> DEFINE Truth == which = "graph" => Graph!UpdateIsComplete /\ Graph!SourceIsGroundTruth
           Typed == which = "graph" => Graph!TypeOK
<1>1. Init => GraphPart
  BY GraphInitInv DEF Init, GraphPart
<1>2. GraphPart /\ [Next]_vars => GraphPart'
  <2> SUFFICES ASSUME GraphPart, [Next]_vars, which' = "graph" PROVE GraphInv'
    BY DEF GraphPart
  <2>1. which = "graph" /\ [Graph!Next]_(Graph!vars)
    BY DEF Next, vars, Graph!vars
  <2> QED
    BY <2>1, GraphNextInv DEF GraphPart
<1>3. GraphPart => Typed
  BY GraphIsTyped DEF GraphPart
<1>4. GraphPart => Truth
  BY PublishIsComplete, PublishKeepsSource DEF GraphPart, Graph!UpdateIsComplete, Graph!SourceIsGroundTruth
<1>5. Spec => []GraphPart
  BY <1>1, <1>2, PTL DEF Spec
<1>6. Spec => []Typed
  BY <1>3, <1>5, PTL
<1>7. Spec => [][Truth]_vars
  BY <1>4, <1>5, PTL
<1> QED
  BY <1>6, <1>7 DEF UpdateIsRight

----------------------------------------------------------------------------
(***************************************************************************)
(* shock_detector.  Windows and histories move together (WindowsMatch); a  *)
(* sentiment goes through its markets one by one, and may evict some, but  *)
(* a market that has a price after it is one that had it before, with the  *)
(* window untouched (Spared).                                              *)
(***************************************************************************)

\* What the map can be after n related markets, g being what it can be before.
AfterOne(related, score, g, n) ==
  IF n = 0 THEN {state.markets} ELSE UNION {Shock!Touch(ms, related[n], score) : ms \in g[n - 1]}

\* The recursive function exists, so it satisfies its equation.
LEMMA AfterEquation ==
  ASSUME NEW related, NEW score, Len(related) \in Nat
  PROVE  \A n \in 0..Len(related) :
           Shock!After(related, score)[n] = AfterOne(related, score, Shock!After(related, score), n)
<1> DEFINE G == {k \in Nat : \E g : g = [n \in 0..k |-> AfterOne(related, score, g, n)]}
<1>1. 0 \in G
  <2>1. PICK g : g = [n \in 0..0 |-> {state.markets}]
    OBVIOUS
  <2>2. g = [n \in 0..0 |-> AfterOne(related, score, g, n)]
    BY <2>1 DEF AfterOne
  <2> QED
    BY <2>2
<1>2. ASSUME NEW k \in G
      PROVE  k + 1 \in G
  <2>1. PICK g : g = [n \in 0..k |-> AfterOne(related, score, g, n)]
    OBVIOUS
  <2>2. PICK h : h = [n \in 0..(k + 1) |-> AfterOne(related, score, g, n)]
    OBVIOUS
  <2>3. k \in Nat
    OBVIOUS
  <2>4. \A n \in 0..k : h[n] = g[n]
    BY <2>1, <2>2, <2>3
  <2>5. ASSUME NEW n \in 0..(k + 1)
        PROVE  AfterOne(related, score, g, n) = AfterOne(related, score, h, n)
    <3>1. n = 0 \/ n - 1 \in 0..k
      BY <2>3
    <3>2. n # 0 => g[n - 1] = h[n - 1]
      BY <2>4, <3>1
    <3> QED
      BY <3>2 DEF AfterOne
  <2>6. h = [n \in 0..(k + 1) |-> AfterOne(related, score, h, n)]
    BY <2>2, <2>5, Zenon
  <2>7. k + 1 \in Nat
    BY <2>3
  <2> QED
    BY <2>6, <2>7, Zenon
<1>3. Len(related) \in G
  <2> HIDE DEF G
  <2>1. G \in SUBSET Nat
    BY DEF G
  <2> QED
    BY <1>1, <1>2, <2>1, NatSetInduction
<1>4. PICK g : g = [n \in 0..Len(related) |-> AfterOne(related, score, g, n)]
  BY <1>3
<1>5. Shock!After(related, score) =
        [n \in 0..Len(related) |-> AfterOne(related, score, Shock!After(related, score), n)]
  BY <1>4 DEF Shock!After, AfterOne
<1> QED
  BY <1>5

MarketFields == {"last", "deltas", "score", "score_at", "priced", "seen"}

\* The differences between neighbours.
Moves(ds, h) == Len(ds) = Len(h) - 1 /\ \A i \in 1..Len(ds) : ds[i] = h[i + 1] - h[i]

\* One market: the window holds the moves between the prices heard.
Fits(priced, last, deltas, h) ==
  /\ priced \in BOOLEAN /\ last \in Int /\ deltas \in Seq(Int) /\ h \in Seq(Int)
  /\ priced = (h # <<>>)
  /\ priced => last = h[Len(h)] /\ Moves(deltas, h)
  /\ ~priced => deltas = <<>>

WindowMatches(s, h) == DOMAIN s = MarketFields /\ Fits(s.priced, s.last, s.deltas, h)

ShockInv ==
  /\ Shock!ShockConstants
  /\ DOMAIN state = {"markets", "clock"}
  /\ DOMAIN hist = DOMAIN state.markets
  /\ \A m \in DOMAIN state.markets : WindowMatches(state.markets[m], hist[m])

\* The markets of ms that have a price had it before, and the same window.
SparedAt(m, s) ==
  /\ DOMAIN s = MarketFields
  /\ s.priced \in BOOLEAN
  /\ s.priced => /\ m \in DOMAIN state.markets
                 /\ state.markets[m].priced
                 /\ s.last = state.markets[m].last
                 /\ s.deltas = state.markets[m].deltas
  /\ ~s.priced => s.deltas = <<>> /\ s.last \in Int

Spared(ms) == \A m \in DOMAIN ms : SparedAt(m, ms[m])

\* What an upsert leaves is the new market and some of the old ones.
LEMMA UpsertKeepsOthers ==
  ASSUME NEW ms, NEW m, NEW s, NEW next \in Shock!UpsertMarket(ms, m, s)
  PROVE  /\ m \in DOMAIN next /\ next[m] = s
         /\ \A k \in DOMAIN next : k # m => k \in DOMAIN ms /\ next[k] = ms[k]
<1>1. \/ next = Shock!Insert(ms, m, s)
      \/ \E k : next = Shock!Insert(Shock!RemoveAll(ms, {k}), m, s)
  BY DEF Shock!UpsertMarket
<1>2. CASE next = Shock!Insert(ms, m, s)
  BY <1>2 DEF Shock!Insert
<1>3. ASSUME NEW k, next = Shock!Insert(Shock!RemoveAll(ms, {k}), m, s)
      PROVE  /\ m \in DOMAIN next /\ next[m] = s
             /\ \A j \in DOMAIN next : j # m => j \in DOMAIN ms /\ next[j] = ms[j]
  <2>1. PICK r : r = Shock!RemoveAll(ms, {k})
    OBVIOUS
  <2>2. DOMAIN r = DOMAIN ms \ {k} /\ \A j \in DOMAIN r : r[j] = ms[j]
    BY <2>1 DEF Shock!RemoveAll, Shock!Restrict
  <2>3. next = Shock!Insert(r, m, s)
    BY <1>3, <2>1
  <2> QED
    BY <2>2, <2>3 DEF Shock!Insert
<1> QED
  BY <1>1, <1>2, <1>3

LEMMA TouchSpares ==
  ASSUME NEW ms, Spared(ms), NEW m, NEW score, NEW next \in Shock!Touch(ms, m, score)
  PROVE  Spared(next)
<1>1. PICK t : /\ next = [t EXCEPT ![m].score = score, ![m].score_at = state.clock, ![m].seen = state.clock]
               /\ m \in DOMAIN ms => t = ms
               /\ m \notin DOMAIN ms =>
                    t \in Shock!UpsertMarket(ms, m, Shock!NewFromSentiment(state.clock))
  BY DEF Shock!Touch
<1>2. PICK fresh : fresh = Shock!NewFromSentiment(state.clock)
  OBVIOUS
<1>3. /\ DOMAIN fresh = MarketFields /\ fresh.priced \in BOOLEAN /\ ~fresh.priced
      /\ fresh.deltas = <<>> /\ fresh.last \in Int
  BY <1>2 DEF Shock!NewFromSentiment, Shock!MarketStateNew, Shock!Placeholder, MarketFields
<1>4. Spared(t)
  <2>1. CASE m \in DOMAIN ms
    BY <1>1, <2>1
  <2>2. CASE m \notin DOMAIN ms
    <3>1. /\ m \in DOMAIN t /\ t[m] = fresh
          /\ \A k \in DOMAIN t : k # m => k \in DOMAIN ms /\ t[k] = ms[k]
      BY <1>1, <1>2, <2>2, UpsertKeepsOthers
    <3>2. SparedAt(m, fresh)
      BY <1>3 DEF SparedAt
    <3> QED
      BY <3>1, <3>2 DEF Spared
  <2> QED
    BY <2>1, <2>2
<1>5. DOMAIN next = DOMAIN t /\ \A k \in DOMAIN t : k # m => next[k] = t[k]
  BY <1>1
<1>6. ASSUME m \in DOMAIN t
      PROVE  /\ DOMAIN next[m] = DOMAIN t[m]
             /\ DOMAIN t[m] = MarketFields =>
                  next[m].priced = t[m].priced /\ next[m].last = t[m].last /\ next[m].deltas = t[m].deltas
  BY <1>1, <1>6 DEF MarketFields
<1>7. ASSUME m \in DOMAIN t, SparedAt(m, t[m])
      PROVE  SparedAt(m, next[m])
  BY <1>6, <1>7 DEF SparedAt
<1> QED
  BY <1>4, <1>5, <1>7, SMTT(40) DEF Spared

LEMMA AfterSpares ==
  ASSUME ShockInv, NEW related \in Seq(ShockMarkets), NEW score,
         NEW ms \in Shock!After(related, score)[Len(related)]
  PROVE  Spared(ms)
<1>0. Len(related) \in Nat
  OBVIOUS
<1> DEFINE After == Shock!After(related, score)
           G == {k \in Nat : k <= Len(related) => \A t \in After[k] : Spared(t)}
<1>1. \A n \in 0..Len(related) : After[n] = AfterOne(related, score, After, n)
  BY <1>0, AfterEquation
<1>2. 0 \in G
  <2>1. After[0] = {state.markets}
    <3>1. 0 \in 0..Len(related)
      BY <1>0
    <3>2. AfterOne(related, score, After, 0) = {state.markets}
      BY DEF AfterOne
    <3> HIDE DEF After
    <3> QED
      BY <1>1, <3>1, <3>2
  <2>2. Spared(state.markets)
    <3>1. ASSUME NEW m \in DOMAIN state.markets
          PROVE  SparedAt(m, state.markets[m])
      BY DEF ShockInv, WindowMatches, Fits, SparedAt
    <3> QED
      BY <3>1 DEF Spared
  <2> QED
    BY <2>1, <2>2
<1>3. ASSUME NEW k \in G
      PROVE  k + 1 \in G
  <2>1. k \in Nat /\ k + 1 \in Nat
    OBVIOUS
  <2>2. ASSUME k + 1 <= Len(related), NEW t \in After[k + 1]
        PROVE  Spared(t)
    <3>1. PICK n : n = k + 1
      OBVIOUS
    <3>2. n \in 0..Len(related) /\ n # 0 /\ n - 1 = k
      BY <1>0, <2>1, <2>2, <3>1
    <3>3. After[n] = UNION {Shock!Touch(u, related[n], score) : u \in After[n - 1]}
      BY <1>1, <3>2 DEF AfterOne
    <3>4. PICK u \in After[k] : t \in Shock!Touch(u, related[n], score)
      BY <2>2, <3>1, <3>2, <3>3
    <3>5. Spared(u)
      BY <2>1, <2>2, <1>0, <3>4
    <3> QED
      BY <3>4, <3>5, TouchSpares
  <2> HIDE DEF After
  <2> QED
    BY <2>1, <2>2
<1>4. Len(related) \in G
  <2> HIDE DEF G
  <2>1. G \in SUBSET Nat
    BY DEF G
  <2> QED
    BY <1>0, <1>2, <1>3, <2>1, NatSetInduction
<1> QED
  BY <1>4, <1>0

LEMMA SentimentKeeps ==
  ASSUME ShockInv, NEW related \in RelatedIds, NEW score, Shock!OnSentimentUpdate(related, score)
  PROVE  ShockInv'
<1>1. related \in Seq(ShockMarkets)
  BY DEF ShockInv, Shock!ShockConstants
<1>2. PICK ms \in Shock!After(related, score)[Len(related)] :
        /\ state' = [state EXCEPT !.markets = ms]
        /\ hist' = [m \in DOMAIN ms |-> IF ms[m].priced THEN hist[m] ELSE <<>>]
  BY DEF Shock!OnSentimentUpdate
<1>3. Spared(ms)
  BY <1>1, <1>2, AfterSpares
<1>4. DOMAIN state' = {"markets", "clock"} /\ state'.markets = ms
  BY <1>2 DEF ShockInv
<1>5. ASSUME NEW m \in DOMAIN ms
      PROVE  WindowMatches(ms[m], hist'[m])
  <2>1. CASE ms[m].priced
    <3>1. /\ m \in DOMAIN state.markets /\ state.markets[m].priced /\ hist'[m] = hist[m]
          /\ ms[m].last = state.markets[m].last /\ ms[m].deltas = state.markets[m].deltas
          /\ DOMAIN ms[m] = MarketFields /\ ms[m].priced = TRUE
      BY <1>2, <1>3, <2>1 DEF Spared, SparedAt
    <3>2. Fits(state.markets[m].priced, state.markets[m].last, state.markets[m].deltas, hist[m])
      BY <3>1 DEF ShockInv, WindowMatches
    <3>3. state.markets[m].priced = TRUE
      BY <3>1, <3>2 DEF Fits
    <3>4. Fits(ms[m].priced, ms[m].last, ms[m].deltas, hist'[m])
      BY <3>1, <3>2, <3>3
    <3> QED
      BY <3>1, <3>4 DEF WindowMatches
  <2>2. CASE ~ms[m].priced
    <3>1. /\ hist'[m] = <<>> /\ ms[m].deltas = <<>> /\ ms[m].last \in Int
          /\ DOMAIN ms[m] = MarketFields /\ ms[m].priced = FALSE
      BY <1>2, <1>3, <2>2 DEF Spared, SparedAt
    <3>2. Fits(FALSE, ms[m].last, <<>>, <<>>)
      BY <3>1 DEF Fits
    <3> QED
      BY <3>1, <3>2 DEF WindowMatches
  <2> QED
    BY <2>1, <2>2
<1> QED
  BY <1>2, <1>4, <1>5 DEF ShockInv

\* A sequence that grows by x, and one that drops its first for it.
LEMMA Grown ==
  ASSUME NEW s \in Seq(Int), NEW x \in Int
  PROVE  /\ Append(s, x) \in Seq(Int) /\ Len(Append(s, x)) = Len(s) + 1
         /\ Append(s, x)[Len(s) + 1] = x
         /\ \A i \in 1..Len(s) : Append(s, x)[i] = s[i]
OBVIOUS

LEMMA Slid ==
  ASSUME NEW s \in Seq(Int), s # <<>>, NEW x \in Int
  PROVE  /\ Append(Tail(s), x) \in Seq(Int) /\ Len(Append(Tail(s), x)) = Len(s)
         /\ Append(Tail(s), x)[Len(s)] = x
         /\ \A i \in 1..(Len(s) - 1) : Append(Tail(s), x)[i] = s[i + 1]
<1>1. /\ Tail(s) \in Seq(Int) /\ Len(Tail(s)) = Len(s) - 1 /\ Len(s) \in Nat /\ Len(s) >= 1
      /\ \A i \in 1..(Len(s) - 1) : Tail(s)[i] = s[i + 1]
  OBVIOUS
<1>2. PICK t \in Seq(Int) : t = Tail(s)
  BY <1>1
<1>3. Len(Append(t, x)) = Len(t) + 1 /\ Append(t, x)[Len(t) + 1] = x /\ Append(t, x) \in Seq(Int)
  BY Grown
<1>4. \A i \in 1..Len(t) : Append(t, x)[i] = t[i]
  BY Grown
<1> QED
  BY <1>1, <1>2, <1>3, <1>4

\* What is heard with one more price, and a window with one more move.
HeardToo(h, p) == Append(IF Len(h) > ShockWindow THEN Tail(h) ELSE h, p)

\* A window and a history that take in a price together still match, full or
\* not: the history is full one price later than the window.
LEMMA MovesTakePrice ==
  ASSUME NEW h \in Seq(Int), h # <<>>, NEW ds \in Seq(Int), Moves(ds, h), NEW p \in Int,
         ShockWindow \in Nat, ShockWindow >= 2
  PROVE  /\ HeardToo(h, p) \in Seq(Int) /\ HeardToo(h, p) # <<>>
         /\ HeardToo(h, p)[Len(HeardToo(h, p))] = p
         /\ Shock!Push(ds, p - h[Len(h)], ShockWindow) \in Seq(Int)
         /\ Moves(Shock!Push(ds, p - h[Len(h)], ShockWindow), HeardToo(h, p))
<1>1. PICK n \in Nat : n = Len(h)
  OBVIOUS
<1>2. n >= 1 /\ Len(ds) = n - 1 /\ h[n] \in Int
  BY <1>1 DEF Moves
<1>3. PICK d \in Int : d = p - h[n]
  BY <1>2
<1>4. PICK nh : nh = HeardToo(h, p)
  OBVIOUS
<1>5. PICK nds : nds = Shock!Push(ds, d, ShockWindow)
  OBVIOUS
<1>6. \A i \in 1..(n - 1) : ds[i] = h[i + 1] - h[i]
  BY <1>2 DEF Moves
<1>7. nh \in Seq(Int) /\ Len(nh) >= 1 /\ nh[Len(nh)] = p /\ nds \in Seq(Int) /\ Moves(nds, nh)
  <2>1. CASE n > ShockWindow
    <3>0. nh = Append(Tail(h), p)
      BY <1>1, <1>4, <2>1 DEF HeardToo
    <3>1. nds = Append(Tail(ds), d) /\ ds # <<>>
      <4>1. Len(ds) >= ShockWindow
        BY <1>2, <2>1
      <4>2. Shock!Push(ds, d, ShockWindow) = Append(Tail(ds), d)
        BY <4>1 DEF Shock!Push
      <4> QED
        BY <1>2, <1>5, <2>1, <4>2
    <3>2. nh \in Seq(Int) /\ Len(nh) = n /\ nh[n] = p /\ \A i \in 1..(n - 1) : nh[i] = h[i + 1]
      BY <1>1, <3>0, Slid
    <3>3. nds \in Seq(Int) /\ Len(nds) = n - 1 /\ nds[n - 1] = d /\ \A i \in 1..(n - 2) : nds[i] = ds[i + 1]
      BY <1>2, <3>1, Slid
    <3>4. ASSUME NEW i \in 1..(n - 1)
          PROVE  nds[i] = nh[i + 1] - nh[i]
      <4>1. CASE i = n - 1
        <5>1. nh[n - 1] = h[n] /\ i + 1 = n
          BY <1>2, <2>1, <3>2, <4>1
        <5> QED
          BY <1>3, <3>2, <3>3, <4>1, <5>1
      <4>2. CASE i # n - 1
        <5>1. PICK j \in 1..(n - 1) : j = i + 1
          BY <1>2, <4>2
        <5>2. i \in 1..(n - 2)
          BY <1>2, <4>2
        <5>3. nds[i] = ds[j]
          BY <3>3, <5>1, <5>2
        <5>4. nh[i] = h[j] /\ nh[j] = h[j + 1]
          BY <3>2, <5>1
        <5>5. ds[j] = h[j + 1] - h[j]
          BY <1>6, <5>1
        <5> QED
          BY <5>1, <5>3, <5>4, <5>5
      <4> QED
        BY <4>1, <4>2
    <3> QED
      BY <1>2, <3>2, <3>3, <3>4 DEF Moves
  <2>2. CASE ~(n > ShockWindow)
    <3>1. nh = Append(h, p) /\ nds = Append(ds, d)
      BY <1>1, <1>2, <1>4, <1>5, <2>2 DEF HeardToo, Shock!Push
    <3>2. nh \in Seq(Int) /\ Len(nh) = n + 1 /\ nh[n + 1] = p /\ \A i \in 1..n : nh[i] = h[i]
      BY <1>1, <3>1, Grown
    <3>3. nds \in Seq(Int) /\ Len(nds) = n /\ nds[n] = d /\ \A i \in 1..(n - 1) : nds[i] = ds[i]
      BY <1>2, <3>1, Grown
    <3>4. ASSUME NEW i \in 1..n
          PROVE  nds[i] = nh[i + 1] - nh[i]
      <4>1. CASE i = n
        BY <1>2, <1>3, <3>2, <3>3, <4>1
      <4>2. CASE i # n
        <5>1. i \in 1..(n - 1) /\ i + 1 \in 1..n
          BY <4>2
        <5>2. nds[i] = ds[i] /\ nh[i] = h[i] /\ nh[i + 1] = h[i + 1]
          BY <3>2, <3>3, <5>1
        <5> QED
          BY <1>6, <5>1, <5>2
      <4> QED
        BY <4>1, <4>2
    <3> QED
      BY <1>2, <3>2, <3>3, <3>4 DEF Moves
  <2> QED
    BY <2>1, <2>2
<1> QED
  BY <1>1, <1>3, <1>4, <1>5, <1>7

LEMMA MovesAreAll ==
  ASSUME NEW ds \in Seq(Int), NEW h, Moves(ds, h)
  PROVE  ds = [i \in 1..(Len(h) - 1) |-> h[i + 1] - h[i]]
<1>1. ds = [i \in 1..Len(ds) |-> ds[i]]
  OBVIOUS
<1> QED
  BY <1>1 DEF Moves

LEMMA WindowTakesPrice ==
  ASSUME ShockInv, NEW s, NEW h, WindowMatches(s, h), NEW p \in Int
  PROVE  WindowMatches(Shock!Observed(s, p), HeardToo(h, p))
<1>1. ShockWindow \in Nat /\ ShockWindow >= 2
  BY DEF ShockInv, Shock!ShockConstants
<1>2. /\ h \in Seq(Int) /\ s.deltas \in Seq(Int) /\ s.priced \in BOOLEAN /\ DOMAIN s = MarketFields
      /\ s.priced = (h # <<>>)
      /\ s.priced => s.last = h[Len(h)] /\ Moves(s.deltas, h)
      /\ ~s.priced => s.deltas = <<>>
  BY DEF WindowMatches, Fits
<1>3. PICK new : new = Shock!Observed(s, p)
  OBVIOUS
<1>4. /\ DOMAIN new = MarketFields /\ new.priced = TRUE /\ new.last = p
      /\ s.priced => new.deltas = Shock!Push(s.deltas, p - s.last, ShockWindow)
      /\ ~s.priced => new.deltas = s.deltas
  BY <1>2, <1>3 DEF Shock!Observed, Shock!PushDelta, MarketFields
<1>5. Fits(TRUE, p, new.deltas, HeardToo(h, p))
  <2>1. CASE s.priced
    <3>1. PICK nh : nh = HeardToo(h, p)
      OBVIOUS
    <3>2. PICK ds : ds = s.deltas
      OBVIOUS
    <3>3. h # <<>> /\ ds \in Seq(Int) /\ Moves(ds, h) /\ s.last = h[Len(h)]
      BY <1>2, <2>1, <3>2
    <3>4. PICK nds : nds = Shock!Push(ds, p - h[Len(h)], ShockWindow)
      OBVIOUS
    <3>5. nh \in Seq(Int) /\ nh # <<>> /\ nh[Len(nh)] = p /\ nds \in Seq(Int) /\ Moves(nds, nh)
      BY <1>1, <1>2, <3>1, <3>3, <3>4, MovesTakePrice
    <3>6. new.deltas = nds
      BY <1>4, <2>1, <3>2, <3>3, <3>4
    <3> QED
      BY <3>1, <3>5, <3>6 DEF Fits
  <2>2. CASE ~s.priced
    <3>1. h = <<>> /\ new.deltas = <<>>
      BY <1>2, <1>4, <2>2
    <3>2. HeardToo(<<>>, p) = <<p>>
      BY <1>1 DEF HeardToo
    <3>3. Fits(TRUE, p, <<>>, <<p>>)
      BY DEF Fits, Moves
    <3> QED
      BY <3>1, <3>2, <3>3
  <2> QED
    BY <1>2, <2>1, <2>2
<1> QED
  BY <1>3, <1>4, <1>5 DEF WindowMatches

LEMMA ShockPriceKeeps ==
  ASSUME ShockInv, NEW m \in ShockMarkets, NEW p \in ShockPrices, Shock!OnMarketUpdate(m, p)
  PROVE  ShockInv'
<1>0. p \in Int
  BY DEF ShockInv, Shock!ShockConstants
<1>1. CASE m \notin DOMAIN state.markets
  <2>1. PICK ms \in Shock!UpsertMarket(state.markets, m, Shock!MarketStateNew(p, state.clock)) :
          /\ state' = [state EXCEPT !.markets = ms]
          /\ hist' = Shock!Insert(Shock!RemoveAll(hist, (DOMAIN hist) \ DOMAIN ms), m, <<p>>)
    BY <1>1 DEF Shock!OnMarketUpdate
  <2>2. PICK new : new = Shock!MarketStateNew(p, state.clock)
    OBVIOUS
  <2>3. /\ m \in DOMAIN ms /\ ms[m] = new
        /\ \A k \in DOMAIN ms : k # m => k \in DOMAIN state.markets /\ ms[k] = state.markets[k]
    BY <2>1, <2>2, UpsertKeepsOthers
  <2>4. /\ DOMAIN new = MarketFields /\ new.priced = TRUE /\ new.last = p /\ new.deltas = <<>>
    BY <2>2 DEF Shock!MarketStateNew, MarketFields
  <2>5. DOMAIN state' = {"markets", "clock"} /\ state'.markets = ms
    BY <2>1 DEF ShockInv
  <2>6. DOMAIN hist = DOMAIN state.markets
    BY DEF ShockInv
  <2>7. /\ DOMAIN hist' = DOMAIN ms /\ hist'[m] = <<p>>
        /\ \A k \in DOMAIN ms : k # m => hist'[k] = hist[k]
    BY <2>1, <2>3, <2>6 DEF Shock!Insert, Shock!RemoveAll, Shock!Restrict
  <2>8. WindowMatches(new, <<p>>)
    <3>1. Fits(TRUE, p, <<>>, <<p>>)
      BY <1>0 DEF Fits, Moves
    <3> QED
      BY <2>4, <3>1 DEF WindowMatches
  <2>9. \A k \in DOMAIN ms : WindowMatches(ms[k], hist'[k])
    BY <2>3, <2>7, <2>8 DEF ShockInv
  <2> QED
    BY <2>5, <2>7, <2>9 DEF ShockInv
<1>2. CASE m \in DOMAIN state.markets
  <2>1. PICK s : s = state.markets[m]
    OBVIOUS
  <2>2. /\ state' = [state EXCEPT !.markets[m] = Shock!Observed(s, p)]
        /\ hist' = [hist EXCEPT ![m] = Append(IF Len(@) > ShockWindow THEN Tail(@) ELSE @, p)]
    BY <1>2, <2>1 DEF Shock!OnMarketUpdate
  <2>3. /\ DOMAIN state' = {"markets", "clock"}
        /\ state'.markets = [state.markets EXCEPT ![m] = Shock!Observed(s, p)]
    BY <2>2 DEF ShockInv
  <2>4. m \in DOMAIN hist /\ DOMAIN hist' = DOMAIN state'.markets
    BY <1>2, <2>2, <2>3 DEF ShockInv
  <2>5. WindowMatches(s, hist[m])
    BY <1>2, <2>1 DEF ShockInv
  <2>6. hist'[m] = HeardToo(hist[m], p)
    BY <2>2, <2>4 DEF HeardToo
  <2>7. WindowMatches(Shock!Observed(s, p), hist'[m])
    BY <1>0, <2>5, <2>6, WindowTakesPrice
  <2>8. ASSUME NEW k \in DOMAIN state'.markets
        PROVE  WindowMatches(state'.markets[k], hist'[k])
    <3>1. CASE k = m
      BY <1>2, <2>3, <2>7, <3>1
    <3>2. CASE k # m
      BY <2>2, <2>3, <2>8, <3>2 DEF ShockInv
    <3> QED
      BY <3>1, <3>2
  <2> QED
    BY <2>3, <2>4, <2>8 DEF ShockInv
<1> QED
  BY <1>1, <1>2

ShockPart == which = "shock" => ShockInv

\* The window of every market is the moves between the prices last received for
\* it, whatever sentiments introduced it, whichever markets were evicted for it
\* or it for them, and however long the window is.
THEOREM ShockWindowIsRecentMoves == Spec => []WindowIsRecentMoves
<1>1. Shock!Init => ShockInv
  <2> SUFFICES ASSUME Shock!Init PROVE ShockInv
    OBVIOUS
  <2>1. /\ state = [markets |-> Shock!EmptyMap, clock |-> 0] /\ hist = Shock!EmptyMap
        /\ DOMAIN Shock!EmptyMap = {}
    BY DEF Shock!Init, Shock!EmptyMap
  <2>2. Shock!ShockConstants
    BY StandaloneConstants
  <2> QED
    BY <2>1, <2>2 DEF ShockInv
<1>2. ShockInv /\ [Shock!Next]_(Shock!vars) => ShockInv'
  <2> SUFFICES ASSUME ShockInv, [Shock!Next]_(Shock!vars) PROVE ShockInv'
    OBVIOUS
  <2>1. CASE UNCHANGED Shock!vars
    BY <2>1 DEF Shock!vars, ShockInv
  <2>2. CASE Shock!Tick
    BY <2>2 DEF Shock!Tick, ShockInv
  <2> QED
    BY <2>1, <2>2, ShockPriceKeeps, SentimentKeeps DEF Shock!Next
<1>3. Init => ShockPart
  BY <1>1 DEF Init, ShockPart
<1>4. ShockPart /\ [Next]_vars => ShockPart'
  <2> SUFFICES ASSUME ShockPart, [Next]_vars, which' = "shock" PROVE ShockInv'
    BY DEF ShockPart
  <2>1. which = "shock" /\ [Shock!Next]_(Shock!vars)
    BY DEF Next, vars, Shock!vars
  <2> QED
    BY <1>2, <2>1 DEF ShockPart
<1>5. ShockPart => WindowIsRecentMoves
  <2> SUFFICES ASSUME ShockInv PROVE Shock!WindowIsRecentMoves
    BY DEF ShockPart, WindowIsRecentMoves
  <2>1. ASSUME NEW m \in DOMAIN state.markets
        PROVE  LET s == state.markets[m]
                   h == hist[m]
               IN /\ s.priced <=> h # <<>>
                  /\ s.priced => /\ s.last = h[Len(h)]
                                 /\ s.deltas = [i \in 1..(Len(h) - 1) |-> h[i + 1] - h[i]]
    <3>1. WindowMatches(state.markets[m], hist[m])
      BY <2>1 DEF ShockInv
    <3> QED
      BY <3>1, MovesAreAll DEF WindowMatches, Fits
  <2> QED
    BY <2>1 DEF Shock!WindowIsRecentMoves
<1> QED
  BY <1>3, <1>4, <1>5, PTL DEF Spec

----------------------------------------------------------------------------
(***************************************************************************)
(* temporal_agent.  The window of a market is the end of what was received *)
(* for it (EndsWith), so that what a price is judged by is the end before  *)
(* it (Past); the sums are integers, so that the signal has the sign of    *)
(* the trend and gains what the property says.                             *)
(***************************************************************************)

\* ds is the last of h, at most w of them.
EndsWith(h, ds, w) ==
  /\ h \in Seq(Int) /\ ds \in Seq(Int)
  /\ Len(ds) = Trend!MinOf(w, Len(h))
  /\ \A i \in 1..Len(ds) : ds[i] = h[Len(h) - Len(ds) + i]

\* The window before the last of h.
Past(h) ==
  LET k == Trend!MinOf(TrendWindow, Len(h) - 1)
  IN SubSeq(h, Len(h) - k, Len(h) - 1)

\* t is s with x at its end, and without its first a.
Shifted(s, t, a, x) ==
  /\ t \in Seq(Int) /\ Len(t) = Len(s) + 1 - a /\ t[Len(s) + 1 - a] = x
  /\ \A i \in 1..(Len(s) - a) : t[i] = s[i + a]

\* A window that takes in x, full or not.
LEMMA PushShifts ==
  ASSUME NEW s \in Seq(Int), NEW x \in Int, NEW w \in Nat, w >= 1, Len(s) <= w
  PROVE  \E a \in {0, 1} : (a = 1 <=> Len(s) = w) /\ Shifted(s, Trend!Push(s, x, w), a, x)
<1>1. PICK n \in Nat : n = Len(s)
  OBVIOUS
<1>2. CASE n = w
  <2>1. Trend!Push(s, x, w) = Append(Tail(s), x)
    <3>1. Len(s) >= w
      BY <1>1, <1>2
    <3> QED
      BY <3>1 DEF Trend!Push
  <2>2. s # <<>>
    <3>1. Len(s) # 0 /\ Len(<<>>) = 0
      BY <1>1, <1>2
    <3> QED
      BY <3>1, Zenon
  <2>3. Shifted(s, Append(Tail(s), x), 1, x)
    <3>1. PICK t : t = Append(Tail(s), x)
      OBVIOUS
    <3>2. t \in Seq(Int) /\ Len(t) = n /\ t[n] = x /\ \A i \in 1..(n - 1) : t[i] = s[i + 1]
      BY <1>1, <2>2, <3>1, Slid
    <3>3. n + 1 - 1 = n /\ Len(s) + 1 - 1 = n /\ Len(s) - 1 = n - 1
      BY <1>1
    <3> QED
      BY <3>1, <3>2, <3>3 DEF Shifted
  <2> QED
    BY <1>1, <1>2, <2>1, <2>3
<1>3. CASE n # w
  <2>1. Trend!Push(s, x, w) = Append(s, x)
    <3>1. ~(Len(s) >= w)
      BY <1>1, <1>3
    <3> QED
      BY <3>1 DEF Trend!Push
  <2>2. Shifted(s, Append(s, x), 0, x)
    BY <1>1, Grown DEF Shifted
  <2> QED
    BY <1>1, <1>3, <2>1, <2>2
<1> QED
  BY <1>2, <1>3

LEMMA SameSequence ==
  ASSUME NEW s \in Seq(Int), NEW t \in Seq(Int), Len(s) = Len(t), \A i \in 1..Len(s) : s[i] = t[i]
  PROVE  s = t
OBVIOUS

\* A history and its window take in a price together; the window before the
\* price is then the window there was.
LEMMA EndsTakePrice ==
  ASSUME Trend!TemporalConstants, NEW h, NEW ds, EndsWith(h, ds, TrendWindow), Len(h) <= MaxHist,
         NEW p \in Int
  PROVE  /\ EndsWith(Trend!Push(h, p, MaxHist), Trend!Push(ds, p, TrendWindow), TrendWindow)
         /\ Trend!Push(h, p, MaxHist) # <<>>
         /\ Len(Trend!Push(h, p, MaxHist)) <= MaxHist
         /\ Trend!Push(h, p, MaxHist)[Len(Trend!Push(h, p, MaxHist))] = p
         /\ Past(Trend!Push(h, p, MaxHist)) = ds
<1>1. PICK w \in Nat, M \in Nat : w = TrendWindow /\ M = MaxHist /\ w >= 2 /\ M > w
  BY DEF Trend!TemporalConstants
<1>2. PICK L \in Nat, D \in Nat : L = Len(h) /\ D = Len(ds)
  BY DEF EndsWith
<1>3. /\ L <= M /\ D = (IF w <= L THEN w ELSE L) /\ h \in Seq(Int) /\ ds \in Seq(Int)
      /\ \A i \in 1..D : ds[i] = h[L - D + i]
  BY <1>1, <1>2 DEF EndsWith, Trend!MinOf
<1>4. PICK nh : nh = Trend!Push(h, p, M)
  OBVIOUS
<1>5. PICK nd : nd = Trend!Push(ds, p, w)
  OBVIOUS
<1>6. PICK a \in {0, 1} : /\ a = 1 <=> L = M
                          /\ nh \in Seq(Int) /\ Len(nh) = L + 1 - a /\ nh[L + 1 - a] = p
                          /\ \A i \in 1..(L - a) : nh[i] = h[i + a]
  <2>1. h \in Seq(Int) /\ M >= 1 /\ Len(h) <= M
    BY <1>1, <1>2, <1>3
  <2>2. PICK a \in {0, 1} : (a = 1 <=> Len(h) = M) /\ Shifted(h, nh, a, p)
    BY <1>4, <2>1, PushShifts
  <2> QED
    BY <1>2, <2>2 DEF Shifted
<1>7. PICK b \in {0, 1} : /\ b = 1 <=> D = w
                          /\ nd \in Seq(Int) /\ Len(nd) = D + 1 - b /\ nd[D + 1 - b] = p
                          /\ \A i \in 1..(D - b) : nd[i] = ds[i + b]
  <2>1. ds \in Seq(Int) /\ w >= 1 /\ Len(ds) <= w
    BY <1>1, <1>2, <1>3
  <2>2. PICK b \in {0, 1} : (b = 1 <=> Len(ds) = w) /\ Shifted(ds, nd, b, p)
    BY <1>5, <2>1, PushShifts
  <2> QED
    BY <1>2, <2>2 DEF Shifted
<1>8. a = 1 => b = 1
  BY <1>1, <1>3, <1>6, <1>7
<1>9. D + 1 - b = (IF w <= L + 1 - a THEN w ELSE L + 1 - a)
  BY <1>1, <1>3, <1>6, <1>7, SMTT(40)
<1>10. ASSUME NEW i \in 1..(D + 1 - b)
       PROVE  nd[i] = nh[Len(nh) - Len(nd) + i]
  <2>1. CASE i = D + 1 - b
    <3>1. Len(nh) - Len(nd) + i = L + 1 - a
      BY <1>6, <1>7, <2>1
    <3> QED
      BY <1>6, <1>7, <2>1, <3>1
  <2>2. CASE i # D + 1 - b
    <3>1. i \in 1..(D - b) /\ i + b \in 1..D
      BY <1>7, <2>2
    <3>2. PICK j \in Int : j = L - D - a + b + i
      OBVIOUS
    <3>3. j = Len(nh) - Len(nd) + i
      BY <1>6, <1>7, <3>2
    <3>4. j \in 1..(L - a) /\ j + a = L - D + (i + b)
      <4>1. L - D >= 0 /\ i <= D - b /\ i >= 1 /\ b - a >= 0
        BY <1>3, <1>8, <3>1
      <4> QED
        BY <3>2, <4>1
    <3>5. nh[j] = h[j + a] /\ nd[i] = ds[i + b] /\ ds[i + b] = h[L - D + (i + b)]
      BY <1>3, <1>6, <1>7, <3>1, <3>4
    <3> QED
      BY <3>3, <3>4, <3>5
  <2> QED
    BY <2>1, <2>2
<1>11. EndsWith(nh, nd, w)
  BY <1>6, <1>7, <1>9, <1>10 DEF EndsWith, Trend!MinOf
<1>12. Past(nh) = ds
  <2>1. Trend!MinOf(w, Len(nh) - 1) = D
    BY <1>1, <1>3, <1>6 DEF Trend!MinOf
  <2>2. Past(nh) = SubSeq(nh, Len(nh) - D, Len(nh) - 1)
    BY <1>1, <2>1 DEF Past
  <2>3. PICK t : t = SubSeq(nh, Len(nh) - D, Len(nh) - 1)
    OBVIOUS
  <2>4. Len(nh) - D >= 1 /\ Len(nh) - 1 <= Len(nh)
    BY <1>1, <1>3, <1>6
  <2>5. /\ t \in Seq(Int) /\ Len(t) = D /\ \A i \in 1..D : t[i] = nh[Len(nh) - D + i - 1]
    BY <1>6, <2>3, <2>4, SMTT(40)
  <2>6. ASSUME NEW i \in 1..D
        PROVE  t[i] = ds[i]
    <3>1. PICK j \in Int : j = Len(nh) - D + i - 1
      BY <1>6
    <3>2. j \in 1..(L - a) /\ j + a = L - D + i
      BY <1>6, <2>4, <3>1
    <3>3. nh[j] = h[L - D + i]
      BY <1>6, <3>2
    <3> QED
      BY <1>3, <2>5, <3>1, <3>3
  <2>7. t = ds
    BY <1>2, <1>3, <2>5, <2>6, SameSequence
  <2> QED
    BY <2>2, <2>3, <2>7
<1> QED
  <2>1. nh # <<>> /\ nh[Len(nh)] = p /\ Len(nh) <= M
    BY <1>1, <1>2, <1>3, <1>6
  <2> QED
    BY <1>1, <1>4, <1>5, <1>11, <1>12, <2>1

\* The sum of a sequence of integers is an integer.
LEMMA TotalIsInt ==
  ASSUME NEW ds \in Seq(Int)
  PROVE  Trend!Total(ds) \in Int
<1>1. Trend!Total(ds) = SumFunctionOnSet(ds, DOMAIN ds)
  BY DEF Trend!Total, Trend!SumFunction, Trend!SumFunctionOnSet, Trend!FoldFunctionOnSet,
         Trend!MapThenFoldSet, SumFunctionOnSet, FoldFunctionOnSet, MapThenFoldSet
<1>2. IsFiniteSet(DOMAIN ds)
  <2>1. DOMAIN ds = 1..Len(ds) /\ Len(ds) \in Nat
    OBVIOUS
  <2> QED
    BY <2>1, FS_Interval
<1> QED
  BY <1>1, <1>2, SumType

Off(past, p) == Len(past) * p - Trend!Total(past)

Extra(past, p) ==
  Trend!MinOf(Trend!MaxOf(Len(past) * p + Off(past, p), Len(past) * Lo), Len(past) * Hi) - Len(past) * p

\* What the property says of a signal, given the price and the past of it.
Judges(sig, past, p) ==
  /\ Len(past) >= 2 /\ Len(past) >= MinHistory /\ p \in MinPrice..MaxPrice
  /\ Off(past, p) * Off(past, p) * (Len(past) - 1) >= TrendThreshold * TrendThreshold * Len(past) * Trend!Spread(past)
  /\ Trend!Spread(past) > 0
  /\ Trend!MaxOf(Extra(past, p), -Extra(past, p)) > Len(past) * Cost
  /\ sig.price = p /\ sig.over = Len(past) /\ sig.posterior = Len(past) * p + Extra(past, p)
  /\ sig.dir = "Buy" <=> Len(past) * p > Trend!Total(past)
  /\ p \in Lo..Hi => (sig.dir = "Buy" <=> Extra(past, p) > 0)
  /\ sig.size \in IF sig.dir = "Buy" /\ Extra(past, p) < 0 THEN {0} ELSE Trend!MinOf(1, Cap)..Cap

LEMMA TrendSizedWithinCap ==
  ASSUME NEW gain \in Int, gain > 0, NEW room \in Int, room > 0, NEW den \in Nat \ {0},
         NEW unit \in Nat, NEW cap \in Nat
  PROVE  Trend!Sized(gain, room, den, unit, cap) \in Trend!MinOf(1, cap)..cap
<1>1. PICK b \in Int : b = room * den
  OBVIOUS
<1>2. b > 0
  BY <1>1
<1>3. PICK a \in Int : a = gain * unit
  OBVIOUS
<1>4. PICK q \in Int : q = a \div b
  BY <1>2
<1>5. Trend!Sized(gain, room, den, unit, cap) = Trend!MinOf(cap, Trend!MaxOf(1, q))
  BY <1>1, <1>3, <1>4 DEF Trend!Sized
<1> QED
  BY <1>5 DEF Trend!MinOf, Trend!MaxOf

LEMMA ScaledOrder ==
  ASSUME NEW n \in Nat, NEW a \in Int, NEW b \in Int, a <= b
  PROVE  n * a <= n * b
<1>1. PICK d \in Nat : b = a + d
  <2>1. b - a \in Nat /\ b = a + (b - a)
    OBVIOUS
  <2> QED
    BY <2>1
<1>2. PICK na \in Int : na = n * a
  OBVIOUS
<1>3. PICK nd \in Nat : nd = n * d
  OBVIOUS
<1>4. n * b = na + nd
  BY <1>1, <1>2, <1>3
<1> QED
  BY <1>2, <1>4

LEMMA TrendSignals ==
  ASSUME Trend!TemporalConstants, NEW m, NEW past \in Seq(Int), Len(past) >= MinHistory, NEW p \in 0..Scale,
         NEW i \in DOMAIN Trend!TrySignal(m, past, p)
  PROVE  /\ Trend!TrySignal(m, past, p)[i].market = m
         /\ Judges(Trend!TrySignal(m, past, p)[i], past, p)
<1>0. p \in Int /\ Scale \in Nat
  BY DEF Trend!TemporalConstants
<1>1. PICK n \in Nat : n = Len(past)
  OBVIOUS
<1>2. PICK trend \in Int : trend = Off(past, p) /\ trend = n * p - Trend!Total(past)
  BY <1>0, <1>1, TotalIsInt DEF Off
<1>3. Trend!Deviation(past, p) = trend
  BY <1>1, <1>2 DEF Trend!Deviation
<1>4. PICK far \in Int : far = Trend!MinOf(Trend!MaxOf(n * p + trend, n * Lo), n * Hi)
  BY <1>0, <1>1, <1>2 DEF Trend!TemporalConstants, Trend!MinOf, Trend!MaxOf
<1>5. Trend!Clamp(n * p + trend, n * Lo, n * Hi) = far
  BY <1>4 DEF Trend!Clamp
<1>6. PICK extra \in Int : extra = far - n * p
  BY <1>0, <1>4
<1>7. Extra(past, p) = extra /\ far = n * p + extra
  BY <1>0, <1>1, <1>2, <1>4, <1>6 DEF Extra
<1>8. PICK dir : dir = IF trend > 0 THEN "Buy" ELSE "Sell"
  OBVIOUS
<1>9. PICK room \in Int : room = Trend!Room(dir, p, Scale)
  <2>1. Trend!Room(dir, p, Scale) \in {Scale - p, p}
    BY DEF Trend!Room
  <2>2. Scale - p \in Int
    BY <1>0
  <2> QED
    BY <1>0, <2>1, <2>2
<1>20. PICK edge : edge = IF dir = "Buy" THEN extra ELSE Trend!Magnitude(extra)
  OBVIOUS
<1>10. PICK sig : sig = [market |-> m, dir |-> dir, price |-> p, over |-> n, posterior |-> far,
                         size |-> Trend!Sized(edge, n * room, KellyDen, Unit, Cap)]
  OBVIOUS
<1>11. /\ Trend!TrySignal(m, past, p) = <<sig>>
       /\ p \in MinPrice..MaxPrice /\ n >= 2 /\ Trend!Spread(past) > 0 /\ Trend!Beyond(past, p, TrendThreshold)
       /\ Trend!Magnitude(extra) > n * Cost /\ room > 0
  <2>1. \/ Trend!TrySignal(m, past, p) = <<>>
        \/ /\ Trend!TrySignal(m, past, p) = <<sig>>
           /\ p \in MinPrice..MaxPrice /\ n >= 2 /\ Trend!Spread(past) > 0 /\ Trend!Beyond(past, p, TrendThreshold)
           /\ Trend!Magnitude(extra) > n * Cost /\ room > 0
    BY <1>1, <1>3, <1>5, <1>6, <1>8, <1>9, <1>10, <1>20, Zenon DEF Trend!TrySignal
  <2> QED
    BY <2>1
<1>12. Trend!Magnitude(extra) = Trend!MaxOf(extra, -extra) /\ Trend!Magnitude(extra) \in Int
  BY DEF Trend!Magnitude, Trend!MaxOf
<1>21. PICK costs \in Nat : costs = n * Cost
  BY DEF Trend!TemporalConstants
<1>22. sig.dir = dir /\ sig.size = Trend!Sized(edge, n * room, KellyDen, Unit, Cap)
  BY <1>10
<1>13. sig.size \in IF sig.dir = "Buy" /\ extra < 0 THEN {0} ELSE Trend!MinOf(1, Cap)..Cap
  <2>1. CASE dir = "Buy" /\ extra < 0
    <3>1. edge = extra
      BY <1>20, <2>1
    <3>2. sig.size = 0
      BY <1>22, <2>1, <3>1 DEF Trend!Sized
    <3> QED
      BY <1>22, <2>1, <3>2
  <2>2. CASE ~(dir = "Buy" /\ extra < 0)
    <3>1. PICK gain \in Int : gain = edge /\ gain > 0
      BY <1>11, <1>12, <1>20, <1>21, <2>2 DEF Trend!MaxOf
    <3>2. PICK space \in Int : space = n * room /\ space > 0
      BY <1>11
    <3>3. KellyDen \in Nat \ {0} /\ Unit \in Nat /\ Cap \in Nat
      BY DEF Trend!TemporalConstants
    <3>4. sig.size = Trend!Sized(gain, space, KellyDen, Unit, Cap)
      BY <1>22, <3>1, <3>2
    <3>5. sig.size \in Trend!MinOf(1, Cap)..Cap
      BY <3>1, <3>2, <3>3, <3>4, TrendSizedWithinCap
    <3> QED
      BY <1>22, <2>2, <3>5
  <2> QED
    BY <2>1, <2>2
<1>23. p \in Lo..Hi => (sig.dir = "Buy" <=> extra > 0)
  <2> SUFFICES ASSUME p \in Lo..Hi PROVE sig.dir = "Buy" <=> extra > 0
    OBVIOUS
  <2>1. Lo \in Int /\ Hi \in Int
    BY DEF Trend!TemporalConstants
  <2>2. PICK np \in Int, lo \in Int, hi \in Int : np = n * p /\ lo = n * Lo /\ hi = n * Hi
    BY <1>0, <2>1
  <2>3. lo <= np /\ np <= hi
    BY <1>0, <2>1, <2>2, ScaledOrder
  <2>4. far = Trend!MinOf(Trend!MaxOf(np + trend, lo), hi) /\ extra = far - np
    BY <1>4, <1>6, <2>2
  <2>5. extra # 0
    BY <1>11, <1>12, <1>21 DEF Trend!MaxOf
  <2>6. (trend > 0 => extra >= 0) /\ (trend <= 0 => extra <= 0)
    BY <2>3, <2>4 DEF Trend!MinOf, Trend!MaxOf
  <2>7. sig.dir = "Buy" <=> trend > 0
    BY <1>8, <1>22
  <2> QED
    BY <2>5, <2>6, <2>7
<1>14. sig.dir = "Buy" <=> n * p > Trend!Total(past)
  <2>1. PICK total \in Int : total = Trend!Total(past)
    BY TotalIsInt
  <2>2. PICK np \in Int : np = n * p
    BY <1>0
  <2>3. trend > 0 <=> np > total
    BY <1>2, <2>1, <2>2
  <2>4. sig.dir = "Buy" <=> trend > 0
    BY <1>8, <1>10
  <2> QED
    BY <2>1, <2>2, <2>3, <2>4
<1>15. Trend!TrySignal(m, past, p)[i] = sig
  BY <1>11
<1>16. sig.market = m /\ sig.price = p /\ sig.over = n /\ sig.posterior = n * p + extra
  BY <1>7, <1>10
<1>17. trend * trend * (n - 1) >= TrendThreshold * TrendThreshold * n * Trend!Spread(past)
  BY <1>1, <1>3, <1>11 DEF Trend!Beyond
<1>18. Judges(sig, past, p)
  BY <1>1, <1>2, <1>7, <1>11, <1>12, <1>13, <1>14, <1>16, <1>17, <1>23 DEF Judges
<1> QED
  BY <1>15, <1>16, <1>18

TrendInv ==
  /\ Trend!TemporalConstants
  /\ DOMAIN hist = DOMAIN state
  /\ \A m \in DOMAIN state : /\ EndsWith(hist[m], state[m], TrendWindow)
                             /\ hist[m] # <<>> /\ Len(hist[m]) <= MaxHist
  /\ \A i \in DOMAIN out :
       LET h == hist[out[i].market]
       IN out[i].market \in DOMAIN hist /\ Judges(out[i], Past(h), h[Len(h)])

LEMMA TrendKeeps ==
  ASSUME TrendInv, NEW m, NEW p, Trend!OnMarketUpdate(m, p)
  PROVE  TrendInv'
<1>1. CASE p \notin 0..Scale
  <2>1. out' = <<>> /\ state' = state /\ hist' = hist
    BY <1>1 DEF Trend!OnMarketUpdate
  <2> QED
    BY <2>1 DEF TrendInv
<1>2. CASE p \in 0..Scale
  <2>1. PICK ds : ds = Trend!GetOr(state, m, <<>>)
    OBVIOUS
  <2>2. PICK h : h = Trend!GetOr(hist, m, <<>>)
    OBVIOUS
  <2>3. PICK nh : nh = Trend!Push(h, p, MaxHist)
    OBVIOUS
  <2>4. PICK nd : nd = Trend!Push(ds, p, TrendWindow)
    OBVIOUS
  <2>5. /\ out' = IF Len(ds) >= MinHistory THEN Trend!TrySignal(m, ds, p) ELSE <<>>
        /\ state' = Trend!Insert(state, m, nd)
        /\ hist' = Trend!Insert(hist, m, nh)
    BY <1>2, <2>1, <2>2, <2>3, <2>4, Zenon DEF Trend!OnMarketUpdate, Trend!Judged
  <2>6. Trend!TemporalConstants /\ p \in Int /\ TrendWindow \in Nat /\ TrendWindow >= 2 /\ MaxHist \in Nat
    BY <1>2 DEF TrendInv, Trend!TemporalConstants
  <2>7. EndsWith(h, ds, TrendWindow) /\ Len(h) <= MaxHist
    <3>1. CASE m \in DOMAIN state
      BY <2>1, <2>2, <3>1 DEF TrendInv, Trend!GetOr
    <3>2. CASE m \notin DOMAIN state
      <4>1. h = <<>> /\ ds = <<>>
        BY <2>1, <2>2, <3>2 DEF TrendInv, Trend!GetOr
      <4>2. EndsWith(<<>>, <<>>, TrendWindow) /\ Len(<<>>) <= MaxHist
        BY <2>6 DEF EndsWith, Trend!MinOf
      <4> QED
        BY <4>1, <4>2
    <3> QED
      BY <3>1, <3>2
  <2>8. /\ EndsWith(nh, nd, TrendWindow) /\ nh # <<>> /\ Len(nh) <= MaxHist
        /\ nh[Len(nh)] = p /\ Past(nh) = ds
    BY <2>3, <2>4, <2>6, <2>7, EndsTakePrice
  <2>9. /\ DOMAIN state' = DOMAIN state \cup {m} /\ DOMAIN hist' = DOMAIN state \cup {m}
        /\ state'[m] = nd /\ hist'[m] = nh
        /\ \A k \in DOMAIN state : k # m => state'[k] = state[k] /\ hist'[k] = hist[k]
    BY <2>5 DEF TrendInv, Trend!Insert
  <2>10. ASSUME NEW k \in DOMAIN state'
         PROVE  EndsWith(hist'[k], state'[k], TrendWindow) /\ hist'[k] # <<>> /\ Len(hist'[k]) <= MaxHist
    <3>1. CASE k = m
      BY <2>8, <2>9, <3>1
    <3>2. CASE k # m
      <4>1. k \in DOMAIN state
        BY <2>9, <2>10, <3>2
      <4>2. EndsWith(hist[k], state[k], TrendWindow) /\ hist[k] # <<>> /\ Len(hist[k]) <= MaxHist
        BY <4>1 DEF TrendInv
      <4> QED
        BY <2>9, <3>2, <4>1, <4>2
    <3> QED
      BY <3>1, <3>2
  <2>11. ASSUME NEW i \in DOMAIN out'
         PROVE  /\ out'[i].market \in DOMAIN hist'
                /\ Judges(out'[i], Past(hist'[out'[i].market]), hist'[out'[i].market][Len(hist'[out'[i].market])])
    <3>1. out' = Trend!TrySignal(m, ds, p) /\ Len(ds) >= MinHistory
      BY <2>5, <2>11
    <3>2. ds \in Seq(Int)
      BY <2>7 DEF EndsWith
    <3>3. out'[i].market = m /\ Judges(out'[i], ds, p)
      BY <1>2, <2>6, <2>11, <3>1, <3>2, TrendSignals
    <3> QED
      BY <2>8, <2>9, <3>3
  <2> QED
    BY <2>6, <2>9, <2>10, <2>11 DEF TrendInv
<1> QED
  BY <1>1, <1>2

TrendPart == which = "trend" => TrendInv

\* A trend is published only against the prices received just before it, as
\* many as the window holds: for all lengths of the window, all thresholds and
\* all bounds, the signal has the sign of the trend and its extrapolation is
\* further off than the costs; it lies on the side that is traded when the price
\* is within the bounds, and a Buy whose extrapolation lies below it has size 0.
THEOREM TrendAgainstThePast == Spec => []TrendIsAgainstThePast
<1>1. Trend!Init => TrendInv
  <2> SUFFICES ASSUME Trend!Init PROVE TrendInv
    OBVIOUS
  <2>1. state = Trend!EmptyMap /\ hist = Trend!EmptyMap /\ out = <<>> /\ DOMAIN Trend!EmptyMap = {}
    BY DEF Trend!Init, Trend!EmptyMap
  <2>2. Trend!TemporalConstants
    BY StandaloneConstants
  <2> QED
    BY <2>1, <2>2 DEF TrendInv
<1>2. TrendInv /\ [Trend!Next]_(Trend!vars) => TrendInv'
  <2> SUFFICES ASSUME TrendInv, [Trend!Next]_(Trend!vars) PROVE TrendInv'
    OBVIOUS
  <2>1. CASE UNCHANGED Trend!vars
    BY <2>1 DEF Trend!vars, TrendInv
  <2> QED
    BY <2>1, TrendKeeps DEF Trend!Next
<1>3. Init => TrendPart
  BY <1>1 DEF Init, TrendPart
<1>4. TrendPart /\ [Next]_vars => TrendPart'
  <2> SUFFICES ASSUME TrendPart, [Next]_vars, which' = "trend" PROVE TrendInv'
    BY DEF TrendPart
  <2>1. which = "trend" /\ [Trend!Next]_(Trend!vars)
    BY DEF Next, vars, Trend!vars
  <2> QED
    BY <1>2, <2>1 DEF TrendPart
<1>5. TrendPart => TrendIsAgainstThePast
  <2> SUFFICES ASSUME TrendInv PROVE Trend!TrendIsAgainstThePast
    BY DEF TrendPart, TrendIsAgainstThePast
  <2>1. ASSUME NEW i \in DOMAIN out
        PROVE  LET sig == out[i]
                   h == hist[sig.market]
                   p == Trend!Last(h)
                   k == Trend!MinOf(TrendWindow, Len(h) - 1)
                   past == SubSeq(h, Len(h) - k, Len(h) - 1)
                   off == k * p - Trend!Total(past)
                   extra == Trend!MinOf(Trend!MaxOf(k * p + off, k * Lo), k * Hi) - k * p
               IN /\ sig.market \in DOMAIN hist
                  /\ k >= 2 /\ k >= MinHistory /\ p \in MinPrice..MaxPrice
                  /\ off * off * (k - 1) >= TrendThreshold * TrendThreshold * k * Trend!Spread(past)
                  /\ Trend!Spread(past) > 0
                  /\ Trend!MaxOf(extra, -extra) > k * Cost
                  /\ sig.price = p /\ sig.over = k /\ sig.posterior = k * p + extra
                  /\ sig.dir = "Buy" <=> k * p > Trend!Total(past)
                  /\ p \in Lo..Hi => (sig.dir = "Buy" <=> extra > 0)
                  /\ sig.size \in IF sig.dir = "Buy" /\ extra < 0 THEN {0} ELSE Trend!MinOf(1, Cap)..Cap
    <3>1. PICK h : h = hist[out[i].market]
      OBVIOUS
    <3>2. PICK p : p = h[Len(h)]
      OBVIOUS
    <3>3. Trend!Last(h) = p
      BY <3>2 DEF Trend!Last
    <3>4. PICK past : past = Past(h)
      OBVIOUS
    <3>5. PICK k : k = Trend!MinOf(TrendWindow, Len(h) - 1)
      OBVIOUS
    <3>6. past = SubSeq(h, Len(h) - k, Len(h) - 1)
      BY <3>4, <3>5 DEF Past
    <3>7. out[i].market \in DOMAIN hist /\ Judges(out[i], past, p)
      BY <2>1, <3>1, <3>2, <3>4 DEF TrendInv
    <3>8. k = Len(past)
      <4>1. h \in Seq(Int) /\ h # <<>> /\ TrendWindow \in Nat
        BY <3>1, <3>7 DEF TrendInv, EndsWith, Trend!TemporalConstants
      <4>2. k \in Nat /\ Len(h) - k >= 1 /\ Len(h) \in Nat
        BY <3>5, <4>1 DEF Trend!MinOf
      <4> QED
        BY <3>6, <4>1, <4>2
    <3>9. /\ k >= 2 /\ k >= MinHistory /\ p \in MinPrice..MaxPrice
          /\ Off(past, p) * Off(past, p) * (k - 1) >= TrendThreshold * TrendThreshold * k * Trend!Spread(past)
          /\ Trend!Spread(past) > 0
          /\ Trend!MaxOf(Extra(past, p), -Extra(past, p)) > k * Cost
          /\ out[i].price = p /\ out[i].over = k /\ out[i].posterior = k * p + Extra(past, p)
          /\ out[i].dir = "Buy" <=> k * p > Trend!Total(past)
          /\ p \in Lo..Hi => (out[i].dir = "Buy" <=> Extra(past, p) > 0)
          /\ out[i].size \in IF out[i].dir = "Buy" /\ Extra(past, p) < 0 THEN {0} ELSE Trend!MinOf(1, Cap)..Cap
      BY <3>7, <3>8, Zenon DEF Judges
    <3>10. /\ Off(past, p) = k * p - Trend!Total(past)
           /\ Extra(past, p) = Trend!MinOf(Trend!MaxOf(k * p + Off(past, p), k * Lo), k * Hi) - k * p
      BY <3>8, Zenon DEF Off, Extra
    <3> QED
      BY <3>1, <3>3, <3>5, <3>6, <3>7, <3>9, <3>10, ZenonT(60)
  <2> QED
    BY <2>1, ZenonT(60) DEF Trend!TrendIsAgainstThePast
<1> QED
  BY <1>3, <1>4, <1>5, PTL DEF Spec

----------------------------------------------------------------------------
(***************************************************************************)
(* graph_arb_agent.  A signal of one market is about an entry that stands  *)
(* until the step ends (OneLeg), for a GraphUpdate names a market once; a  *)
(* pair is about two snapshots (TwoLegs).  The last publication of a pair  *)
(* is known for as long as it matters (Remembers): what the timer forgets  *)
(* is more than two cooldowns old.                                         *)
(***************************************************************************)

LEMMA ArbSizedWithinCap ==
  ASSUME NEW gain \in Int, gain > 0, NEW room \in Int, room > 0, NEW den \in Nat \ {0},
         NEW unit \in Nat, NEW cap \in Nat
  PROVE  Arb!Sized(gain, room, den, unit, cap) \in Arb!MinOf(1, cap)..cap
<1>1. PICK b \in Int : b = room * den
  OBVIOUS
<1>2. b > 0
  BY <1>1
<1>3. PICK a \in Int : a = gain * unit
  OBVIOUS
<1>4. PICK q \in Int : q = a \div b
  BY <1>2
<1>5. Arb!Sized(gain, room, den, unit, cap) = Arb!MinOf(cap, Arb!MaxOf(1, q))
  BY <1>1, <1>3, <1>4 DEF Arb!Sized
<1> QED
  BY <1>5 DEF Arb!MinOf, Arb!MaxOf

Maybe(v) == v = <<>> \/ \E x \in Int : v = <<x>>

EntryOK(e) == e = [implied |-> e.implied, price |-> e.price] /\ Maybe(e.implied) /\ Maybe(e.price)

UpIfBuy(leg) == leg.dir = "Buy" <=> leg.posterior > leg.price

\* What the property says of a signal of one market, ms being the entries.
OneLeg(legs, ms) ==
  \E sig : /\ legs = <<sig>> /\ sig.market \in DOMAIN ms
           /\ ms[sig.market] = [implied |-> <<sig.posterior>>, price |-> <<sig.price>>]
           /\ UpIfBuy(sig) /\ sig.size \in Arb!MinOf(1, Cap)..Cap

\* What it says of a pair, snaps being the snapshots.
TwoLegs(legs, snaps) ==
  \E a, b : /\ legs = <<a, b>> /\ a.dir = "Buy" /\ b.dir = "Sell"
            /\ Platform[a.market] # Platform[b.market]
            /\ a.price = snaps[a.market] /\ b.price = snaps[b.market]
            /\ b.price - a.price > 2 * XCost
            /\ UpIfBuy(a) /\ UpIfBuy(b)
            /\ a.size \in Arb!MinOf(1, XCap)..XCap /\ b.size \in Arb!MinOf(1, XCap)..XCap

LEMMA OneLegIsRight ==
  ASSUME Arb!ArbConstants, NEW m, NEW entry, EntryOK(entry), NEW legs \in Arb!TrySignal(m, entry),
         NEW ms, m \in DOMAIN ms, ms[m] = entry
  PROVE  OneLeg(legs, ms) /\ legs[1].market = m
<1> DEFINE implied == entry.implied[1]
           price == entry.price[1]
           delta == implied - price
           dir == IF delta > 0 THEN "Buy" ELSE "Sell"
           sig == [market |-> m, dir |-> dir, price |-> price, posterior |-> implied,
                   size |-> Arb!Sized(Arb!Magnitude(delta), Arb!Room(dir, price, Scale), KellyDen, Unit, Cap)]
<1>1. /\ legs = <<sig>> /\ entry.implied # <<>> /\ entry.price # <<>>
      /\ Arb!Magnitude(delta) > Cost /\ Arb!Room(dir, price, Scale) > 0
  <2>1. \/ Arb!TrySignal(m, entry) = {}
        \/ /\ Arb!TrySignal(m, entry) = {<<sig>>} /\ entry.implied # <<>> /\ entry.price # <<>>
           /\ Arb!Magnitude(delta) > Cost /\ Arb!Room(dir, price, Scale) > 0
    BY Zenon DEF Arb!TrySignal
  <2> QED
    BY <2>1
<1>2. PICK x \in Int : entry.implied = <<x>>
  BY <1>1 DEF EntryOK, Maybe
<1>3. PICK y \in Int : entry.price = <<y>>
  BY <1>1 DEF EntryOK, Maybe
<1>4. implied = x /\ price = y /\ delta = x - y
  BY <1>2, <1>3
<1>5. entry = [implied |-> <<x>>, price |-> <<y>>]
  BY <1>2, <1>3 DEF EntryOK
<1>6. PICK d : d = dir
  OBVIOUS
<1>7. d = "Buy" <=> x > y
  BY <1>4, <1>6
<1>8. PICK gain \in Int : gain = Arb!Magnitude(delta)
  <2>1. \A z \in Int : Arb!Magnitude(z) \in Int
    BY DEF Arb!Magnitude
  <2>2. x - y \in Int
    OBVIOUS
  <2> QED
    BY <1>4, <2>1, <2>2
<1>9. PICK room \in Int : room = Arb!Room(dir, price, Scale)
  <2>1. Arb!Room(dir, price, Scale) \in {Scale - price, price}
    BY DEF Arb!Room
  <2>2. Scale - y \in Int
    BY DEF Arb!ArbConstants
  <2> QED
    BY <1>4, <2>1, <2>2
<1>10. gain > 0 /\ room > 0 /\ KellyDen \in Nat \ {0} /\ Unit \in Nat /\ Cap \in Nat
  BY <1>1, <1>8, <1>9 DEF Arb!ArbConstants
<1>11. PICK s : s = Arb!Sized(gain, room, KellyDen, Unit, Cap)
  OBVIOUS
<1>12. s \in Arb!MinOf(1, Cap)..Cap
  BY <1>10, <1>11, ArbSizedWithinCap
<1>13. sig = [market |-> m, dir |-> d, price |-> y, posterior |-> x, size |-> s]
  BY <1>4, <1>6, <1>8, <1>9, <1>11
<1> HIDE DEF sig
<1>14. /\ sig.market = m /\ sig.dir = d /\ sig.price = y /\ sig.posterior = x /\ sig.size = s
  BY <1>13
<1>15. UpIfBuy(sig) /\ ms[sig.market] = [implied |-> <<sig.posterior>>, price |-> <<sig.price>>]
  BY <1>5, <1>7, <1>14 DEF UpIfBuy
<1>16. OneLeg(legs, ms)
  BY <1>1, <1>12, <1>14, <1>15 DEF OneLeg
<1>17. legs[1] = sig
  BY <1>1
<1> QED
  BY <1>14, <1>16, <1>17

----------------------------------------------------------------------------
\* What n nodes have made: sound entries, and signals about the entries.
AccOK(acc, nodes, n) ==
  /\ \A k \in DOMAIN acc.markets : EntryOK(acc.markets[k])
  /\ \A legs \in acc.signals :
       OneLeg(legs, acc.markets) /\ \E j \in 1..n : legs[1].market = nodes[j].market

LEMMA NodeKeeps ==
  ASSUME Arb!ArbConstants, NEW nodes \in GraphUpdates, NEW n \in 1..Len(nodes),
         NEW acc, AccOK(acc, nodes, n - 1)
  PROVE  AccOK(Arb!OnNode(acc, nodes[n]), nodes, n)
<1>1. /\ nodes \in Seq([market : ArbMarkets, implied : Int])
      /\ \A i, j \in DOMAIN nodes : nodes[i].market = nodes[j].market => i = j
  BY DEF Arb!ArbConstants
<1>2. DOMAIN nodes = 1..Len(nodes) /\ Len(nodes) \in Nat
  BY <1>1
<1>3. PICK nu : nu = nodes[n]
  OBVIOUS
<1>4. nu.implied \in Int
  <2>1. nu \in [market : ArbMarkets, implied : Int]
    <3>1. PICK S : S = [market : ArbMarkets, implied : Int]
      OBVIOUS
    <3>2. nodes \in Seq(S) /\ n \in 1..Len(nodes)
      BY <1>1, <3>1
    <3>3. nodes[n] \in S
      BY <3>2
    <3> QED
      BY <1>3, <3>1, <3>3
  <2> QED
    BY <2>1
<1>5. CASE ~Arb!Valid(nu.implied)
  <2>1. Arb!OnNode(acc, nu) = acc
    BY <1>5 DEF Arb!OnNode
  <2>2. ASSUME NEW legs \in acc.signals
        PROVE  \E j \in 1..n : legs[1].market = nodes[j].market
    <3>1. PICK j \in 1..(n - 1) : legs[1].market = nodes[j].market
      BY DEF AccOK
    <3>2. j \in 1..n
      BY <1>2
    <3> QED
      BY <3>1, <3>2
  <2> QED
    BY <1>3, <2>1, <2>2 DEF AccOK
<1>6. CASE Arb!Valid(nu.implied)
  <2>1. PICK old : old = Arb!GetOr(acc.markets, nu.market, Arb!Unknown)
    OBVIOUS
  <2>2. EntryOK(old)
    <3>1. CASE nu.market \in DOMAIN acc.markets
      BY <2>1, <3>1 DEF AccOK, Arb!GetOr
    <3>2. CASE nu.market \notin DOMAIN acc.markets
      BY <2>1, <3>2 DEF Arb!GetOr, Arb!Unknown, EntryOK, Maybe
    <3> QED
      BY <3>1, <3>2
  <2>3. PICK entry : entry = [old EXCEPT !.implied = <<nu.implied>>]
    OBVIOUS
  <2>4. EntryOK(entry)
    BY <1>4, <2>2, <2>3 DEF EntryOK, Maybe
  <2>5. PICK ms : ms = Arb!Insert(acc.markets, nu.market, entry)
    OBVIOUS
  <2>6. PICK next : next = Arb!OnNode(acc, nu)
    OBVIOUS
  <2>7. next = [markets |-> ms, signals |-> acc.signals \cup Arb!TrySignal(nu.market, entry)]
    BY <1>6, <2>1, <2>3, <2>5, <2>6, Zenon DEF Arb!OnNode
  <2>8. next.markets = ms /\ next.signals = acc.signals \cup Arb!TrySignal(nu.market, entry)
    BY <2>7
  <2>9. /\ DOMAIN ms = DOMAIN acc.markets \cup {nu.market} /\ ms[nu.market] = entry
        /\ \A k \in DOMAIN acc.markets : k # nu.market => ms[k] = acc.markets[k]
    BY <2>5 DEF Arb!Insert
  <2>10. \A k \in DOMAIN ms : EntryOK(ms[k])
    BY <2>4, <2>9 DEF AccOK
  <2>11. ASSUME NEW legs \in acc.signals
         PROVE  OneLeg(legs, ms) /\ \E j \in 1..n : legs[1].market = nodes[j].market
    <3>1. PICK j \in 1..(n - 1) : legs[1].market = nodes[j].market
      BY DEF AccOK
    <3>2. j \in 1..n /\ j \in DOMAIN nodes /\ n \in DOMAIN nodes /\ j # n
      BY <1>2
    <3>3. legs[1].market # nu.market
      BY <1>1, <1>3, <3>1, <3>2
    <3>4. PICK sig : /\ legs = <<sig>> /\ sig.market \in DOMAIN acc.markets
                     /\ acc.markets[sig.market] = [implied |-> <<sig.posterior>>, price |-> <<sig.price>>]
                     /\ UpIfBuy(sig) /\ sig.size \in Arb!MinOf(1, Cap)..Cap
      BY DEF AccOK, OneLeg
    <3>5. legs[1] = sig
      BY <3>4
    <3>6. ms[sig.market] = acc.markets[sig.market]
      BY <2>9, <3>3, <3>4, <3>5
    <3>7. OneLeg(legs, ms)
      BY <2>9, <3>4, <3>6 DEF OneLeg
    <3> QED
      BY <3>1, <3>2, <3>7
  <2>12. ASSUME NEW legs \in Arb!TrySignal(nu.market, entry)
         PROVE  OneLeg(legs, ms) /\ \E j \in 1..n : legs[1].market = nodes[j].market
    <3>1. OneLeg(legs, ms) /\ legs[1].market = nu.market
      BY <2>4, <2>9, OneLegIsRight
    <3>2. n \in 1..n
      BY <1>2
    <3> QED
      BY <1>3, <3>1, <3>2
  <2>13. AccOK(next, nodes, n)
    BY <2>8, <2>10, <2>11, <2>12 DEF AccOK
  <2> QED
    BY <1>3, <2>6, <2>13
<1> QED
  BY <1>5, <1>6

\* The recursive function exists, so it satisfies its equation.
AfterNode(nodes, g, n) ==
  IF n = 0 THEN [markets |-> state.markets, signals |-> {}] ELSE Arb!OnNode(g[n - 1], nodes[n])

LEMMA NodesEquation ==
  ASSUME NEW nodes, Len(nodes) \in Nat
  PROVE  \A n \in 0..Len(nodes) : Arb!AfterNodes(nodes)[n] = AfterNode(nodes, Arb!AfterNodes(nodes), n)
<1> DEFINE G == {k \in Nat : \E g : g = [n \in 0..k |-> AfterNode(nodes, g, n)]}
<1>1. 0 \in G
  <2>1. PICK g : g = [n \in 0..0 |-> [markets |-> state.markets, signals |-> {}]]
    OBVIOUS
  <2>2. g = [n \in 0..0 |-> AfterNode(nodes, g, n)]
    BY <2>1 DEF AfterNode
  <2> QED
    BY <2>2
<1>2. ASSUME NEW k \in G
      PROVE  k + 1 \in G
  <2>1. PICK g : g = [n \in 0..k |-> AfterNode(nodes, g, n)]
    OBVIOUS
  <2>2. PICK h : h = [n \in 0..(k + 1) |-> AfterNode(nodes, g, n)]
    OBVIOUS
  <2>3. k \in Nat
    OBVIOUS
  <2>4. \A n \in 0..k : h[n] = g[n]
    BY <2>1, <2>2, <2>3
  <2>5. ASSUME NEW n \in 0..(k + 1)
        PROVE  AfterNode(nodes, g, n) = AfterNode(nodes, h, n)
    <3>1. n = 0 \/ n - 1 \in 0..k
      BY <2>3
    <3>2. n # 0 => g[n - 1] = h[n - 1]
      BY <2>4, <3>1
    <3> QED
      BY <3>2 DEF AfterNode
  <2>6. h = [n \in 0..(k + 1) |-> AfterNode(nodes, h, n)]
    BY <2>2, <2>5, Zenon
  <2>7. k + 1 \in Nat
    BY <2>3
  <2> QED
    BY <2>6, <2>7, Zenon
<1>3. Len(nodes) \in G
  <2> HIDE DEF G
  <2>1. G \in SUBSET Nat
    BY DEF G
  <2> QED
    BY <1>1, <1>2, <2>1, NatSetInduction
<1>4. PICK g : g = [n \in 0..Len(nodes) |-> AfterNode(nodes, g, n)]
  BY <1>3
<1>5. Arb!AfterNodes(nodes) = [n \in 0..Len(nodes) |-> AfterNode(nodes, Arb!AfterNodes(nodes), n)]
  BY <1>4 DEF Arb!AfterNodes, AfterNode
<1> QED
  BY <1>5

LEMMA NodesKeep ==
  ASSUME Arb!ArbConstants, NEW nodes \in GraphUpdates,
         \A k \in DOMAIN state.markets : EntryOK(state.markets[k])
  PROVE  AccOK(Arb!AfterNodes(nodes)[Len(nodes)], nodes, Len(nodes))
<1>0. Len(nodes) \in Nat
  <2>1. nodes \in Seq([market : ArbMarkets, implied : Int])
    BY DEF Arb!ArbConstants
  <2> QED
    BY <2>1
<1> DEFINE After == Arb!AfterNodes(nodes)
           G == {k \in Nat : k <= Len(nodes) => AccOK(After[k], nodes, k)}
<1>1. \A n \in 0..Len(nodes) : After[n] = AfterNode(nodes, After, n)
  BY <1>0, NodesEquation
<1> HIDE DEF After
<1>2. 0 \in G
  <2>1. 0 \in 0..Len(nodes)
    BY <1>0
  <2>2. After[0] = [markets |-> state.markets, signals |-> {}]
    BY <1>1, <2>1 DEF AfterNode
  <2>3. AccOK([markets |-> state.markets, signals |-> {}], nodes, 0)
    BY DEF AccOK
  <2> QED
    BY <2>2, <2>3
<1>3. ASSUME NEW k \in G
      PROVE  k + 1 \in G
  <2>1. k \in Nat /\ k + 1 \in Nat
    OBVIOUS
  <2>2. ASSUME k + 1 <= Len(nodes)
        PROVE  AccOK(After[k + 1], nodes, k + 1)
    <3>1. PICK n : n = k + 1
      OBVIOUS
    <3>2. n \in 1..Len(nodes) /\ n \in 0..Len(nodes) /\ n # 0 /\ n - 1 = k
      BY <1>0, <2>1, <2>2, <3>1
    <3>3. After[n] = Arb!OnNode(After[k], nodes[n])
      BY <1>1, <3>2 DEF AfterNode
    <3>4. AccOK(After[k], nodes, n - 1)
      BY <1>0, <2>1, <2>2, <3>2
    <3> QED
      BY <3>1, <3>2, <3>3, <3>4, NodeKeeps
  <2> QED
    BY <2>1, <2>2
<1>4. Len(nodes) \in G
  <2> HIDE DEF G
  <2>1. G \in SUBSET Nat
    BY DEF G
  <2> QED
    BY <1>0, <1>2, <1>3, <2>1, NatSetInduction
<1> QED
  BY <1>4, <1>0 DEF After

----------------------------------------------------------------------------
\* The pair e was published at most when the agent remembers it was, or long
\* enough ago.
Remembers(e, last, clock) ==
  \A x, y \in Int :
    x <= y /\ e.pair = {x, y} =>
      \/ <<x, y>> \in DOMAIN last /\ last[<<x, y>>] >= e.at
      \/ clock - e.at > 2 * Cooldown

Rare(published) == \A e, f \in published : e.pair = f.pair /\ e.at < f.at => f.at - e.at >= Cooldown

ArbBooks ==
  /\ state.clock \in Nat
  /\ \A k \in DOMAIN state.last : state.last[k] \in Nat /\ state.last[k] <= state.clock
  /\ \A e \in hist : e.at \in Nat /\ e.at <= state.clock /\ Remembers(e, state.last, state.clock)
  /\ Rare(hist)

ArbTyped ==
  /\ DOMAIN state = {"markets", "snapshots", "last", "seen", "clock"}
  /\ \A k \in DOMAIN state.markets : EntryOK(state.markets[k])
  /\ DOMAIN state.snapshots \subseteq ArbMarkets
  /\ \A k \in DOMAIN state.snapshots : state.snapshots[k] \in Int

LegsRight == \A legs \in out : OneLeg(legs, state.markets) \/ TwoLegs(legs, state.snapshots)

ArbInv == Arb!ArbConstants /\ ArbTyped /\ ArbBooks /\ LegsRight

LEMMA GraphUpdateKeeps ==
  ASSUME ArbInv, NEW nodes \in GraphUpdates, Arb!OnGraphUpdate(nodes)
  PROVE  ArbInv'
<1>1. PICK end : end = Arb!AfterNodes(nodes)[Len(nodes)]
  OBVIOUS
<1>2. state' = [state EXCEPT !.markets = end.markets] /\ out' = end.signals /\ hist' = hist
  BY <1>1 DEF Arb!OnGraphUpdate
<1>3. AccOK(end, nodes, Len(nodes))
  BY <1>1, NodesKeep DEF ArbInv, ArbTyped
<1>4. /\ DOMAIN state' = DOMAIN state /\ state'.markets = end.markets /\ state'.snapshots = state.snapshots
      /\ state'.last = state.last /\ state'.clock = state.clock
  BY <1>2 DEF ArbInv, ArbTyped
<1>5. ArbTyped'
  BY <1>3, <1>4 DEF ArbInv, ArbTyped, AccOK
<1>6. ArbBooks'
  BY <1>2, <1>4 DEF ArbInv, ArbBooks
<1>7. LegsRight'
  BY <1>2, <1>3, <1>4 DEF LegsRight, AccOK
<1> QED
  BY <1>5, <1>6, <1>7 DEF ArbInv

LEMMA PriceUpdateKeeps ==
  ASSUME ArbInv, NEW m \in ArbMarkets, NEW p \in ArbPrices, Arb!OnMarketUpdate(m, p)
  PROVE  ArbInv'
<1>1. PICK old : old = Arb!GetOr(state.markets, m, Arb!Unknown)
  OBVIOUS
<1>2. PICK entry : entry = [old EXCEPT !.price = <<p>>]
  OBVIOUS
<1>3. EntryOK(old)
  <2>1. CASE m \in DOMAIN state.markets
    BY <1>1, <2>1 DEF ArbInv, ArbTyped, Arb!GetOr
  <2>2. CASE m \notin DOMAIN state.markets
    BY <1>1, <2>2 DEF Arb!GetOr, Arb!Unknown, EntryOK, Maybe
  <2> QED
    BY <2>1, <2>2
<1>4. EntryOK(entry)
  BY <1>2, <1>3 DEF ArbInv, Arb!ArbConstants, EntryOK, Maybe
<1>5. PICK ms : ms = Arb!Insert(state.markets, m, entry)
  OBVIOUS
<1>6. /\ DOMAIN ms = DOMAIN state.markets \cup {m} /\ ms[m] = entry
      /\ \A k \in DOMAIN state.markets : k # m => ms[k] = state.markets[k]
  BY <1>5 DEF Arb!Insert
<1>7. /\ DOMAIN state' = DOMAIN state /\ state'.snapshots = state.snapshots /\ state'.last = state.last
      /\ state'.clock = state.clock /\ hist' = hist
      /\ \/ state'.markets = state.markets /\ out' = {}
         \/ state'.markets = ms /\ out' = Arb!TrySignal(m, entry)
  <2>1. DOMAIN state = {"markets", "snapshots", "last", "seen", "clock"}
    BY DEF ArbInv, ArbTyped
  <2>2. PICK heard : heard = [state EXCEPT !.seen = @ \cup {m}]
    OBVIOUS
  <2>3. /\ DOMAIN heard = DOMAIN state /\ heard.snapshots = state.snapshots /\ heard.last = state.last
        /\ heard.clock = state.clock /\ heard.markets = state.markets
    BY <2>1, <2>2
  <2>4. /\ hist' = hist
        /\ \/ state' = heard /\ out' = {}
           \/ state' = [heard EXCEPT !.markets = Arb!Insert(@, m, entry)] /\ out' = Arb!TrySignal(m, entry)
    BY <1>1, <1>2, <2>2, Zenon DEF Arb!OnMarketUpdate
  <2>5. CASE state' = heard /\ out' = {}
    BY <2>3, <2>4, <2>5
  <2>6. CASE state' = [heard EXCEPT !.markets = Arb!Insert(@, m, entry)] /\ out' = Arb!TrySignal(m, entry)
    BY <1>5, <2>1, <2>3, <2>4, <2>6
  <2> QED
    BY <2>4, <2>5, <2>6
<1>8. ArbTyped'
  BY <1>4, <1>6, <1>7 DEF ArbInv, ArbTyped
<1>9. ArbBooks'
  BY <1>7 DEF ArbInv, ArbBooks
<1>10. LegsRight'
  <2>1. ASSUME NEW legs \in out'
        PROVE  OneLeg(legs, state'.markets)
    <3>1. legs \in Arb!TrySignal(m, entry) /\ state'.markets = ms
      BY <1>7
    <3>2. m \in DOMAIN ms /\ ms[m] = entry /\ Arb!ArbConstants
      BY <1>6 DEF ArbInv
    <3> QED
      BY <1>4, <3>1, <3>2, OneLegIsRight
  <2> QED
    BY <2>1 DEF LegsRight
<1>11. Arb!ArbConstants
  BY DEF ArbInv
<1> QED
  BY <1>8, <1>9, <1>10, <1>11 DEF ArbInv

----------------------------------------------------------------------------
\* The pairs of a market are of two platforms, and their key is sorted.
LEMMA PairsOfTwo ==
  ASSUME ArbInv, NEW m \in ArbMarkets, NEW snaps, m \in DOMAIN snaps, DOMAIN snaps \subseteq ArbMarkets,
         NEW pair \in Arb!FindPairsFor(m, snaps)
  PROVE  /\ pair.cheap \in DOMAIN snaps /\ pair.dear \in DOMAIN snaps
         /\ pair.cheap \in Int /\ pair.dear \in Int
         /\ Platform[pair.cheap] # Platform[pair.dear]
<1>1. ArbMarkets \subseteq Int
  BY DEF ArbInv, Arb!ArbConstants
<1>2. PICK k \in DOMAIN snaps :
        Platform[k] # Platform[m] /\ (pair = [cheap |-> m, dear |-> k] \/ pair = [cheap |-> k, dear |-> m])
  BY DEF Arb!FindPairsFor
<1> QED
  BY <1>1, <1>2

LEMMA KeyIsSorted ==
  ASSUME NEW a \in Int, NEW b \in Int, NEW pair, pair.cheap = a, pair.dear = b
  PROVE  \E x, y \in Int : x <= y /\ {a, b} = {x, y} /\ Arb!CooldownKey(pair) = <<x, y>>
<1>1. CASE a <= b
  <2>1. Arb!MinOf(a, b) = a /\ Arb!MaxOf(a, b) = b
    BY <1>1 DEF Arb!MinOf, Arb!MaxOf
  <2> QED
    BY <1>1, <2>1 DEF Arb!CooldownKey
<1>2. CASE ~(a <= b)
  <2>1. Arb!MinOf(a, b) = b /\ Arb!MaxOf(a, b) = a /\ b <= a
    BY <1>2 DEF Arb!MinOf, Arb!MaxOf
  <2>2. Arb!CooldownKey(pair) = <<b, a>> /\ {a, b} = {b, a}
    BY <2>1 DEF Arb!CooldownKey
  <2> QED
    BY <2>1, <2>2, Zenon
<1> QED
  BY <1>1, <1>2

LEMMA SortedPairsAgree ==
  ASSUME NEW x \in Int, NEW y \in Int, x <= y, NEW u \in Int, NEW v \in Int, u <= v, {x, y} = {u, v}
  PROVE  x = u /\ y = v
OBVIOUS

\* The legs of a pair are right, and its cooldown is over.
LEMMA PairIsRight ==
  ASSUME ArbInv, NEW snaps, NEW pair, NEW s, s.snapshots = snaps,
         snaps[pair.cheap] \in Int, snaps[pair.dear] \in Int, Platform[pair.cheap] # Platform[pair.dear],
         NEW legs \in Arb!TryXPlatformSignals(pair, s)
  PROVE  /\ TwoLegs(legs, snaps)
         /\ Arb!CooldownKey(pair) \in DOMAIN s.last => ~(s.clock - s.last[Arb!CooldownKey(pair)] < Cooldown)
<1>1. PICK cheap \in Int : cheap = snaps[pair.cheap]
  OBVIOUS
<1>2. PICK dear \in Int : dear = snaps[pair.dear]
  OBVIOUS
<1>3. PICK key : key = Arb!CooldownKey(pair)
  OBVIOUS
<1>4. PICK a : a = [market |-> pair.cheap, dir |-> "Buy", price |-> cheap, posterior |-> dear,
                    size |-> Arb!Sized(dear - cheap, 2 * (Scale - cheap), KellyDen, Unit, XCap)]
  OBVIOUS
<1>5. PICK b : b = [market |-> pair.dear, dir |-> "Sell", price |-> dear, posterior |-> cheap,
                    size |-> Arb!Sized(dear - cheap, 2 * dear, KellyDen, Unit, XCap)]
  OBVIOUS
<1>6. /\ legs = <<a, b>>
      /\ ~(key \in DOMAIN s.last /\ s.clock - s.last[key] < Cooldown)
      /\ ~(dear - cheap <= 2 * XCost) /\ ~(cheap < MinPrice) /\ ~(dear > MaxPrice)
      /\ cheap # Scale /\ dear # 0
  <2>1. \/ Arb!TryXPlatformSignals(pair, s) = {}
        \/ /\ Arb!TryXPlatformSignals(pair, s) = {<<a, b>>}
           /\ ~(key \in DOMAIN s.last /\ s.clock - s.last[key] < Cooldown)
           /\ ~(dear - cheap <= 2 * XCost) /\ ~(cheap < MinPrice) /\ ~(dear > MaxPrice)
           /\ cheap # Scale /\ dear # 0
    BY <1>1, <1>2, <1>3, <1>4, <1>5, ZenonT(60) DEF Arb!TryXPlatformSignals
  <2> QED
    BY <2>1
<1>7. /\ Scale \in Nat /\ MinPrice \in Nat /\ MaxPrice \in 0..Scale /\ XCost \in Nat
      /\ KellyDen \in Nat \ {0} /\ Unit \in Nat /\ XCap \in Nat
  BY DEF ArbInv, Arb!ArbConstants
<1>8. PICK gain \in Int : gain = dear - cheap /\ gain > 0 /\ gain > 2 * XCost
  BY <1>6, <1>7
<1>9. PICK room1 \in Int : room1 = 2 * (Scale - cheap) /\ room1 > 0
  BY <1>6, <1>7, <1>8
<1>10. PICK room2 \in Int : room2 = 2 * dear /\ room2 > 0
  BY <1>6, <1>7, <1>8
<1>11. a.size = Arb!Sized(gain, room1, KellyDen, Unit, XCap) /\ b.size = Arb!Sized(gain, room2, KellyDen, Unit, XCap)
  BY <1>4, <1>5, <1>8, <1>9, <1>10
<1>12. a.size \in Arb!MinOf(1, XCap)..XCap /\ b.size \in Arb!MinOf(1, XCap)..XCap
  <2>1. Arb!Sized(gain, room1, KellyDen, Unit, XCap) \in Arb!MinOf(1, XCap)..XCap
    <3>1. gain > 0 /\ room1 > 0 /\ KellyDen \in Nat \ {0} /\ Unit \in Nat /\ XCap \in Nat
      BY <1>7, <1>8, <1>9
    <3> QED
      BY <3>1, ArbSizedWithinCap
  <2>2. Arb!Sized(gain, room2, KellyDen, Unit, XCap) \in Arb!MinOf(1, XCap)..XCap
    <3>1. gain > 0 /\ room2 > 0 /\ KellyDen \in Nat \ {0} /\ Unit \in Nat /\ XCap \in Nat
      BY <1>7, <1>8, <1>10
    <3> QED
      BY <3>1, ArbSizedWithinCap
  <2> QED
    BY <1>11, <2>1, <2>2
<1>13. /\ a.market = pair.cheap /\ a.dir = "Buy" /\ a.price = cheap /\ a.posterior = dear
       /\ b.market = pair.dear /\ b.dir = "Sell" /\ b.price = dear /\ b.posterior = cheap
  BY <1>4, <1>5
<1>14. UpIfBuy(a) /\ UpIfBuy(b)
  BY <1>8, <1>13 DEF UpIfBuy
<1>15. TwoLegs(legs, snaps)
  BY <1>1, <1>2, <1>6, <1>8, <1>12, <1>13, <1>14 DEF TwoLegs
<1> QED
  BY <1>3, <1>6, <1>15

LEMMA SnapshotKeeps ==
  ASSUME ArbInv, NEW m \in ArbMarkets, NEW p \in ArbPrices, Arb!OnMarketSnapshot(m, p)
  PROVE  ArbInv'
<1>1. DOMAIN state = {"markets", "snapshots", "last", "seen", "clock"}
  BY DEF ArbInv, ArbTyped
<1> DEFINE heard == [state EXCEPT !.seen = @ \cup {m}]
           known == [heard EXCEPT !.snapshots = Arb!Insert(@, m, p)]
<1>3. /\ DOMAIN heard = DOMAIN state /\ heard.snapshots = state.snapshots /\ heard.last = state.last
      /\ heard.clock = state.clock /\ heard.markets = state.markets
  BY <1>1
<1>4. PICK snaps : snaps = Arb!Insert(state.snapshots, m, p)
  OBVIOUS
<1>6. /\ DOMAIN known = DOMAIN state /\ known.snapshots = snaps /\ known.last = state.last
      /\ known.clock = state.clock /\ known.markets = state.markets
  BY <1>1, <1>3, <1>4
<1>7. /\ DOMAIN snaps = DOMAIN state.snapshots \cup {m} /\ snaps[m] = p
      /\ \A k \in DOMAIN state.snapshots : k # m => snaps[k] = state.snapshots[k]
  BY <1>4 DEF Arb!Insert
<1>8. p \in Int /\ Cooldown \in Nat
  BY DEF ArbInv, Arb!ArbConstants
<1>9. DOMAIN snaps \subseteq ArbMarkets /\ \A k \in DOMAIN snaps : snaps[k] \in Int
  BY <1>7, <1>8 DEF ArbInv, ArbTyped
<1>10. CASE Platform[m] = ""
  <2>1. state' = heard /\ out' = {} /\ hist' = hist
    BY <1>10 DEF Arb!OnMarketSnapshot
  <2> QED
    BY <1>3, <2>1 DEF ArbInv, ArbTyped, ArbBooks, LegsRight
<1>11. CASE Platform[m] # ""
  <2> DEFINE sent == {pair \in Arb!FindPairsFor(m, known.snapshots) : Arb!TryXPlatformSignals(pair, known) # {}}
             keys == {Arb!CooldownKey(pair) : pair \in sent}
             news == {[pair |-> {pair.cheap, pair.dear}, at |-> state.clock] : pair \in sent}
  <2>1. /\ state' = [known EXCEPT !.last = [k \in DOMAIN @ \cup keys |-> IF k \in keys THEN state.clock ELSE @[k]]]
        /\ out' = UNION {Arb!TryXPlatformSignals(pair, known) : pair \in sent}
        /\ hist' = hist \cup news
    BY <1>11, Zenon DEF Arb!OnMarketSnapshot
  <2> HIDE DEF known, heard
  <2>2. \A pair \in sent : /\ pair.cheap \in DOMAIN snaps /\ pair.dear \in DOMAIN snaps
                           /\ pair.cheap \in Int /\ pair.dear \in Int
                           /\ Platform[pair.cheap] # Platform[pair.dear]
    BY <1>6, <1>7, <1>9, PairsOfTwo
  <2>3. \A pair \in sent : \A legs \in Arb!TryXPlatformSignals(pair, known) :
          /\ TwoLegs(legs, snaps)
          /\ Arb!CooldownKey(pair) \in DOMAIN state.last =>
               ~(state.clock - state.last[Arb!CooldownKey(pair)] < Cooldown)
    <3>1. ASSUME NEW pair \in sent, NEW legs \in Arb!TryXPlatformSignals(pair, known)
          PROVE  /\ TwoLegs(legs, snaps)
                 /\ Arb!CooldownKey(pair) \in DOMAIN known.last =>
                      ~(known.clock - known.last[Arb!CooldownKey(pair)] < Cooldown)
      <4>1. snaps[pair.cheap] \in Int /\ snaps[pair.dear] \in Int /\ Platform[pair.cheap] # Platform[pair.dear]
        BY <1>9, <2>2
      <4> HIDE DEF sent
      <4> QED
        BY <1>6, <4>1, PairIsRight
    <3> HIDE DEF sent
    <3> QED
      BY <1>6, <3>1
  <2>4. \A pair \in sent :
          Arb!CooldownKey(pair) \in DOMAIN state.last =>
            ~(state.clock - state.last[Arb!CooldownKey(pair)] < Cooldown)
    BY <2>3
  <2> HIDE DEF sent
  <2>5. PICK last : last = [k \in DOMAIN state.last \cup keys |-> IF k \in keys THEN state.clock ELSE state.last[k]]
    OBVIOUS
  <2>6. /\ DOMAIN state' = DOMAIN state /\ state'.snapshots = snaps /\ state'.markets = state.markets
        /\ state'.clock = state.clock /\ state'.last = last
    <3>1. DOMAIN known = {"markets", "snapshots", "last", "seen", "clock"}
      BY <1>1, <1>6
    <3> HIDE DEF keys
    <3>2. state' = [known EXCEPT !.last = last]
      BY <1>6, <2>1, <2>5
    <3> QED
      BY <1>6, <3>1, <3>2
  <2>7. ArbTyped'
    BY <1>9, <2>6 DEF ArbInv, ArbTyped
  <2>8. LegsRight'
    BY <2>1, <2>3, <2>6 DEF LegsRight
  <2>9. /\ state.clock \in Nat /\ Rare(hist)
        /\ \A k \in DOMAIN state.last : state.last[k] \in Nat /\ state.last[k] <= state.clock
        /\ \A e \in hist : e.at \in Nat /\ e.at <= state.clock /\ Remembers(e, state.last, state.clock)
    BY DEF ArbInv, ArbBooks
  <2>10. \A k \in DOMAIN last : last[k] \in Nat /\ last[k] <= state.clock
    <3> HIDE DEF keys
    <3> QED
      BY <2>5, <2>9
  <2>11. ASSUME NEW e \in hist
         PROVE  Remembers(e, last, state.clock)
    <3>1. ASSUME NEW x \in Int, NEW y \in Int, x <= y, e.pair = {x, y}, ~(state.clock - e.at > 2 * Cooldown)
          PROVE  <<x, y>> \in DOMAIN last /\ last[<<x, y>>] >= e.at
      <4>1. <<x, y>> \in DOMAIN state.last /\ state.last[<<x, y>>] >= e.at
        BY <2>9, <3>1 DEF Remembers
      <4>2. PICK k : k = <<x, y>>
        OBVIOUS
      <4>3. k \in DOMAIN last /\ last[k] \in {state.clock, state.last[k]}
        <5> HIDE DEF keys
        <5> QED
          BY <2>5, <4>1, <4>2
      <4> QED
        BY <2>9, <4>1, <4>2, <4>3
    <3> QED
      BY <3>1, Zenon DEF Remembers
  <2>12. ASSUME NEW e \in news
         PROVE  /\ e.at = state.clock /\ Remembers(e, last, state.clock)
                /\ \A f \in hist : f.pair = e.pair => e.at - f.at >= Cooldown
    <3>1. PICK pair \in sent : e = [pair |-> {pair.cheap, pair.dear}, at |-> state.clock]
      OBVIOUS
    <3>2. PICK a \in Int, b \in Int : pair.cheap = a /\ pair.dear = b
      BY <2>2
    <3>3. PICK x \in Int, y \in Int : x <= y /\ {a, b} = {x, y} /\ Arb!CooldownKey(pair) = <<x, y>>
      BY <3>2, KeyIsSorted, SMTT(40)
    <3>4. e.at = state.clock /\ e.pair = {x, y}
      BY <3>1, <3>2, <3>3
    <3>5. PICK k : k = <<x, y>>
      OBVIOUS
    <3>6. k \in keys
      BY <3>3, <3>5
    <3>7. k \in DOMAIN last /\ last[k] = state.clock
      <4> HIDE DEF keys
      <4> QED
        BY <2>5, <3>6
    <3>8. ASSUME NEW u \in Int, NEW v \in Int, u <= v, e.pair = {u, v}
          PROVE  <<u, v>> \in DOMAIN last /\ last[<<u, v>>] >= e.at
      <4>1. u = x /\ v = y
        <5>1. {x, y} = {u, v}
          BY <3>4, <3>8
        <5> QED
          BY <3>3, <3>8, <5>1, SortedPairsAgree
      <4> QED
        BY <2>9, <3>4, <3>5, <3>7, <4>1
    <3>9. Remembers(e, last, state.clock)
      BY <3>8, Zenon DEF Remembers
    <3>10. ASSUME NEW f \in hist, f.pair = e.pair
           PROVE  e.at - f.at >= Cooldown
      <4>1. \/ k \in DOMAIN state.last /\ state.last[k] >= f.at
            \/ state.clock - f.at > 2 * Cooldown
        BY <2>9, <3>3, <3>4, <3>5, <3>10 DEF Remembers
      <4>2. CASE k \in DOMAIN state.last /\ state.last[k] >= f.at
        <5>1. ~(state.clock - state.last[k] < Cooldown)
          BY <2>4, <3>3, <3>5, <4>2
        <5>2. state.last[k] \in Nat /\ f.at \in Nat
          BY <2>9, <4>2
        <5> QED
          BY <1>8, <2>9, <3>4, <4>2, <5>1, <5>2
      <4>3. CASE state.clock - f.at > 2 * Cooldown
        BY <1>8, <2>9, <3>4, <4>3
      <4> QED
        BY <4>1, <4>2, <4>3
    <3> QED
      BY <3>4, <3>9, <3>10
  <2> HIDE DEF keys, news
  <2>13. \A e \in hist' : e.at \in Nat /\ e.at <= state.clock /\ Remembers(e, last, state.clock)
    BY <2>1, <2>9, <2>11, <2>12
  <2>14. Rare(hist')
    <3>1. ASSUME NEW e \in hist', NEW f \in hist', e.pair = f.pair, e.at < f.at
          PROVE  f.at - e.at >= Cooldown
      <4>1. e \in hist
        BY <2>1, <2>9, <2>12, <2>13, <3>1
      <4>2. CASE f \in hist
        BY <2>9, <3>1, <4>1, <4>2 DEF Rare
      <4>3. CASE f \in news
        BY <2>12, <3>1, <4>1, <4>3
      <4> QED
        BY <2>1, <4>2, <4>3
    <3> QED
      BY <3>1 DEF Rare
  <2>15. ArbBooks'
    BY <2>6, <2>9, <2>10, <2>13, <2>14 DEF ArbBooks
  <2> QED
    BY <2>7, <2>8, <2>15 DEF ArbInv
<1> QED
  BY <1>10, <1>11

LEMMA ArbEvictionKeeps ==
  ASSUME ArbInv, Arb!EvictionTick
  PROVE  ArbInv'
<1> DEFINE old == {k \in DOMAIN state.last : state.last[k] < state.clock - 2 * Cooldown}
           alive(map) == Arb!RemoveAll(map, (DOMAIN map) \ state.seen)
<1>1. /\ state' = [state EXCEPT !.snapshots = alive(@), !.markets = alive(@),
                                !.last = Arb!RemoveAll(@, old), !.seen = {}]
      /\ out' = {} /\ hist' = hist
  BY DEF Arb!EvictionTick
<1>2. \A map : DOMAIN alive(map) \subseteq DOMAIN map /\ \A k \in DOMAIN alive(map) : alive(map)[k] = map[k]
  BY DEF Arb!RemoveAll, Arb!Restrict
<1>3. PICK last : last = Arb!RemoveAll(state.last, old)
  OBVIOUS
<1>4. DOMAIN last = DOMAIN state.last \ old /\ \A k \in DOMAIN last : last[k] = state.last[k]
  BY <1>3 DEF Arb!RemoveAll, Arb!Restrict
<1> HIDE DEF alive
<1>5. /\ DOMAIN state' = DOMAIN state /\ state'.snapshots = alive(state.snapshots)
      /\ state'.markets = alive(state.markets) /\ state'.clock = state.clock /\ state'.last = last
  <2> HIDE DEF old
  <2> QED
    BY <1>1, <1>3 DEF ArbInv, ArbTyped
<1>6. ArbTyped'
  BY <1>2, <1>5 DEF ArbInv, ArbTyped
<1>7. /\ state.clock \in Nat /\ Rare(hist) /\ Cooldown \in Nat
      /\ \A k \in DOMAIN state.last : state.last[k] \in Nat /\ state.last[k] <= state.clock
      /\ \A e \in hist : e.at \in Nat /\ e.at <= state.clock /\ Remembers(e, state.last, state.clock)
  BY DEF ArbInv, ArbBooks, Arb!ArbConstants
<1>8. ASSUME NEW e \in hist
      PROVE  Remembers(e, last, state.clock)
  <2>1. ASSUME NEW x \in Int, NEW y \in Int, x <= y, e.pair = {x, y}, ~(state.clock - e.at > 2 * Cooldown)
        PROVE  <<x, y>> \in DOMAIN last /\ last[<<x, y>>] >= e.at
    <3>1. <<x, y>> \in DOMAIN state.last /\ state.last[<<x, y>>] >= e.at
      BY <1>7, <2>1 DEF Remembers
    <3>2. PICK k : k = <<x, y>>
      OBVIOUS
    <3>3. k \in DOMAIN state.last /\ state.last[k] \in Nat /\ e.at \in Nat /\ state.last[k] >= e.at
      BY <1>7, <3>1, <3>2
    <3>4. k \notin old
      BY <1>7, <2>1, <3>3
    <3> QED
      BY <1>4, <3>2, <3>3, <3>4
  <2> QED
    BY <2>1, Zenon DEF Remembers
<1> HIDE DEF old
<1>9. ArbBooks'
  BY <1>1, <1>4, <1>5, <1>7, <1>8 DEF ArbBooks
<1>10. LegsRight'
  BY <1>1 DEF LegsRight
<1> QED
  BY <1>6, <1>9, <1>10 DEF ArbInv

LEMMA SecondKeeps ==
  ASSUME ArbInv, Arb!Second
  PROVE  ArbInv'
<1>1. state' = [state EXCEPT !.clock = @ + 1] /\ out' = {} /\ hist' = hist
  BY DEF Arb!Second
<1>2. /\ DOMAIN state' = DOMAIN state /\ state'.snapshots = state.snapshots
      /\ state'.markets = state.markets /\ state'.clock = state.clock + 1 /\ state'.last = state.last
  BY <1>1 DEF ArbInv, ArbTyped
<1>3. /\ state.clock \in Nat /\ Rare(hist) /\ Cooldown \in Nat
      /\ \A k \in DOMAIN state.last : state.last[k] \in Nat /\ state.last[k] <= state.clock
      /\ \A e \in hist : e.at \in Nat /\ e.at <= state.clock /\ Remembers(e, state.last, state.clock)
  BY DEF ArbInv, ArbBooks, Arb!ArbConstants
<1>4. ASSUME NEW e \in hist
      PROVE  Remembers(e, state.last, state.clock + 1)
  <2>1. e.at \in Nat
    BY <1>3
  <2> QED
    BY <1>3, <2>1 DEF Remembers
<1>5. ArbBooks'
  <2>1. \A k \in DOMAIN state.last : state.last[k] \in Nat /\ state.last[k] <= state.clock + 1
    BY <1>3
  <2>2. \A e \in hist : e.at \in Nat /\ e.at <= state.clock + 1
    BY <1>3
  <2> QED
    BY <1>1, <1>2, <1>3, <1>4, <2>1, <2>2 DEF ArbBooks
<1>6. ArbTyped' /\ LegsRight'
  BY <1>1, <1>2 DEF ArbInv, ArbTyped, LegsRight
<1> QED
  BY <1>5, <1>6 DEF ArbInv

ArbPart == which = "arb" => ArbInv

\* Legs are paired, gain after their costs and keep to the cooldown whichever
\* side of a pair is the dearer and whatever the timer forgot; a signal of one
\* market goes from its price towards what the graph implies: for all prices,
\* costs, titles and cooldowns.
THEOREM LegsPairedAndRare == Spec => []LegsArePairedAndRare
<1>1. Arb!Init => ArbInv
  <2> SUFFICES ASSUME Arb!Init PROVE ArbInv
    OBVIOUS
  <2>1. /\ state = [markets |-> Arb!EmptyMap, snapshots |-> Arb!EmptyMap, last |-> Arb!EmptyMap, seen |-> {}, clock |-> 0]
        /\ out = {} /\ hist = {} /\ DOMAIN Arb!EmptyMap = {}
    BY DEF Arb!Init, Arb!EmptyMap
  <2>2. Arb!ArbConstants
    BY StandaloneConstants
  <2> QED
    BY <2>1, <2>2 DEF ArbInv, ArbTyped, ArbBooks, LegsRight, Rare
<1>2. ArbInv /\ [Arb!Next]_(Arb!vars) => ArbInv'
  <2> SUFFICES ASSUME ArbInv, [Arb!Next]_(Arb!vars) PROVE ArbInv'
    OBVIOUS
  <2>1. CASE UNCHANGED Arb!vars
    BY <2>1 DEF Arb!vars, ArbInv, ArbTyped, ArbBooks, LegsRight
  <2> QED
    BY <2>1, GraphUpdateKeeps, PriceUpdateKeeps, SnapshotKeeps, ArbEvictionKeeps, SecondKeeps DEF Arb!Next
<1>3. Init => ArbPart
  BY <1>1 DEF Init, ArbPart
<1>4. ArbPart /\ [Next]_vars => ArbPart'
  <2> SUFFICES ASSUME ArbPart, [Next]_vars, which' = "arb" PROVE ArbInv'
    BY DEF ArbPart
  <2>1. which = "arb" /\ [Arb!Next]_(Arb!vars)
    BY DEF Next, vars, Arb!vars
  <2> QED
    BY <1>2, <2>1 DEF ArbPart
<1>5. ArbPart => LegsArePairedAndRare
  <2> SUFFICES ASSUME ArbInv PROVE Arb!LegsArePairedAndRare
    BY DEF ArbPart, LegsArePairedAndRare
  <2>1. ASSUME NEW legs \in out
        PROVE  LET a == legs[1]
                   b == legs[Len(legs)]
                   cap == IF Len(legs) = 2 THEN XCap ELSE Cap
                   up(leg) == leg.dir = "Buy" <=> leg.posterior > leg.price
               IN /\ Len(legs) \in 1..2 /\ up(a) /\ up(b)
                  /\ a.size \in Arb!MinOf(1, cap)..cap /\ b.size \in Arb!MinOf(1, cap)..cap
                  /\ Len(legs) = 2 => /\ a.dir = "Buy" /\ b.dir = "Sell"
                                      /\ Platform[a.market] # Platform[b.market]
                                      /\ a.price = state.snapshots[a.market] /\ b.price = state.snapshots[b.market]
                                      /\ b.price - a.price > 2 * XCost
                  /\ Len(legs) = 1 => state.markets[a.market] = [implied |-> <<a.posterior>>, price |-> <<a.price>>]
    <3>1. CASE OneLeg(legs, state.markets)
      <4>1. PICK sig : /\ legs = <<sig>>
                       /\ state.markets[sig.market] = [implied |-> <<sig.posterior>>, price |-> <<sig.price>>]
                       /\ UpIfBuy(sig) /\ sig.size \in Arb!MinOf(1, Cap)..Cap
        BY <3>1 DEF OneLeg
      <4>2. Len(legs) = 1 /\ legs[1] = sig /\ legs[Len(legs)] = sig
        BY <4>1
      <4> QED
        BY <4>1, <4>2 DEF UpIfBuy
    <3>2. CASE TwoLegs(legs, state.snapshots)
      <4>1. PICK a, b : /\ legs = <<a, b>> /\ a.dir = "Buy" /\ b.dir = "Sell"
                        /\ Platform[a.market] # Platform[b.market]
                        /\ a.price = state.snapshots[a.market] /\ b.price = state.snapshots[b.market]
                        /\ b.price - a.price > 2 * XCost
                        /\ UpIfBuy(a) /\ UpIfBuy(b)
                        /\ a.size \in Arb!MinOf(1, XCap)..XCap /\ b.size \in Arb!MinOf(1, XCap)..XCap
        BY <3>2 DEF TwoLegs
      <4>2. Len(legs) = 2 /\ legs[1] = a /\ legs[Len(legs)] = b
        BY <4>1
      <4> QED
        BY <4>1, <4>2 DEF UpIfBuy
    <3> QED
      BY <2>1, <3>1, <3>2 DEF ArbInv, LegsRight
  <2>2. \A e, f \in hist : e.pair = f.pair /\ e.at < f.at => f.at - e.at >= Cooldown
    BY DEF ArbInv, ArbBooks, Rare
  <2> QED
    BY <2>1, <2>2, Zenon DEF Arb!LegsArePairedAndRare
<1> QED
  BY <1>3, <1>4, <1>5, PTL DEF Spec

----------------------------------------------------------------------------
(***************************************************************************)
(* signal_agent.  A market is in seen while a price or a snapshot of it    *)
(* came after the last tick (RecentOf), so a tick silences exactly those   *)
(* it drops.  What the maps hold of a market is what its last event of     *)
(* the kind said, and no silence came since (OfMarket).  All is said of a  *)
(* state s and a history h, to hold before and after a step.               *)
(***************************************************************************)

SigKinds == {"posterior", "market", "snapshot", "tick"}
SigWhats == SigBeliefs \cup SigPrices \cup Snapshots \cup {<<>>}
SigMarkets == Markets \cup {""}
SigEvents == [kind : SigKinds, market : SigMarkets, what : SigWhats]

\* The event x takes the history from h to g.
Grows(h, x, g) == h \in Seq(SigEvents) /\ x \in SigEvents /\ g = Append(h, x)

HeardOf(h, kinds, m) == {k \in 1..Len(h) : h[k].kind \in kinds /\ h[k].market = m}
TicksOf(h) == {k \in 1..Len(h) : h[k].kind = "tick"}
SilentAt(h, m, t) ==
  \A k \in HeardOf(h, {"market", "snapshot"}, m) : k > t \/ \E b \in {j \in TicksOf(h) : j < t} : k < b
SilencesOf(h, m) == {t \in TicksOf(h) : SilentAt(h, m, t)}
LiveOf(h, m, k) == \A t \in SilencesOf(h, m) : t < k
RecentOf(h, m) == \E k \in HeardOf(h, {"market", "snapshot"}, m) : \A b \in TicksOf(h) : ~(k < b)

ValidQuotes(w) == w.bid > 0 /\ w.ask < Scale /\ w.bid < w.ask
SpreadsOf(h, m) == {k \in HeardOf(h, {"snapshot"}, m) : LiveOf(h, m, k) /\ ValidQuotes(h[k].what)}

LEMMA EventsGrow ==
  ASSUME NEW h, NEW x, NEW g, Grows(h, x, g)
  PROVE  /\ g \in Seq(SigEvents) /\ Len(h) \in Nat /\ Len(g) = Len(h) + 1
         /\ g[Len(h) + 1] = x /\ \A k \in 1..Len(h) : g[k] = h[k]
<1>1. PICK S : S = SigEvents
  OBVIOUS
<1> QED
  BY <1>1 DEF Grows

LEMMA HeardGrows ==
  ASSUME NEW h, NEW x, NEW g, Grows(h, x, g), NEW kinds, NEW m
  PROVE  /\ HeardOf(h, kinds, m) \subseteq 1..Len(h)
         /\ x.kind \in kinds /\ x.market = m => HeardOf(g, kinds, m) = HeardOf(h, kinds, m) \cup {Len(h) + 1}
         /\ ~(x.kind \in kinds /\ x.market = m) => HeardOf(g, kinds, m) = HeardOf(h, kinds, m)
<1>1. /\ Len(h) \in Nat /\ Len(g) = Len(h) + 1
      /\ g[Len(h) + 1] = x /\ \A k \in 1..Len(h) : g[k] = h[k]
  BY EventsGrow
<1>2. PICK n \in Nat : n = Len(h)
  BY <1>1
<1>3. \A k : k \in 1..Len(g) <=> k \in 1..n \/ k = n + 1
  BY <1>1, <1>2
<1>4. n + 1 \notin 1..n
  BY <1>2
<1> QED
  BY <1>1, <1>2, <1>3, <1>4 DEF HeardOf

LEMMA TicksGrow ==
  ASSUME NEW h, NEW x, NEW g, Grows(h, x, g)
  PROVE  /\ TicksOf(h) \subseteq 1..Len(h)
         /\ x.kind = "tick" => TicksOf(g) = TicksOf(h) \cup {Len(h) + 1}
         /\ x.kind # "tick" => TicksOf(g) = TicksOf(h)
<1>1. /\ Len(h) \in Nat /\ Len(g) = Len(h) + 1
      /\ g[Len(h) + 1] = x /\ \A k \in 1..Len(h) : g[k] = h[k]
  BY EventsGrow
<1>2. PICK n \in Nat : n = Len(h)
  BY <1>1
<1>3. \A k : k \in 1..Len(g) <=> k \in 1..n \/ k = n + 1
  BY <1>1, <1>2
<1> QED
  BY <1>1, <1>2, <1>3 DEF TicksOf

\* A silence of the past stays one, and no other tick becomes one.
LEMMA PastSilencesStay ==
  ASSUME NEW h, NEW x, NEW g, Grows(h, x, g), NEW m, NEW t \in TicksOf(h)
  PROVE  SilentAt(g, m, t) <=> SilentAt(h, m, t)
<1> DEFINE K == {"market", "snapshot"}
<1>1. Len(h) \in Nat /\ t \in 1..Len(h)
  BY EventsGrow, TicksGrow
<1>2. PICK n \in Nat : n = Len(h) /\ t <= n /\ t \in Nat
  BY <1>1
<1>3. {j \in TicksOf(g) : j < t} = {j \in TicksOf(h) : j < t}
  BY <1>2, TicksGrow
<1>4. HeardOf(g, K, m) = HeardOf(h, K, m) \/ HeardOf(g, K, m) = HeardOf(h, K, m) \cup {n + 1}
  BY <1>2, HeardGrows
<1>5. n + 1 > t
  BY <1>2
<1> HIDE DEF K
<1>6. /\ SilentAt(g, m, t) <=> \A k \in HeardOf(g, K, m) : k > t \/ \E b \in {j \in TicksOf(g) : j < t} : k < b
      /\ SilentAt(h, m, t) <=> \A k \in HeardOf(h, K, m) : k > t \/ \E b \in {j \in TicksOf(h) : j < t} : k < b
  BY DEF SilentAt, K
<1> QED
  BY <1>3, <1>4, <1>5, <1>6

LEMMA SilencesStay ==
  ASSUME NEW h, NEW x, NEW g, Grows(h, x, g), NEW m, x.kind # "tick"
  PROVE  SilencesOf(g, m) = SilencesOf(h, m)
  BY TicksGrow, PastSilencesStay DEF SilencesOf

LEMMA RecentGrows ==
  ASSUME NEW h, NEW x, NEW g, Grows(h, x, g), NEW m, x.kind # "tick"
  PROVE  RecentOf(g, m) <=> RecentOf(h, m) \/ (x.kind \in {"market", "snapshot"} /\ x.market = m)
<1> DEFINE K == {"market", "snapshot"}
<1>1. PICK n \in Nat : n = Len(h)
  BY EventsGrow
<1>2. TicksOf(g) = TicksOf(h) /\ \A b \in TicksOf(h) : ~(n + 1 < b)
  BY <1>1, TicksGrow
<1>3. /\ x.kind \in K /\ x.market = m => HeardOf(g, K, m) = HeardOf(h, K, m) \cup {n + 1}
      /\ ~(x.kind \in K /\ x.market = m) => HeardOf(g, K, m) = HeardOf(h, K, m)
  BY <1>1, HeardGrows
<1> HIDE DEF K
<1>4. /\ RecentOf(g, m) <=> \E k \in HeardOf(g, K, m) : \A b \in TicksOf(g) : ~(k < b)
      /\ RecentOf(h, m) <=> \E k \in HeardOf(h, K, m) : \A b \in TicksOf(h) : ~(k < b)
  BY DEF RecentOf, K
<1>5. RecentOf(g, m) <=> RecentOf(h, m) \/ (x.kind \in K /\ x.market = m)
  BY <1>2, <1>3, <1>4
<1> QED
  BY <1>5 DEF K

\* A tick silences a market unless something came since the tick before;
\* after it nothing did.
LEMMA TickSilences ==
  ASSUME NEW h, NEW x, NEW g, Grows(h, x, g), NEW m, x.kind = "tick"
  PROVE  /\ ~RecentOf(g, m)
         /\ RecentOf(h, m) => SilencesOf(g, m) = SilencesOf(h, m)
         /\ ~RecentOf(h, m) => Len(h) + 1 \in SilencesOf(g, m)
<1> DEFINE K == {"market", "snapshot"}
<1>1. PICK n \in Nat : n = Len(h)
  BY EventsGrow
<1>2. TicksOf(g) = TicksOf(h) \cup {n + 1} /\ TicksOf(h) \subseteq 1..n
  BY <1>1, TicksGrow
<1>3. HeardOf(g, K, m) = HeardOf(h, K, m) /\ HeardOf(h, K, m) \subseteq 1..n
  BY <1>1, HeardGrows
<1> HIDE DEF K
<1>4. /\ RecentOf(g, m) <=> \E k \in HeardOf(g, K, m) : \A b \in TicksOf(g) : ~(k < b)
      /\ RecentOf(h, m) <=> \E k \in HeardOf(h, K, m) : \A b \in TicksOf(h) : ~(k < b)
  BY DEF RecentOf, K
<1>5. ~RecentOf(g, m)
  BY <1>2, <1>3, <1>4
<1>6. {j \in TicksOf(g) : j < n + 1} = TicksOf(h)
  BY <1>2
<1>7. SilentAt(g, m, n + 1) <=> \A k \in HeardOf(h, K, m) : k > n + 1 \/ \E b \in TicksOf(h) : k < b
  BY <1>3, <1>6 DEF SilentAt, K
<1>8. SilentAt(g, m, n + 1) <=> ~RecentOf(h, m)
  BY <1>3, <1>4, <1>7
<1>9. \A t \in TicksOf(h) : SilentAt(g, m, t) <=> SilentAt(h, m, t)
  BY PastSilencesStay
<1> QED
  BY <1>1, <1>2, <1>5, <1>8, <1>9 DEF SilencesOf

\* What was alive is, as long as no tick silences the market; a new event is.
LEMMA LifeGoesOn ==
  ASSUME NEW h, NEW x, NEW g, Grows(h, x, g), NEW m,
         x.kind # "tick" \/ RecentOf(h, m)
  PROVE  /\ \A k : LiveOf(g, m, k) <=> LiveOf(h, m, k)
         /\ LiveOf(g, m, Len(h) + 1)
<1>1. PICK n \in Nat : n = Len(h)
  BY EventsGrow
<1>2. SilencesOf(g, m) = SilencesOf(h, m)
  BY SilencesStay, TickSilences
<1>3. SilencesOf(h, m) \subseteq 1..n
  BY <1>1, TicksGrow DEF SilencesOf
<1>4. \A t \in SilencesOf(h, m) : t < n + 1
  BY <1>3
<1> QED
  BY <1>1, <1>2, <1>4 DEF LiveOf

LEMMA AllDies ==
  ASSUME NEW h, NEW x, NEW g, Grows(h, x, g), NEW m,
         x.kind = "tick", ~RecentOf(h, m)
  PROVE  SpreadsOf(g, m) = {}
<1>1. PICK n \in Nat : n = Len(h)
  BY EventsGrow
<1>2. n + 1 \in SilencesOf(g, m)
  BY <1>1, TickSilences
<1>3. HeardOf(g, {"snapshot"}, m) \subseteq 1..n
  BY <1>1, HeardGrows
<1>4. \A k \in HeardOf(g, {"snapshot"}, m) : ~LiveOf(g, m, k)
  BY <1>2, <1>3 DEF LiveOf
<1> QED
  BY <1>4 DEF SpreadsOf


----------------------------------------------------------------------------
\* map holds of m what the last event of the kind said, and no silence came since.
KeptLast(map, h, m, kind) ==
  m \in DOMAIN map =>
    \E i : IsLast(i, HeardOf(h, {kind}, m)) /\ LiveOf(h, m, i) /\ map[m] = h[i].what

SpreadKept(map, h, m) ==
  IF m \in DOMAIN map
  THEN \E i : IsLast(i, SpreadsOf(h, m)) /\ map[m] = <<h[i].what.bid, h[i].what.ask>>
  ELSE SpreadsOf(h, m) = {}

OfMarket(s, h, m) ==
  /\ m \in s.seen <=> RecentOf(h, m)
  /\ KeptLast(s.beliefs, h, m, "posterior") /\ KeptLast(s.prices, h, m, "market")
  /\ SpreadKept(s.spreads, h, m)

SigTyped(s) ==
  /\ DOMAIN s = {"beliefs", "prices", "spreads", "liquidity", "dates", "seen"}
  /\ \A m \in DOMAIN s.beliefs : s.beliefs[m] \in SigBeliefs
  /\ \A m \in DOMAIN s.prices : s.prices[m] \in SigPrices
  /\ \A m \in DOMAIN s.spreads : \E snap \in Snapshots : s.spreads[m] = <<snap.bid, snap.ask>>
  /\ \A m \in DOMAIN s.liquidity : s.liquidity[m] \in Int
  /\ \A m \in DOMAIN s.dates : \E snap \in Snapshots : s.dates[m] = snap.date

SigBooks(s, h) == h \in Seq(SigEvents) /\ SigTyped(s) /\ \A m \in Markets : OfMarket(s, h, m)

LEMMA KeptStays ==
  ASSUME NEW h, NEW x, NEW g, Grows(h, x, g), NEW m, NEW kind, NEW map, NEW next, KeptLast(map, h, m, kind),
         x.kind # "tick" \/ RecentOf(h, m), ~(x.kind = kind /\ x.market = m),
         m \in DOMAIN next => m \in DOMAIN map /\ next[m] = map[m]
  PROVE  KeptLast(next, g, m, kind)
<1> SUFFICES ASSUME m \in DOMAIN next
             PROVE  \E i : IsLast(i, HeardOf(g, {kind}, m)) /\ LiveOf(g, m, i) /\ next[m] = g[i].what
  BY DEF KeptLast
<1>1. PICK i : IsLast(i, HeardOf(h, {kind}, m)) /\ LiveOf(h, m, i) /\ map[m] = h[i].what
  BY DEF KeptLast
<1>2. HeardOf(g, {kind}, m) = HeardOf(h, {kind}, m) /\ i \in 1..Len(h)
  <2>1. ~(x.kind \in {kind} /\ x.market = m)
    OBVIOUS
  <2> QED
    BY <1>1, <2>1, HeardGrows DEF IsLast
<1>3. LiveOf(g, m, i)
  BY <1>1, LifeGoesOn
<1>4. g[i] = h[i]
  BY <1>2, EventsGrow
<1> QED
  BY <1>1, <1>2, <1>3, <1>4

LEMMA KeptAnew ==
  ASSUME NEW h, NEW x, NEW g, Grows(h, x, g), NEW m, NEW next,
         x.kind # "tick", x.market = m, next[m] = x.what
  PROVE  KeptLast(next, g, m, x.kind)
<1>1. PICK n \in Nat : n = Len(h) /\ g[n + 1] = x
  BY EventsGrow
<1>2. PICK K : K = {x.kind}
  OBVIOUS
<1>3. IsLast(n + 1, HeardOf(g, K, m))
  <2>1. x.kind \in K /\ x.market = m
    BY <1>2
  <2>2. HeardOf(g, K, m) = HeardOf(h, K, m) \cup {Len(h) + 1}
    BY <2>1, HeardGrows
  <2>3. HeardOf(h, K, m) \subseteq 1..Len(h)
    BY HeardGrows
  <2> QED
    BY <1>1, <2>2, <2>3 DEF IsLast
<1>4. LiveOf(g, m, n + 1)
  <2>1. LiveOf(g, m, Len(h) + 1)
    BY LifeGoesOn
  <2> QED
    BY <1>1, <2>1
<1> QED
  BY <1>1, <1>2, <1>3, <1>4 DEF KeptLast

LEMMA SpreadStays ==
  ASSUME NEW h, NEW x, NEW g, Grows(h, x, g), NEW m, NEW map, NEW next, SpreadKept(map, h, m),
         x.kind # "tick" \/ RecentOf(h, m),
         ~(x.kind = "snapshot" /\ x.market = m /\ ValidQuotes(x.what)),
         m \in DOMAIN next <=> m \in DOMAIN map, m \in DOMAIN map => next[m] = map[m]
  PROVE  SpreadKept(next, g, m)
<1>1. PICK n \in Nat : n = Len(h) /\ g[n + 1] = x /\ \A k \in 1..n : g[k] = h[k]
  BY EventsGrow
<1>2. /\ HeardOf(h, {"snapshot"}, m) \subseteq 1..n
      /\ \/ HeardOf(g, {"snapshot"}, m) = HeardOf(h, {"snapshot"}, m)
         \/ /\ HeardOf(g, {"snapshot"}, m) = HeardOf(h, {"snapshot"}, m) \cup {n + 1}
            /\ x.kind = "snapshot" /\ x.market = m
  <2>1. PICK K : K = {"snapshot"}
    OBVIOUS
  <2>2. HeardOf(h, K, m) \subseteq 1..Len(h)
    BY HeardGrows
  <2>3. CASE x.kind \in K /\ x.market = m
    <3>1. HeardOf(g, K, m) = HeardOf(h, K, m) \cup {Len(h) + 1}
      BY <2>3, HeardGrows
    <3> QED
      BY <1>1, <2>1, <2>2, <2>3, <3>1
  <2>4. CASE ~(x.kind \in K /\ x.market = m)
    <3>1. HeardOf(g, K, m) = HeardOf(h, K, m)
      BY <2>4, HeardGrows
    <3> QED
      BY <1>1, <2>1, <2>2, <3>1
  <2> QED
    BY <2>3, <2>4
<1>3. \A k : LiveOf(g, m, k) <=> LiveOf(h, m, k)
  BY LifeGoesOn
<1>4. SpreadsOf(g, m) = SpreadsOf(h, m) /\ SpreadsOf(h, m) \subseteq 1..n
  BY <1>1, <1>2, <1>3 DEF SpreadsOf
<1>5. CASE m \in DOMAIN next
  <2>1. PICK i : IsLast(i, SpreadsOf(h, m)) /\ map[m] = <<h[i].what.bid, h[i].what.ask>>
    BY <1>5 DEF SpreadKept
  <2>2. g[i] = h[i]
    BY <1>1, <1>4, <2>1 DEF IsLast
  <2> QED
    BY <1>4, <1>5, <2>1, <2>2 DEF SpreadKept
<1>6. CASE m \notin DOMAIN next
  BY <1>4, <1>6 DEF SpreadKept
<1> QED
  BY <1>5, <1>6

LEMMA SpreadAnew ==
  ASSUME NEW h, NEW x, NEW g, Grows(h, x, g), NEW m, NEW next, m \in DOMAIN next,
         x.kind = "snapshot", x.market = m, ValidQuotes(x.what), next[m] = <<x.what.bid, x.what.ask>>
  PROVE  SpreadKept(next, g, m)
<1>1. PICK n \in Nat : n = Len(h) /\ g[n + 1] = x
  BY EventsGrow
<1>2. HeardOf(g, {"snapshot"}, m) = HeardOf(h, {"snapshot"}, m) \cup {n + 1} /\ HeardOf(h, {"snapshot"}, m) \subseteq 1..n
  <2>1. PICK K : K = {"snapshot"}
    OBVIOUS
  <2>2. x.kind \in K /\ x.market = m
    BY <2>1
  <2>3. HeardOf(g, K, m) = HeardOf(h, K, m) \cup {Len(h) + 1}
    BY <2>2, HeardGrows
  <2>4. HeardOf(h, K, m) \subseteq 1..Len(h)
    BY HeardGrows
  <2> QED
    BY <1>1, <2>1, <2>3, <2>4
<1>3. LiveOf(g, m, n + 1)
  <2>1. LiveOf(g, m, Len(h) + 1)
    BY LifeGoesOn
  <2> QED
    BY <1>1, <2>1
<1>4. n + 1 \in SpreadsOf(g, m)
  BY <1>1, <1>2, <1>3 DEF SpreadsOf
<1>5. \A j \in SpreadsOf(g, m) : j <= n + 1
  BY <1>2 DEF SpreadsOf
<1> QED
  BY <1>1, <1>4, <1>5 DEF SpreadKept, IsLast

----------------------------------------------------------------------------
\* An event of one market leaves what is kept of the others as it is.
SameAt(s, t, m) ==
  /\ m \in s.seen <=> m \in t.seen
  /\ m \in DOMAIN t.beliefs => m \in DOMAIN s.beliefs /\ t.beliefs[m] = s.beliefs[m]
  /\ m \in DOMAIN t.prices => m \in DOMAIN s.prices /\ t.prices[m] = s.prices[m]
  /\ m \in DOMAIN t.spreads <=> m \in DOMAIN s.spreads
  /\ m \in DOMAIN s.spreads => t.spreads[m] = s.spreads[m]

LEMMA OthersStay ==
  ASSUME NEW h, NEW x, NEW g, Grows(h, x, g), x.kind # "tick", NEW m, x.market # m,
         NEW s, NEW t, OfMarket(s, h, m), SameAt(s, t, m)
  PROVE  OfMarket(t, g, m)
<1>1. RecentOf(g, m) <=> RecentOf(h, m)
  BY RecentGrows
<1>2. KeptLast(t.beliefs, g, m, "posterior")
  BY KeptStays DEF OfMarket, SameAt
<1>3. KeptLast(t.prices, g, m, "market")
  BY KeptStays DEF OfMarket, SameAt
<1>4. SpreadKept(t.spreads, g, m)
  BY SpreadStays DEF OfMarket, SameAt
<1> QED
  BY <1>1, <1>2, <1>3, <1>4 DEF OfMarket, SameAt

LEMMA PosteriorBooks ==
  ASSUME NEW s, NEW h, SigBooks(s, h), NEW m \in Markets, NEW b \in SigBeliefs, NEW t, NEW g,
         t = [s EXCEPT !.beliefs = Sig!Insert(@, m, b)],
         NEW x, x.kind = "posterior", x.market = m, x.what = b, Grows(h, x, g)
  PROVE  SigBooks(t, g)
<1>2. x.kind = "posterior" /\ x.market = m /\ x.what = b
  OBVIOUS
<1>3. Grows(h, x, g)
  OBVIOUS
<1>4. PICK map : map = Sig!Insert(s.beliefs, m, b)
  OBVIOUS
<1>5. /\ DOMAIN map = DOMAIN s.beliefs \cup {m} /\ map[m] = b
      /\ \A k \in DOMAIN s.beliefs : k # m => map[k] = s.beliefs[k]
  BY <1>4 DEF Sig!Insert
<1>6. /\ DOMAIN t = DOMAIN s /\ t.beliefs = map /\ t.prices = s.prices /\ t.spreads = s.spreads
      /\ t.liquidity = s.liquidity /\ t.dates = s.dates /\ t.seen = s.seen
  BY <1>4 DEF SigBooks, SigTyped
<1>7. SigTyped(t)
  BY <1>5, <1>6 DEF SigBooks, SigTyped
<1>8. ASSUME NEW k \in Markets, k # m
      PROVE  OfMarket(t, g, k)
  <2>1. SameAt(s, t, k)
    BY <1>5, <1>6, <1>8 DEF SameAt
  <2> QED
    BY <1>2, <1>3, <1>8, <2>1, OthersStay DEF SigBooks
<1>9. OfMarket(t, g, m)
  <2>1. KeptLast(t.beliefs, g, m, "posterior")
    BY <1>2, <1>3, <1>5, <1>6, KeptAnew
  <2>2. KeptLast(t.prices, g, m, "market")
    BY <1>2, <1>3, <1>6, KeptStays DEF SigBooks, OfMarket
  <2>3. SpreadKept(t.spreads, g, m)
    <3>1. SpreadKept(s.spreads, h, m)
      BY DEF SigBooks, OfMarket
    <3>2. /\ x.kind # "tick" \/ RecentOf(h, m)
          /\ ~(x.kind = "snapshot" /\ x.market = m /\ ValidQuotes(x.what))
      BY <1>2
    <3> QED
      BY <1>3, <1>6, <3>1, <3>2, SpreadStays
  <2>4. RecentOf(g, m) <=> RecentOf(h, m)
    BY <1>2, <1>3, RecentGrows
  <2> QED
    BY <1>6, <2>1, <2>2, <2>3, <2>4 DEF SigBooks, OfMarket
<1> QED
  BY <1>3, <1>7, <1>8, <1>9, EventsGrow DEF SigBooks

LEMMA MarketBooks ==
  ASSUME Sig!SignalConstants,
         NEW s, NEW h, SigBooks(s, h), NEW m \in Markets, NEW p \in SigPrices, NEW l \in Liquidities, NEW t, NEW g,
         t = [s EXCEPT !.prices = Sig!Insert(@, m, p), !.seen = @ \cup {m},
                       !.liquidity = IF m \in DOMAIN @ THEN @ ELSE Sig!Insert(@, m, l)],
         NEW x, x.kind = "market", x.market = m, x.what = p, Grows(h, x, g)
  PROVE  SigBooks(t, g)
<1>2. x.kind = "market" /\ x.market = m /\ x.what = p
  OBVIOUS
<1>3. Grows(h, x, g)
  OBVIOUS
<1>4. PICK map : map = Sig!Insert(s.prices, m, p)
  OBVIOUS
<1>5. /\ DOMAIN map = DOMAIN s.prices \cup {m} /\ map[m] = p
      /\ \A k \in DOMAIN s.prices : k # m => map[k] = s.prices[k]
  BY <1>4 DEF Sig!Insert
<1>6. PICK liq : liq = IF m \in DOMAIN s.liquidity THEN s.liquidity ELSE Sig!Insert(s.liquidity, m, l)
  OBVIOUS
<1>7. \A k \in DOMAIN liq : liq[k] \in Int
  <2>1. l \in Int /\ \A k \in DOMAIN s.liquidity : s.liquidity[k] \in Int
    BY DEF Sig!SignalConstants, SigBooks, SigTyped
  <2> QED
    BY <1>6, <2>1 DEF Sig!Insert
<1>8. /\ DOMAIN t = DOMAIN s /\ t.beliefs = s.beliefs /\ t.prices = map /\ t.spreads = s.spreads
      /\ t.liquidity = liq /\ t.dates = s.dates /\ t.seen = s.seen \cup {m}
  BY <1>4, <1>6 DEF SigBooks, SigTyped
<1>9. SigTyped(t)
  BY <1>5, <1>7, <1>8 DEF SigBooks, SigTyped
<1>10. ASSUME NEW k \in Markets, k # m
       PROVE  OfMarket(t, g, k)
  <2>1. SameAt(s, t, k)
    BY <1>5, <1>8, <1>10 DEF SameAt
  <2> QED
    BY <1>2, <1>3, <1>10, <2>1, OthersStay DEF SigBooks
<1>11. OfMarket(t, g, m)
  <2>1. KeptLast(t.prices, g, m, "market")
    BY <1>2, <1>3, <1>5, <1>8, KeptAnew
  <2>2. KeptLast(t.beliefs, g, m, "posterior")
    BY <1>2, <1>3, <1>8, KeptStays DEF SigBooks, OfMarket
  <2>3. SpreadKept(t.spreads, g, m)
    <3>1. SpreadKept(s.spreads, h, m)
      BY DEF SigBooks, OfMarket
    <3>2. /\ x.kind # "tick" \/ RecentOf(h, m)
          /\ ~(x.kind = "snapshot" /\ x.market = m /\ ValidQuotes(x.what))
      BY <1>2
    <3> QED
      BY <1>3, <1>8, <3>1, <3>2, SpreadStays
  <2>4. RecentOf(g, m)
    BY <1>2, <1>3, RecentGrows
  <2> QED
    BY <1>8, <2>1, <2>2, <2>3, <2>4 DEF OfMarket
<1> QED
  BY <1>3, <1>9, <1>10, <1>11, EventsGrow DEF SigBooks

LEMMA SnapshotBooks ==
  ASSUME Sig!SignalConstants,
         NEW s, NEW h, SigBooks(s, h), NEW m \in Markets, NEW snap \in Snapshots, NEW t, NEW g,
         t = [s EXCEPT !.seen = @ \cup {m},
                       !.spreads = IF ValidQuotes(snap) THEN Sig!Insert(@, m, <<snap.bid, snap.ask>>) ELSE @,
                       !.liquidity = Sig!Insert(@, m, snap.liquidity),
                       !.dates = Sig!Insert(@, m, snap.date)],
         NEW x, x.kind = "snapshot", x.market = m, x.what = snap, Grows(h, x, g)
  PROVE  SigBooks(t, g)
<1>2. x.kind = "snapshot" /\ x.market = m /\ x.what = snap
  OBVIOUS
<1>3. Grows(h, x, g)
  OBVIOUS
<1>4. PICK map : map = IF ValidQuotes(snap) THEN Sig!Insert(s.spreads, m, <<snap.bid, snap.ask>>) ELSE s.spreads
  OBVIOUS
<1>5. IF ValidQuotes(snap)
      THEN /\ DOMAIN map = DOMAIN s.spreads \cup {m} /\ map[m] = <<snap.bid, snap.ask>>
           /\ \A k \in DOMAIN s.spreads : k # m => map[k] = s.spreads[k]
      ELSE map = s.spreads
  BY <1>4 DEF Sig!Insert
<1>6. PICK liq : liq = Sig!Insert(s.liquidity, m, snap.liquidity)
  OBVIOUS
<1>7. \A k \in DOMAIN liq : liq[k] \in Int
  <2>1. snap.liquidity \in Int /\ \A k \in DOMAIN s.liquidity : s.liquidity[k] \in Int
    BY DEF Sig!SignalConstants, SigBooks, SigTyped
  <2> QED
    BY <1>6, <2>1 DEF Sig!Insert
<1>8. PICK dates : dates = Sig!Insert(s.dates, m, snap.date)
  OBVIOUS
<1>9. \A k \in DOMAIN dates : \E sn \in Snapshots : dates[k] = sn.date
  <2>1. \A k \in DOMAIN s.dates : \E sn \in Snapshots : s.dates[k] = sn.date
    BY DEF SigBooks, SigTyped
  <2> QED
    BY <1>8, <2>1 DEF Sig!Insert
<1>10. /\ DOMAIN t = DOMAIN s /\ t.beliefs = s.beliefs /\ t.prices = s.prices /\ t.spreads = map
       /\ t.liquidity = liq /\ t.dates = dates /\ t.seen = s.seen \cup {m}
  BY <1>4, <1>6, <1>8 DEF SigBooks, SigTyped
<1>11. \A k \in DOMAIN map : \E sn \in Snapshots : map[k] = <<sn.bid, sn.ask>>
  <2> SUFFICES ASSUME NEW k \in DOMAIN map PROVE \E sn \in Snapshots : map[k] = <<sn.bid, sn.ask>>
    OBVIOUS
  <2>1. (k \in DOMAIN s.spreads /\ map[k] = s.spreads[k]) \/ map[k] = <<snap.bid, snap.ask>>
    BY <1>5
  <2>2. \A j \in DOMAIN s.spreads : \E sn \in Snapshots : s.spreads[j] = <<sn.bid, sn.ask>>
    BY DEF SigBooks, SigTyped
  <2> QED
    BY <2>1, <2>2
<1>12. SigTyped(t)
  BY <1>7, <1>9, <1>10, <1>11 DEF SigBooks, SigTyped
<1>13. ASSUME NEW k \in Markets, k # m
       PROVE  OfMarket(t, g, k)
  <2>1. SameAt(s, t, k)
    BY <1>5, <1>10, <1>13 DEF SameAt
  <2> QED
    BY <1>2, <1>3, <1>13, <2>1, OthersStay DEF SigBooks
<1>14. OfMarket(t, g, m)
  <2>1. KeptLast(t.prices, g, m, "market")
    BY <1>2, <1>3, <1>10, KeptStays DEF SigBooks, OfMarket
  <2>2. KeptLast(t.beliefs, g, m, "posterior")
    BY <1>2, <1>3, <1>10, KeptStays DEF SigBooks, OfMarket
  <2>3. SpreadKept(t.spreads, g, m)
    <3>1. CASE ValidQuotes(snap)
      <4>1. m \in DOMAIN t.spreads /\ t.spreads[m] = <<x.what.bid, x.what.ask>> /\ ValidQuotes(x.what)
        BY <1>2, <1>5, <1>10, <3>1
      <4> QED
        BY <1>2, <1>3, <4>1, SpreadAnew
    <3>2. CASE ~ValidQuotes(snap)
      <4>1. SpreadKept(s.spreads, h, m) /\ t.spreads = s.spreads
        BY <1>5, <1>10, <3>2 DEF SigBooks, OfMarket
      <4>2. /\ x.kind # "tick" \/ RecentOf(h, m)
            /\ ~(x.kind = "snapshot" /\ x.market = m /\ ValidQuotes(x.what))
        BY <1>2, <3>2
      <4> QED
        BY <1>3, <4>1, <4>2, SpreadStays
    <3> QED
      BY <3>1, <3>2
  <2>4. RecentOf(g, m)
    BY <1>2, <1>3, RecentGrows
  <2> QED
    BY <1>10, <2>1, <2>2, <2>3, <2>4 DEF OfMarket
<1> QED
  BY <1>3, <1>12, <1>13, <1>14, EventsGrow DEF SigBooks

\* A tick keeps what is known of the markets heard of since the one before,
\* and nothing of the others, whose events it silences.
LeftOf(map, next, seen) ==
  DOMAIN next = DOMAIN map \cap seen /\ \A k \in DOMAIN next : next[k] = map[k]

LEMMA TickBooks ==
  ASSUME NEW s, NEW h, SigBooks(s, h), NEW t, NEW g,
         t = Sig!Evicted(s), NEW x, x.kind = "tick", Grows(h, x, g)
  PROVE  SigBooks(t, g)
<1>2. x.kind = "tick"
  OBVIOUS
<1>3. Grows(h, x, g)
  OBVIOUS
<1>4. ASSUME NEW map
      PROVE  LeftOf(map, Sig!RemoveAll(map, (DOMAIN map) \ s.seen), s.seen)
  BY DEF LeftOf, Sig!RemoveAll, Sig!Restrict
<1>5. /\ DOMAIN t = DOMAIN s /\ t.seen = {}
      /\ LeftOf(s.beliefs, t.beliefs, s.seen) /\ LeftOf(s.prices, t.prices, s.seen)
      /\ LeftOf(s.spreads, t.spreads, s.seen) /\ LeftOf(s.liquidity, t.liquidity, s.seen)
      /\ LeftOf(s.dates, t.dates, s.seen)
  <2>1. /\ DOMAIN t = DOMAIN s /\ t.seen = {}
        /\ t.beliefs = Sig!RemoveAll(s.beliefs, (DOMAIN s.beliefs) \ s.seen)
        /\ t.prices = Sig!RemoveAll(s.prices, (DOMAIN s.prices) \ s.seen)
        /\ t.spreads = Sig!RemoveAll(s.spreads, (DOMAIN s.spreads) \ s.seen)
        /\ t.liquidity = Sig!RemoveAll(s.liquidity, (DOMAIN s.liquidity) \ s.seen)
        /\ t.dates = Sig!RemoveAll(s.dates, (DOMAIN s.dates) \ s.seen)
    BY DEF Sig!Evicted, SigBooks, SigTyped
  <2> QED
    BY <1>4, <2>1
<1>6. SigTyped(t)
  <2>1. SigTyped(s)
    BY DEF SigBooks
  <2>2. \A m \in DOMAIN t.beliefs : t.beliefs[m] \in SigBeliefs
    BY <1>5, <2>1 DEF SigTyped, LeftOf
  <2>3. \A m \in DOMAIN t.prices : t.prices[m] \in SigPrices
    BY <1>5, <2>1 DEF SigTyped, LeftOf
  <2>4. \A m \in DOMAIN t.spreads : \E snap \in Snapshots : t.spreads[m] = <<snap.bid, snap.ask>>
    <3> SUFFICES ASSUME NEW m \in DOMAIN t.spreads PROVE \E snap \in Snapshots : t.spreads[m] = <<snap.bid, snap.ask>>
      OBVIOUS
    <3>1. m \in DOMAIN s.spreads /\ t.spreads[m] = s.spreads[m]
      BY <1>5 DEF LeftOf
    <3> QED
      BY <2>1, <3>1 DEF SigTyped
  <2>5. \A m \in DOMAIN t.liquidity : t.liquidity[m] \in Int
    BY <1>5, <2>1 DEF SigTyped, LeftOf
  <2>6. \A m \in DOMAIN t.dates : \E snap \in Snapshots : t.dates[m] = snap.date
    <3> SUFFICES ASSUME NEW m \in DOMAIN t.dates PROVE \E snap \in Snapshots : t.dates[m] = snap.date
      OBVIOUS
    <3>1. m \in DOMAIN s.dates /\ t.dates[m] = s.dates[m]
      BY <1>5 DEF LeftOf
    <3> QED
      BY <2>1, <3>1 DEF SigTyped
  <2> QED
    BY <1>5, <2>1, <2>2, <2>3, <2>4, <2>5, <2>6 DEF SigTyped
<1>7. ASSUME NEW m \in Markets
      PROVE  OfMarket(t, g, m)
  <2>1. OfMarket(s, h, m)
    BY DEF SigBooks
  <2>2. ~RecentOf(g, m) /\ m \notin t.seen
    BY <1>2, <1>3, <1>5, TickSilences
  <2>3. CASE m \in s.seen
    <3>1. RecentOf(h, m)
      BY <2>1, <2>3 DEF OfMarket
    <3>2. KeptLast(t.beliefs, g, m, "posterior")
      <4>1. m \in DOMAIN t.beliefs => m \in DOMAIN s.beliefs /\ t.beliefs[m] = s.beliefs[m]
        BY <1>5 DEF LeftOf
      <4>2. KeptLast(s.beliefs, h, m, "posterior")
        BY <2>1 DEF OfMarket
      <4>3. ~(x.kind = "posterior" /\ x.market = m)
        BY <1>2
      <4> QED
        BY <1>3, <3>1, <4>1, <4>2, <4>3, KeptStays
    <3>3. KeptLast(t.prices, g, m, "market")
      <4>1. m \in DOMAIN t.prices => m \in DOMAIN s.prices /\ t.prices[m] = s.prices[m]
        BY <1>5 DEF LeftOf
      <4>2. KeptLast(s.prices, h, m, "market")
        BY <2>1 DEF OfMarket
      <4>3. ~(x.kind = "market" /\ x.market = m)
        BY <1>2
      <4> QED
        BY <1>3, <3>1, <4>1, <4>2, <4>3, KeptStays
    <3>4. SpreadKept(t.spreads, g, m)
      <4>1. /\ m \in DOMAIN t.spreads <=> m \in DOMAIN s.spreads
            /\ m \in DOMAIN s.spreads => t.spreads[m] = s.spreads[m]
        BY <1>5, <2>3 DEF LeftOf
      <4>2. SpreadKept(s.spreads, h, m) /\ x.kind # "snapshot"
        BY <1>2, <2>1 DEF OfMarket
      <4> QED
        BY <1>3, <3>1, <4>1, <4>2, SpreadStays
    <3> QED
      BY <2>2, <3>2, <3>3, <3>4 DEF OfMarket
  <2>4. CASE m \notin s.seen
    <3>1. ~RecentOf(h, m)
      BY <2>1, <2>4 DEF OfMarket
    <3>2. m \notin DOMAIN t.beliefs /\ m \notin DOMAIN t.prices /\ m \notin DOMAIN t.spreads
      BY <1>5, <2>4 DEF LeftOf
    <3>3. SpreadsOf(g, m) = {}
      BY <1>2, <1>3, <3>1, AllDies
    <3> QED
      BY <2>2, <3>2, <3>3 DEF OfMarket, KeptLast, SpreadKept
  <2> QED
    BY <2>3, <2>4
<1> QED
  BY <1>3, <1>6, <1>7, EventsGrow DEF SigBooks

----------------------------------------------------------------------------
\* A signal on the last belief and price, neither silenced, that gains at
\* the last valid spread, or at the price without one.
GainAt(sig, entry) == (IF sig.dir = "Buy" THEN sig.posterior - entry ELSE entry - sig.posterior) - Cost >= MinEv

SpreadGains(sig, h, m) ==
  IF SpreadsOf(h, m) = {} THEN GainAt(sig, sig.price)
  ELSE \E i : /\ IsLast(i, SpreadsOf(h, m))
              /\ GainAt(sig, IF sig.dir = "Buy" THEN h[i].what.ask ELSE h[i].what.bid)

SigRight(sig, h) ==
  /\ \E i : /\ IsLast(i, HeardOf(h, {"posterior"}, sig.market)) /\ LiveOf(h, sig.market, i)
            /\ h[i].what.posterior = sig.posterior
  /\ \E i : /\ IsLast(i, HeardOf(h, {"market"}, sig.market)) /\ LiveOf(h, sig.market, i)
            /\ h[i].what = sig.price
  /\ SpreadGains(sig, h, sig.market)
  /\ sig.size \in 1..Cap

LEMMA SigSizeInCap ==
  ASSUME Sig!SignalConstants, NEW posterior \in Int, NEW side, side.entry \in Int,
         NEW liquidity \in Int, NEW date, date = <<>> \/ \E class \in DOMAIN TimeScale : date = <<class>>,
         NEW size, size = Sig!Scaled(Sig!ComputeKellyFraction(posterior, side), liquidity, date), size > 0
  PROVE  Sig!MinOf(size, Cap) \in 1..Cap
<1>1. Cap \in Nat /\ Unit \in Nat /\ KellyDen \in Nat \ {0} /\ Scale \in Nat /\ FullLiquidity \in Nat
  BY DEF Sig!SignalConstants
<1>2. PICK gain \in Int : gain = Sig!Magnitude(posterior - side.entry)
  BY DEF Sig!Magnitude
<1>3. PICK room \in Int : room = Sig!Room(side.dir, side.entry, Scale)
  BY <1>1 DEF Sig!Room
<1>4. PICK kelly : kelly = Sig!ComputeKellyFraction(posterior, side)
  OBVIOUS
<1>5. kelly = Edge!Sized(gain, room, KellyDen, Unit, Cap)
  BY <1>2, <1>3, <1>4 DEF Sig!ComputeKellyFraction, Sig!Sized, Edge!Sized, Sig!MinOf, Edge!MinOf, Sig!MaxOf, Edge!MaxOf
<1>6. kelly \in 0..Cap
  <2>1. CASE gain > 0 /\ room > 0
    <3>1. kelly \in Edge!MinOf(1, Cap)..Cap
      BY <1>1, <1>5, <2>1, SizedWithinCap
    <3> QED
      BY <1>1, <3>1 DEF Edge!MinOf
  <2>2. CASE gain <= 0 \/ room <= 0
    BY <1>1, <1>5, <2>2 DEF Edge!Sized
  <2> QED
    BY <2>1, <2>2
<1>7. PICK percent \in Int : percent = IF date = <<>> THEN 100 ELSE TimeScale[date[1]]
  <2>1. \A class \in DOMAIN TimeScale : TimeScale[class] \in Int
    BY DEF Sig!SignalConstants
  <2>2. CASE date = <<>>
    BY <2>2
  <2>3. CASE \E class \in DOMAIN TimeScale : date = <<class>>
    <3>1. PICK class \in DOMAIN TimeScale : date = <<class>>
      BY <2>3
    <3>2. date # <<>> /\ date[1] = class
      BY <3>1
    <3> QED
      BY <2>1, <3>2
  <2> QED
    BY <2>2, <2>3
<1>8. PICK liquid \in Int : liquid = IF FullLiquidity = 0 THEN 1 ELSE Sig!MinOf(liquidity, FullLiquidity)
  BY <1>1 DEF Sig!MinOf
<1>9. PICK den \in Int : den = Sig!MaxOf(FullLiquidity, 1) * 100 /\ den > 0
  BY <1>1 DEF Sig!MaxOf
<1>10. PICK num \in Int : num = kelly * liquid * percent
  BY <1>6
<1>11. size = IF kelly = 0 \/ liquid <= 0 THEN 0 ELSE Sig!MaxOf(1, num \div den)
  BY <1>4, <1>7, <1>8, <1>9, <1>10 DEF Sig!Scaled
<1>12. num \div den \in Int
  BY <1>9
<1>13. size \in Int /\ kelly # 0
  BY <1>11, <1>12 DEF Sig!MaxOf
<1> QED
  BY <1>1, <1>6, <1>13 DEF Sig!MinOf

LEMMA SigEntry ==
  ASSUME Sig!SignalConstants, NEW s, NEW h, SigBooks(s, h), NEW m \in Markets, m \in DOMAIN s.prices,
         NEW e, e = Sig!Entry(Sig!GetOr(s.spreads, m, <<>>), s.prices[m])
  PROVE  /\ e[1] \in Int /\ e[2] \in Int
         /\ IF SpreadsOf(h, m) = {} THEN e[1] = s.prices[m] /\ e[2] = s.prices[m]
            ELSE \E i : IsLast(i, SpreadsOf(h, m)) /\ e[1] = h[i].what.bid /\ e[2] = h[i].what.ask
<1>1. PICK p \in Int : p = s.prices[m]
  BY DEF Sig!SignalConstants, SigBooks, SigTyped
<1>2. SpreadKept(s.spreads, h, m)
  BY DEF SigBooks, OfMarket
<1>3. CASE m \in DOMAIN s.spreads
  <2>1. PICK i : IsLast(i, SpreadsOf(h, m)) /\ s.spreads[m] = <<h[i].what.bid, h[i].what.ask>>
    BY <1>2, <1>3 DEF SpreadKept
  <2>2. PICK snap \in Snapshots : s.spreads[m] = <<snap.bid, snap.ask>>
    BY <1>3 DEF SigBooks, SigTyped
  <2>3. snap.bid \in Int /\ snap.ask \in Int
    BY DEF Sig!SignalConstants
  <2>4. PICK b \in Int, a \in Int : b = h[i].what.bid /\ a = h[i].what.ask /\ s.spreads[m] = <<b, a>>
    BY <2>1, <2>2, <2>3
  <2>5. b > 0 /\ a < Scale /\ b < a
    BY <2>1, <2>4 DEF IsLast, SpreadsOf, ValidQuotes
  <2>6. SpreadsOf(h, m) # {}
    BY <2>1 DEF IsLast
  <2>7. PICK spread : spread = <<b, a>>
    OBVIOUS
  <2>8. spread # <<>> /\ spread[1] = b /\ spread[2] = a
    BY <2>7
  <2>9. e = Sig!Entry(spread, p)
    BY <1>1, <1>3, <2>4, <2>7 DEF Sig!GetOr
  <2>10. e = spread
    BY <2>5, <2>8, <2>9 DEF Sig!Entry
  <2> QED
    BY <2>1, <2>4, <2>6, <2>8, <2>10
<1>4. CASE m \notin DOMAIN s.spreads
  <2>1. SpreadsOf(h, m) = {}
    BY <1>2, <1>4 DEF SpreadKept
  <2>2. e = <<p, p>>
    BY <1>1, <1>4 DEF Sig!GetOr, Sig!Entry
  <2> QED
    BY <1>1, <2>1, <2>2
<1> QED
  BY <1>3, <1>4

LEMMA EmitRight ==
  ASSUME Sig!SignalConstants, NEW s, NEW h, SigBooks(s, h), NEW m \in Markets,
         m \in DOMAIN s.beliefs, m \in DOMAIN s.prices, NEW sig \in Sig!TryEmitSignal(s, m)
  PROVE  SigRight(sig, h)
<1> DEFINE b == s.beliefs[m].posterior
           p == s.prices[m]
           e == Sig!Entry(Sig!GetOr(s.spreads, m, <<>>), p)
           liquidity == Sig!GetOr(s.liquidity, m, 0)
           date == Sig!GetOr(s.dates, m, <<>>)
           size(side) == Sig!Scaled(Sig!ComputeKellyFraction(b, side), liquidity, date)
<1>1. b \in Int /\ p \in Int /\ Cost \in Int /\ MinEv \in Int
  <2>1. s.beliefs[m] \in SigBeliefs /\ s.prices[m] \in SigPrices
    BY DEF SigBooks, SigTyped
  <2>2. \A belief \in SigBeliefs : belief.posterior \in Int
    BY DEF Sig!SignalConstants
  <2>3. \A price \in SigPrices : price \in Int
    BY DEF Sig!SignalConstants
  <2>4. Cost \in Int /\ MinEv \in Int
    BY DEF Sig!SignalConstants
  <2>5. b \in Int
    BY <2>1, <2>2
  <2>6. p \in Int
    BY <2>1, <2>3
  <2> QED
    BY <2>4, <2>5, <2>6
<1>2. liquidity \in Int
  BY DEF Sig!GetOr, SigBooks, SigTyped
<1>3. date = <<>> \/ \E class \in DOMAIN TimeScale : date = <<class>>
  <2>1. CASE m \in DOMAIN s.dates
    <3>1. PICK snap \in Snapshots : s.dates[m] = snap.date
      BY <2>1 DEF SigBooks, SigTyped
    <3> QED
      BY <2>1, <3>1 DEF Sig!GetOr, Sig!SignalConstants
  <2>2. CASE m \notin DOMAIN s.dates
    BY <2>2 DEF Sig!GetOr
  <2> QED
    BY <2>1, <2>2
<1>4. /\ e[1] \in Int /\ e[2] \in Int
      /\ IF SpreadsOf(h, m) = {} THEN e[1] = p /\ e[2] = p
         ELSE \E i : IsLast(i, SpreadsOf(h, m)) /\ e[1] = h[i].what.bid /\ e[2] = h[i].what.ask
  BY SigEntry
<1>5. PICK side \in Sig!ComputeExpectedValue(b, p, Sig!GetOr(s.spreads, m, <<>>)) :
        /\ side.ev >= MinEv /\ size(side) > 0
        /\ sig = [market |-> m, dir |-> side.dir, ev |-> side.ev, size |-> Sig!MinOf(size(side), Cap),
                  posterior |-> b, price |-> p]
  BY Zenon DEF Sig!TryEmitSignal
<1> HIDE DEF e
<1>6. \/ side = [dir |-> "Buy", ev |-> b - e[2] - Cost, entry |-> e[2]]
      \/ side = [dir |-> "Sell", ev |-> e[1] - b - Cost, entry |-> e[1]]
  BY <1>5, Zenon DEF Sig!ComputeExpectedValue, e
<1>7. /\ sig.market = m /\ sig.dir = side.dir /\ sig.size = Sig!MinOf(size(side), Cap)
      /\ sig.posterior = b /\ sig.price = p
  BY <1>5
<1>8. sig.size \in 1..Cap
  <2>1. side.entry \in Int
    BY <1>4, <1>6
  <2> HIDE DEF b, liquidity, date
  <2> QED
    BY <1>1, <1>2, <1>3, <1>5, <1>7, <2>1, SigSizeInCap
<1>9. PICK entry \in Int : entry = side.entry
  BY <1>4, <1>6
<1> HIDE DEF b, p, liquidity, date, size
<1>10. GainAt(sig, entry) /\ entry = IF sig.dir = "Buy" THEN e[2] ELSE e[1]
  BY <1>1, <1>4, <1>5, <1>6, <1>7, <1>9 DEF GainAt
<1>11. SpreadGains(sig, h, m)
  BY <1>4, <1>7, <1>10 DEF SpreadGains
<1>12. KeptLast(s.beliefs, h, m, "posterior") /\ KeptLast(s.prices, h, m, "market")
  BY DEF SigBooks, OfMarket
<1> QED
  BY <1>7, <1>8, <1>11, <1>12 DEF SigRight, KeptLast, b, p

----------------------------------------------------------------------------
SigInv ==
  /\ Sig!SignalConstants
  /\ SigBooks(state, hist)
  /\ \A sig \in out : SigRight(sig, hist)

SigPart == which = "sig" => SigInv

\* An event that is heard is the next of the history.
LEMMA HeardEvent ==
  ASSUME SigBooks(state, hist), NEW kind \in SigKinds, NEW m \in SigMarkets,
         NEW what \in SigWhats, Sig!Heard(kind, m, what)
  PROVE  \E x : x.kind = kind /\ x.market = m /\ x.what = what /\ Grows(hist, x, hist')
<1>1. PICK x : x = [kind |-> kind, market |-> m, what |-> what]
  OBVIOUS
<1>2. x \in SigEvents
  BY <1>1 DEF SigEvents
<1>3. x.kind = kind /\ x.market = m /\ x.what = what
  BY <1>1
<1>4. hist' = Append(hist, x)
  BY <1>1 DEF Sig!Heard
<1>5. hist \in Seq(SigEvents)
  BY DEF SigBooks
<1> QED
  BY <1>2, <1>3, <1>4, <1>5, Zenon DEF Grows

LEMMA SigStep ==
  ASSUME SigInv, [Sig!Next]_(Sig!vars)
  PROVE  SigInv'
<1>1. Sig!SignalConstants /\ SigBooks(state, hist)
  BY DEF SigInv
<1>2. CASE UNCHANGED Sig!vars
  BY <1>2 DEF Sig!vars, SigInv
<1>3. ASSUME NEW m \in Markets, NEW b \in SigBeliefs, Sig!OnPosterior(m, b)
      PROVE  SigInv'
  <2> DEFINE next == [state EXCEPT !.beliefs = Sig!Insert(@, m, b)]
  <2>1. /\ state' = next /\ Sig!Heard("posterior", m, b)
        /\ out' = IF m \in DOMAIN state.prices THEN Sig!TryEmitSignal(next, m) ELSE {}
    BY <1>3, Zenon DEF Sig!OnPosterior
  <2>2. SigBooks(state', hist')
    <3>1. "posterior" \in SigKinds /\ m \in SigMarkets /\ b \in SigWhats
      BY Zenon DEF SigKinds, SigMarkets, SigWhats
    <3>2. PICK x : x.kind = "posterior" /\ x.market = m /\ x.what = b /\ Grows(hist, x, hist')
      BY <1>1, <2>1, <3>1, HeardEvent
    <3> QED
      BY <1>1, <2>1, <3>2, PosteriorBooks
  <2>3. m \in DOMAIN state'.beliefs /\ state'.prices = state.prices
    BY <1>1, <2>1 DEF Sig!Insert, SigBooks, SigTyped
  <2>4. \A sig \in out' : SigRight(sig, hist')
    BY <1>1, <2>1, <2>2, <2>3, EmitRight
  <2> QED
    BY <1>1, <2>2, <2>4 DEF SigInv
<1>4. ASSUME NEW m \in Markets, NEW p \in SigPrices, NEW l \in Liquidities, Sig!OnMarket(m, p, l)
      PROVE  SigInv'
  <2> DEFINE next == [state EXCEPT !.prices = Sig!Insert(@, m, p), !.seen = @ \cup {m},
                                   !.liquidity = IF m \in DOMAIN @ THEN @ ELSE Sig!Insert(@, m, l)]
  <2>1. /\ state' = next /\ Sig!Heard("market", m, p)
        /\ out' = IF m \in DOMAIN state.beliefs THEN Sig!TryEmitSignal(next, m) ELSE {}
    BY <1>4, Zenon DEF Sig!OnMarket
  <2>2. SigBooks(state', hist')
    <3>1. "market" \in SigKinds /\ m \in SigMarkets /\ p \in SigWhats
      BY Zenon DEF SigKinds, SigMarkets, SigWhats
    <3>2. PICK x : x.kind = "market" /\ x.market = m /\ x.what = p /\ Grows(hist, x, hist')
      BY <1>1, <2>1, <3>1, HeardEvent
    <3> QED
      BY <1>1, <2>1, <3>2, MarketBooks
  <2>3. m \in DOMAIN state'.prices /\ state'.beliefs = state.beliefs
    BY <1>1, <2>1 DEF Sig!Insert, SigBooks, SigTyped
  <2>4. \A sig \in out' : SigRight(sig, hist')
    BY <1>1, <2>1, <2>2, <2>3, EmitRight
  <2> QED
    BY <1>1, <2>2, <2>4 DEF SigInv
<1>5. ASSUME NEW m \in Markets, NEW snap \in Snapshots, Sig!OnMarketSnapshot(m, snap)
      PROVE  SigInv'
  <2>1. ValidQuotes(snap) <=> snap.bid > 0 /\ snap.ask > snap.bid /\ snap.ask < Scale
    BY <1>1 DEF ValidQuotes, Sig!SignalConstants
  <2>2. /\ state' = [state EXCEPT !.seen = @ \cup {m},
                                  !.spreads = IF ValidQuotes(snap) THEN Sig!Insert(@, m, <<snap.bid, snap.ask>>) ELSE @,
                                  !.liquidity = Sig!Insert(@, m, snap.liquidity),
                                  !.dates = Sig!Insert(@, m, snap.date)]
        /\ Sig!Heard("snapshot", m, snap)
        /\ out' = {}
    BY <1>5, <2>1 DEF Sig!OnMarketSnapshot
  <2>3. SigBooks(state', hist')
    <3>1. "snapshot" \in SigKinds /\ m \in SigMarkets /\ snap \in SigWhats
      BY Zenon DEF SigKinds, SigMarkets, SigWhats
    <3>2. PICK x : x.kind = "snapshot" /\ x.market = m /\ x.what = snap /\ Grows(hist, x, hist')
      BY <1>1, <2>2, <3>1, HeardEvent
    <3> QED
      BY <1>1, <2>2, <3>2, SnapshotBooks
  <2> QED
    BY <1>1, <2>2, <2>3 DEF SigInv
<1>6. ASSUME Sig!EvictionTick
      PROVE  SigInv'
  <2>1. PICK m \in SigMarkets, what \in SigWhats :
          state' = Sig!Evicted(state) /\ out' = {} /\ Sig!Heard("tick", m, what)
    BY <1>6, Zenon DEF Sig!EvictionTick, SigMarkets, SigWhats
  <2>2. SigBooks(state', hist')
    <3>1. "tick" \in SigKinds
      BY DEF SigKinds
    <3>2. PICK x : x.kind = "tick" /\ Grows(hist, x, hist')
      BY <1>1, <2>1, <3>1, HeardEvent
    <3> QED
      BY <1>1, <2>1, <3>2, TickBooks
  <2> QED
    BY <1>1, <2>1, <2>2 DEF SigInv
<1> QED
  BY <1>2, <1>3, <1>4, <1>5, <1>6 DEF Sig!Next

\* The property, in the words of the history.
CurrentSignal(sig, h) ==
  LET last(ks) == CHOOSE k \in ks : \A j \in ks : j <= k
      spreads == SpreadsOf(h, sig.market)
      entry == IF spreads = {} THEN sig.price
               ELSE IF sig.dir = "Buy" THEN h[last(spreads)].what.ask ELSE h[last(spreads)].what.bid
  IN /\ HeardOf(h, {"posterior"}, sig.market) # {} /\ HeardOf(h, {"market"}, sig.market) # {}
     /\ LET b == last(HeardOf(h, {"posterior"}, sig.market))
            p == last(HeardOf(h, {"market"}, sig.market))
        IN /\ LiveOf(h, sig.market, b) /\ LiveOf(h, sig.market, p)
           /\ h[b].what.posterior = sig.posterior /\ h[p].what = sig.price
     /\ GainAt(sig, entry)
     /\ sig.size \in 1..Cap

LEMMA RightIsCurrent ==
  ASSUME NEW sig, NEW h, h \in Seq(SigEvents), SigRight(sig, h)
  PROVE  CurrentSignal(sig, h)
<1> DEFINE last(ks) == CHOOSE k \in ks : \A j \in ks : j <= k
<1>1. ASSUME NEW S, S \subseteq 1..Len(h), NEW i, IsLast(i, S)
      PROVE  last(S) = i /\ S # {}
  <2>1. \A j \in S : j \in Int
    BY <1>1
  <2> QED
    BY <1>1, <2>1, ChosenIsLast DEF IsLast
<1>2. \A kinds : HeardOf(h, kinds, sig.market) \subseteq 1..Len(h)
  BY DEF HeardOf
<1>3. SpreadsOf(h, sig.market) \subseteq 1..Len(h)
  BY <1>2 DEF SpreadsOf
<1>4. PICK b : /\ IsLast(b, HeardOf(h, {"posterior"}, sig.market)) /\ LiveOf(h, sig.market, b)
               /\ h[b].what.posterior = sig.posterior
  BY DEF SigRight
<1>5. PICK p : /\ IsLast(p, HeardOf(h, {"market"}, sig.market)) /\ LiveOf(h, sig.market, p)
               /\ h[p].what = sig.price
  BY DEF SigRight
<1> HIDE DEF last
<1>6. last(HeardOf(h, {"posterior"}, sig.market)) = b /\ HeardOf(h, {"posterior"}, sig.market) # {}
  BY <1>1, <1>2, <1>4
<1>7. last(HeardOf(h, {"market"}, sig.market)) = p /\ HeardOf(h, {"market"}, sig.market) # {}
  BY <1>1, <1>2, <1>5
<1> DEFINE spreads == SpreadsOf(h, sig.market)
           entry == IF spreads = {} THEN sig.price
                    ELSE IF sig.dir = "Buy" THEN h[last(spreads)].what.ask ELSE h[last(spreads)].what.bid
<1>8. GainAt(sig, entry)
  <2>1. SpreadGains(sig, h, sig.market)
    BY DEF SigRight
  <2>2. CASE spreads = {}
    BY <2>1, <2>2 DEF SpreadGains
  <2>3. CASE spreads # {}
    <3>1. PICK i : /\ IsLast(i, spreads)
                   /\ GainAt(sig, IF sig.dir = "Buy" THEN h[i].what.ask ELSE h[i].what.bid)
      BY <2>1, <2>3, Zenon DEF SpreadGains
    <3>2. last(spreads) = i
      BY <1>1, <1>3, <3>1
    <3> QED
      BY <2>3, <3>1, <3>2
  <2> QED
    BY <2>2, <2>3
<1>9. sig.size \in 1..Cap
  BY DEF SigRight
<1> QED
  BY <1>4, <1>5, <1>6, <1>7, <1>8, <1>9, Zenon DEF CurrentSignal, last

\* A signal of signal_agent is the last belief against the last price of its
\* market, neither of them from before a silence that the eviction timer saw,
\* and it gains at the last valid spread: for all markets, prices, spreads
\* and configurations.
THEOREM SignalsAreCurrent == Spec => []SignalIsCurrent
<1>1. Sig!Init => SigInv
  <2> SUFFICES ASSUME Sig!Init PROVE SigInv
    OBVIOUS
  <2>1. /\ state = [beliefs |-> Sig!EmptyMap, prices |-> Sig!EmptyMap, spreads |-> Sig!EmptyMap,
                    liquidity |-> Sig!EmptyMap, dates |-> Sig!EmptyMap, seen |-> {}]
        /\ out = {} /\ hist = <<>> /\ DOMAIN Sig!EmptyMap = {}
    BY DEF Sig!Init, Sig!EmptyMap
  <2>2. Sig!SignalConstants
    BY StandaloneConstants
  <2>3. hist \in Seq(SigEvents) /\ SigTyped(state)
    BY <2>1 DEF SigTyped
  <2>4. ASSUME NEW m \in Markets PROVE OfMarket(state, hist, m)
    <3>1. \A kinds : HeardOf(hist, kinds, m) = {}
      BY <2>1 DEF HeardOf
    <3>2. SpreadsOf(hist, m) = {} /\ ~RecentOf(hist, m)
      BY <3>1 DEF SpreadsOf, RecentOf
    <3> QED
      BY <2>1, <3>2 DEF OfMarket, KeptLast, SpreadKept
  <2> QED
    BY <2>1, <2>2, <2>3, <2>4 DEF SigInv, SigBooks
<1>2. Init => SigPart
  BY <1>1 DEF Init, SigPart
<1>3. SigPart /\ [Next]_vars => SigPart'
  <2> SUFFICES ASSUME SigPart, [Next]_vars, which' = "sig" PROVE SigInv'
    BY DEF SigPart
  <2>1. which = "sig" /\ [Sig!Next]_(Sig!vars)
    BY DEF Next, vars, Sig!vars
  <2> QED
    BY <2>1, SigStep DEF SigPart
<1>4. SigPart => SignalIsCurrent
  <2> SUFFICES ASSUME SigInv PROVE Sig!SignalIsCurrent
    BY DEF SigPart, SignalIsCurrent
  <2> SUFFICES ASSUME NEW sig \in out
      PROVE  LET n == Len(hist)
                 at(kinds) == {k \in 1..n : hist[k].kind \in kinds /\ hist[k].market = sig.market}
                 ticks == {k \in 1..n : hist[k].kind = "tick"}
                 last(ks) == CHOOSE k \in ks : \A j \in ks : j <= k
                 before(t) == {k \in ticks : k < t}
                 silent(t) == \A k \in at({"market", "snapshot"}) : k > t \/ \E b \in before(t) : k < b
                 silences == {t \in ticks : silent(t)}
                 live(k) == \A t \in silences : t < k
                 spreads == {k \in at({"snapshot"}) : /\ live(k) /\ hist[k].what.bid > 0 /\ hist[k].what.ask < Scale
                                                      /\ hist[k].what.bid < hist[k].what.ask}
                 entry == IF spreads = {} THEN sig.price
                          ELSE IF sig.dir = "Buy" THEN hist[last(spreads)].what.ask
                          ELSE hist[last(spreads)].what.bid
                 gain == IF sig.dir = "Buy" THEN sig.posterior - entry ELSE entry - sig.posterior
             IN /\ at({"posterior"}) # {} /\ at({"market"}) # {}
                /\ LET b == last(at({"posterior"}))
                       p == last(at({"market"}))
                   IN live(b) /\ live(p) /\ hist[b].what.posterior = sig.posterior /\ hist[p].what = sig.price
                /\ gain - Cost >= MinEv
                /\ sig.size \in 1..Cap
    BY Zenon DEF Sig!SignalIsCurrent
  <2> DEFINE at(kinds) == {k \in 1..Len(hist) : hist[k].kind \in kinds /\ hist[k].market = sig.market}
             ticks == {k \in 1..Len(hist) : hist[k].kind = "tick"}
             last(ks) == CHOOSE k \in ks : \A j \in ks : j <= k
             before(t) == {k \in ticks : k < t}
             silent(t) == \A k \in at({"market", "snapshot"}) : k > t \/ \E b \in before(t) : k < b
             silences == {t \in ticks : silent(t)}
             live(k) == \A t \in silences : t < k
             spreads == {k \in at({"snapshot"}) : /\ live(k) /\ hist[k].what.bid > 0 /\ hist[k].what.ask < Scale
                                                  /\ hist[k].what.bid < hist[k].what.ask}
             entry == IF spreads = {} THEN sig.price
                      ELSE IF sig.dir = "Buy" THEN hist[last(spreads)].what.ask
                      ELSE hist[last(spreads)].what.bid
             gain == IF sig.dir = "Buy" THEN sig.posterior - entry ELSE entry - sig.posterior
  <2> SUFFICES /\ at({"posterior"}) # {} /\ at({"market"}) # {}
               /\ live(last(at({"posterior"}))) /\ live(last(at({"market"})))
               /\ hist[last(at({"posterior"}))].what.posterior = sig.posterior
               /\ hist[last(at({"market"}))].what = sig.price
               /\ gain - Cost >= MinEv
               /\ sig.size \in 1..Cap
    BY Zenon
  <2>1. at({"posterior"}) = HeardOf(hist, {"posterior"}, sig.market) /\ at({"market"}) = HeardOf(hist, {"market"}, sig.market)
    BY Zenon DEF HeardOf
  <2>2. \A k : live(k) <=> LiveOf(hist, sig.market, k)
    BY Zenon DEF LiveOf, SilencesOf, SilentAt, TicksOf, HeardOf
  <2>3. at({"snapshot"}) = HeardOf(hist, {"snapshot"}, sig.market)
    BY Zenon DEF HeardOf
  <2> HIDE DEF live, at, last
  <2>4. spreads = SpreadsOf(hist, sig.market)
    BY <2>2, <2>3 DEF SpreadsOf, ValidQuotes
  <2> HIDE DEF spreads
  <2>5. CurrentSignal(sig, hist)
    BY RightIsCurrent DEF SigInv, SigBooks
  <2>6. /\ at({"posterior"}) # {} /\ at({"market"}) # {}
        /\ LiveOf(hist, sig.market, last(at({"posterior"}))) /\ LiveOf(hist, sig.market, last(at({"market"})))
        /\ hist[last(at({"posterior"}))].what.posterior = sig.posterior
        /\ hist[last(at({"market"}))].what = sig.price
        /\ GainAt(sig, entry)
        /\ sig.size \in 1..Cap
    BY <2>1, <2>4, <2>5, Zenon DEF CurrentSignal, last
  <2> QED
    BY <2>2, <2>6 DEF GainAt
<1> QED
  BY <1>2, <1>3, <1>4, PTL DEF Spec
=============================================================================

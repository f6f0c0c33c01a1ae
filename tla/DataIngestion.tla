--------------------------- MODULE DataIngestion ---------------------------
(***************************************************************************)
(* crates/data_ingestion: one polling task for markets, news, social media *)
(* and the economy.  A task waits for its ticker and for a token of its    *)
(* rate limiter, asks its connectors, writes the shared cache under one    *)
(* lock, and publishes after it.  The tasks run beside one another, so     *)
(* each publication, and each wait, is a step of its own.                  *)
(*                                                                         *)
(* A connector is <<kind, name>>: the code's Reddit and FRED connectors    *)
(* send one request per subreddit and series, which fail apart, so each    *)
(* is one here.  A page is what a request brings back; a missing key, a    *)
(* refusal and an unreadable answer all count as an empty page.            *)
(***************************************************************************)
EXTENDS Integers, Sequences, SequencesExt, RustStd

CONSTANTS
  Connectors,     \* the tasks that run, each with its connectors in order
  Pages,          \* for each kind of connector, the pages it may get
  Calendar,       \* the built-in calendar: [event, days]
  Lookahead,      \* calendar_lookahead_days
  Scale, MinProb, MaxProb, Spread,
  MaxNews, MaxTrends, MaxRetries,
  Interval,       \* poll_interval
  Rate, Capacity, TokenUnit,   \* tokens in units of 1 / TokenUnit
  MaxPolls, MaxClock           \* bounds: polls of a task, the last instant

VARIABLES
  state,   \* [clock, cancelled, poller: [phase, ticks, tokens, refilled, fetch, queue, since]]
  bus,     \* everything published so far
  cache    \* the SnapshotCache

vars == <<state, bus, cache>>

Pollers == DOMAIN Connectors
Each(Op(_), s) == [i \in DOMAIN s |-> Op(s[i])]
Event(kind, what) == [kind |-> kind, what |-> what]

----------------------------------------------------------------------------
(* Connectors and normalisers: what a page becomes.                        *)

\* normalize_markets: an ask below the bid is raised to it.
Snapshot(platform, r, p, bid, ask) ==
  [market |-> r.id, title |-> r.title, prob |-> p, platform |-> platform,
   bid |-> Clamp(bid, 0, Scale), ask |-> Clamp(ask, Clamp(bid, 0, Scale), Scale)]

PolyMarkets(page) ==
  LET wanted(r) == r.active /\ r.price # <<>> /\ MinProb < r.price[1] /\ r.price[1] < MaxProb
      snap(r) == Snapshot("polymarket", r, r.price[1], MaxOf(MinProb, r.price[1] - Spread),
                          MinOf(MaxProb, r.price[1] + Spread))
  IN Each(snap, SelectSeq(page, wanted))

\* The mid of the quotes when there is one, even if a side is missing (0).
KalshiMarkets(page) ==
  LET prob(r) == IF r.bid > 0 \/ r.ask > 0 THEN (r.bid + r.ask) \div 2 ELSE r.last
      wanted(r) == r.active /\ MinProb < prob(r) /\ prob(r) < MaxProb
      snap(r) == Snapshot("kalshi", r, prob(r),
                          IF r.bid > 0 THEN r.bid ELSE MaxOf(MinProb, prob(r) - Spread),
                          IF r.ask > 0 THEN r.ask ELSE MinOf(MaxProb, prob(r) + Spread))
  IN Each(snap, SelectSeq(page, wanted))

\* An article without an address (0) or a headline is skipped.
NewsApiHeadlines(page) == SelectSeq(page, LAMBDA a : a.id # 0 /\ a.headline # <<>>)
AlphaVantageHeadlines(page) == NewsApiHeadlines(page)

\* How much is said about a topic in an hour, if anything.
RedditTrends(topic, page) == IF page = <<>> THEN <<>> ELSE <<[topic |-> topic, rate |-> Len(page)]>>
TwitterTrends(topic, page) == RedditTrends(topic, page)

\* The last observation that is there, and the one before it.
FredReleases(series, page) ==
  LET valid == SelectSeq(page, LAMBDA o : o # <<>>)
  IN IF valid = <<>> THEN <<>>
     ELSE <<[indicator |-> series, value |-> valid[1], previous |-> IF Len(valid) > 1 THEN valid[2] ELSE <<>>]>>

TradingEconomicsReleases(page) ==
  Each(LAMBDA e : [indicator |-> e.indicator, value |-> e.actual, previous |-> e.previous],
       SelectSeq(page, LAMBDA e : e.actual # <<>>))

Parsed(c, page) ==
  CASE c[1] = "polymarket" -> PolyMarkets(page)
    [] c[1] = "kalshi" -> KalshiMarkets(page)
    [] c[1] = "news_api" -> NewsApiHeadlines(page)
    [] c[1] = "alpha_vantage" -> AlphaVantageHeadlines(page)
    [] c[1] = "reddit" -> RedditTrends(c[2], page)
    [] c[1] = "twitter" -> TwitterTrends(c[2], page)
    [] c[1] = "fred" -> FredReleases(c[2], page)
    [] c[1] = "trading_economics" -> TradingEconomicsReleases(page)

----------------------------------------------------------------------------
(* The cache.                                                              *)

UpdateMarket(markets, snap) == Insert(markets, snap.market, snap)
HasNewsId(news, id) == \E i \in DOMAIN news : news[i].id = id

PushNews(news, e) ==
  IF HasNewsId(news, e.id) THEN news
  ELSE Append(IF Len(news) >= MaxNews THEN Tail(news) ELSE news, e)

\* Mutant: the caller does not look whether it has the item.
Fresh_All(news, batch) == [news |-> FoldLeft(PushNews, news, batch), fresh |-> batch]

\* The items of a batch that are new when they are reached, pushed one by one.
Fresh(news, batch) ==
  LET step(acc, e) == IF HasNewsId(acc.news, e.id) THEN acc
                      ELSE [news |-> PushNews(acc.news, e), fresh |-> Append(acc.fresh, e)]
  IN FoldLeft(step, [news |-> news, fresh |-> <<>>], batch)

\* The outcomes of a full map: any topic of the lowest rate may go.
UpdateTrend(trends, t) ==
  LET lowest == {k \in DOMAIN trends : \A j \in DOMAIN trends : trends[k] <= trends[j]}
  IN IF t.topic \notin DOMAIN trends /\ Cardinality(DOMAIN trends) >= MaxTrends
     THEN {Insert(RemoveAll(trends, {k}), t.topic, t.rate) : k \in lowest}
     ELSE {Insert(trends, t.topic, t.rate)}

Dedup(items) ==
  FoldLeft(LAMBDA acc, e : IF HasNewsId(acc, e.id) THEN acc ELSE Append(acc, e), <<>>, items)

\* score_headline: the good words against the bad ones.
Score(h) == IF h.pos + h.neg = 0 THEN 0 ELSE (Scale * (h.pos - h.neg)) \div (h.pos + h.neg)

\* Every connector gives its headlines no entity and this one topic.
Topics == {"news"}

MatchNewsToMarkets(e, markets) ==
  LET matched == {m \in DOMAIN markets : markets[m].title \cap Topics # {}}
  IN IF matched = {} THEN <<>>
     ELSE <<Event("Sentiment", [markets |-> matched, score |-> Score(e.headline[1])])>>

----------------------------------------------------------------------------
Unasked == [tries |-> 0, items |-> <<>>]     \* items: <<>>, or <<what came>>

Init ==
  /\ state = [clock |-> 0, cancelled |-> FALSE,
              poller |-> [p \in Pollers |->
                [phase |-> "idle", ticks |-> 0, tokens |-> Capacity, refilled |-> 0,
                 fetch |-> [i \in DOMAIN Connectors[p] |-> Unasked], queue |-> <<>>, since |-> 0]]]
  /\ bus = <<>>
  /\ cache = [markets |-> EmptyMap, news |-> <<>>, trends |-> EmptyMap,
              economic |-> EmptyMap, calendar |-> EmptyMap]

Moves(p, poller) == state' = [state EXCEPT !.poller[p] = poller]

\* Ticks missed while a poll took long come at once.
Tick(p) ==
  LET t == state.poller[p]
  IN /\ ~state.cancelled /\ t.phase = "idle"
     /\ t.ticks < MaxPolls /\ t.ticks * Interval <= state.clock
     /\ Moves(p, [t EXCEPT !.phase = "waiting", !.ticks = @ + 1])
     /\ UNCHANGED <<bus, cache>>

\* refill, then take a token if there is one; a failed try only refills.
Acquire(p) ==
  LET t == state.poller[p]
      tokens == MinOf(Capacity, t.tokens + Rate * (state.clock - t.refilled))
  IN /\ ~state.cancelled /\ t.phase = "waiting"
     /\ tokens >= TokenUnit
     /\ Moves(p, [t EXCEPT !.phase = "fetching", !.tokens = tokens - TokenUnit, !.refilled = state.clock,
                           !.fetch = [i \in DOMAIN @ |-> Unasked], !.since = Len(bus)])
     /\ UNCHANGED <<bus, cache>>

\* The news connectors are asked one after the other, the others together.
Outstanding(p, i) ==
  LET t == state.poller[p]
  IN /\ ~state.cancelled /\ t.phase = "fetching" /\ t.fetch[i].items = <<>>
     /\ p = "news" => \A j \in 1..(i - 1) : t.fetch[j].items # <<>>

Answered(p, i, page) ==
  /\ Outstanding(p, i)
  /\ state' = [state EXCEPT !.poller[p].fetch[i].items = <<Parsed(Connectors[p][i], page)>>]
  /\ UNCHANGED <<bus, cache>>

\* No connection, a timeout, 429 or 5xx: asked again, then given up.
TransientFailure(p, i) ==
  /\ Outstanding(p, i)
  /\ state' = [state EXCEPT !.poller[p].fetch[i] =
                 IF @.tries < MaxRetries THEN [@ EXCEPT !.tries = @ + 1] ELSE [@ EXCEPT !.items = <<<<>>>>]]
  /\ UNCHANGED <<bus, cache>>

\* Everything has come: what a failed connector would have brought is missing.
Batch(p) ==
  LET t == state.poller[p]
  IN FlattenSeq([i \in DOMAIN t.fetch |-> t.fetch[i].items[1]])

Fetched(p) ==
  /\ ~state.cancelled /\ state.poller[p].phase = "fetching"
  /\ \A i \in DOMAIN state.poller[p].fetch : state.poller[p].fetch[i].items # <<>>

AfterLast(p, phase) == IF p = "economic" /\ phase = "publishing" THEN "calendar" ELSE "idle"

\* To publish these, or to go on if there are none.
Publishing(p, phase, queue) ==
  Moves(p, [state.poller[p] EXCEPT !.phase = IF queue = <<>> THEN AfterLast(p, phase) ELSE phase,
                                   !.queue = queue])

\* MarketPollerRunner: every snapshot goes before every update.
StoreMarkets ==
  /\ "market" \in Pollers /\ Fetched("market")
  /\ LET snaps == Batch("market")
     IN /\ cache' = [cache EXCEPT !.markets = FoldLeft(UpdateMarket, @, snaps)]
        /\ Publishing("market", "publishing",
             Each(LAMBDA s : Event("MarketSnapshot", s), snaps)
               \o Each(LAMBDA s : Event("Market", [market |-> s.market, prob |-> s.prob]), snaps))
  /\ UNCHANGED bus

\* NewsPollerRunner keeps what is new and then reads the markets, under another lock.
StoreNews ==
  /\ "news" \in Pollers /\ Fetched("news")
  /\ LET kept == Fresh(cache.news, Dedup(Batch("news")))
     IN /\ cache' = [cache EXCEPT !.news = kept.news]
        /\ Moves("news", [state.poller["news"] EXCEPT !.phase = "reading", !.queue = kept.fresh])
  /\ UNCHANGED bus

ReadMarkets ==
  /\ "news" \in Pollers /\ ~state.cancelled /\ state.poller["news"].phase = "reading"
  /\ LET said(e) == MatchNewsToMarkets(e, cache.markets) \o <<Event("NewsEvent", e)>>
     IN Publishing("news", "publishing", FlattenSeq(Each(said, state.poller["news"].queue)))
  /\ UNCHANGED <<bus, cache>>

StoreTrends ==
  /\ "social" \in Pollers /\ Fetched("social")
  /\ LET trends == Batch("social")
         step(ts, t) == UNION {UpdateTrend(x, t) : x \in ts}
     IN /\ \E ts \in FoldLeft(step, {cache.trends}, trends) : cache' = [cache EXCEPT !.trends = ts]
        /\ Publishing("social", "publishing", Each(LAMBDA t : Event("SocialTrend", t), trends))
  /\ UNCHANGED bus

StoreReleases ==
  /\ "economic" \in Pollers /\ Fetched("economic")
  /\ LET releases == Batch("economic")
     IN /\ cache' = [cache EXCEPT !.economic = FoldLeft(LAMBDA m, r : Insert(m, r.indicator, r), @, releases)]
        /\ Publishing("economic", "publishing", Each(LAMBDA r : Event("EconomicRelease", r), releases))
  /\ UNCHANGED bus

\* The calendar is read when the last release is out.
StoreCalendar ==
  /\ "economic" \in Pollers /\ ~state.cancelled /\ state.poller["economic"].phase = "calendar"
  /\ LET events == SelectSeq(Calendar, LAMBDA e : e.days <= Lookahead)
     IN /\ cache' = [cache EXCEPT !.calendar = FoldLeft(LAMBDA m, e : Insert(m, e.event, e), @, events)]
        /\ Publishing("economic", "listing", Each(LAMBDA e : Event("CalendarEvent", e), events))
  /\ UNCHANGED bus

\* One event; the queue is published to its end even when cancelled.
Publish(p) ==
  LET t == state.poller[p]
  IN /\ t.phase \in {"publishing", "listing"}
     /\ bus' = Append(bus, Head(t.queue))
     /\ Publishing(p, t.phase, Tail(t.queue))
     /\ UNCHANGED cache

\* The token is cancelled; a task ends at its next wait, its poll undone.
Cancel ==
  /\ ~state.cancelled
  /\ state' = [state EXCEPT !.cancelled = TRUE]
  /\ UNCHANGED <<bus, cache>>

ShutDown(p) ==
  /\ state.cancelled
  /\ state.poller[p].phase \notin {"publishing", "listing", "stopped"}
  /\ Moves(p, [state.poller[p] EXCEPT !.phase = "stopped", !.queue = <<>>])
  /\ UNCHANGED <<bus, cache>>

Second ==
  /\ state.clock < MaxClock /\ ~state.cancelled
  /\ state' = [state EXCEPT !.clock = @ + 1]
  /\ UNCHANGED <<bus, cache>>

Next ==
  \/ \E p \in Pollers : Tick(p) \/ Acquire(p) \/ Publish(p) \/ ShutDown(p)
  \/ \E p \in Pollers : \E i \in DOMAIN Connectors[p] :
       \/ \E page \in Pages[Connectors[p][i][1]] \cup {<<>>} : Answered(p, i, page)
       \/ TransientFailure(p, i)
  \/ StoreMarkets \/ StoreNews \/ ReadMarkets \/ StoreTrends
  \/ StoreReleases \/ StoreCalendar
  \/ Cancel \/ Second

----------------------------------------------------------------------------
(***************************************************************************)
(* Properties.                                                             *)
(***************************************************************************)
Published(kind) == {i \in DOMAIN bus : bus[i].kind = kind}

\* What is out, and what a task is about to publish, in the order of the task.
Said(p) == bus \o SelectSeq(state.poller[p].queue, LAMBDA e : "kind" \in DOMAIN e)

\* The cache holds what was last said of each key, and nothing else.
Mirrors(map, p, kind, key) ==
  LET said == Said(p)
      of(k) == {i \in DOMAIN said : said[i].kind = kind /\ said[i].what[key] = k}
  IN /\ \A k \in DOMAIN map : of(k) # {}
     /\ \A i \in DOMAIN said : said[i].kind = kind =>
          LET k == said[i].what[key]
          IN /\ k \in DOMAIN map
             /\ (\A j \in of(k) : j <= i) => map[k] = said[i].what

\* A news item comes twice only if the cache has dropped it in between, with
\* as many others published since as the cache has room for.
NewsComesOnce ==
  \A i, j \in Published("NewsEvent") :
    i < j /\ bus[i].what.id = bus[j].what.id =>
      Cardinality({bus[k].what.id : k \in {k \in Published("NewsEvent") : i < k /\ k < j}}) >= MaxNews

\* A sentiment goes right before its news as far as the news task goes; its
\* markets are in the cache, and a fitting market said before the poll began
\* is not missed.
SentimentFindsMarkets ==
  LET ofNews == SelectSeq(bus, LAMBDA e : e.kind \in {"Sentiment", "NewsEvent"})
      fits(s) == s.title \cap Topics # {}
      since == state.poller["news"].since
  IN /\ \A i \in DOMAIN ofNews : ofNews[i].kind = "Sentiment" =>
          /\ i < Len(ofNews) => /\ ofNews[i + 1].kind = "NewsEvent"
                                /\ ofNews[i].what.score = Score(ofNews[i + 1].what.headline[1])
          /\ \A m \in ofNews[i].what.markets : m \in DOMAIN cache.markets
     /\ \A i \in Published("Sentiment") : i > since =>
          \A k \in Published("MarketSnapshot") :
            k <= since /\ fits(bus[k].what) => bus[k].what.market \in bus[i].what.markets
     /\ \A i \in Published("NewsEvent") :
          i > since /\ (\E k \in Published("MarketSnapshot") : k <= since /\ fits(bus[k].what)) =>
            \E s \in Published("Sentiment") : since < s /\ s < i

\* A market's price follows its snapshot, and agrees with it.
PriceFollowsSnapshot ==
  \A i \in Published("Market") :
    LET snaps == {k \in Published("MarketSnapshot") : k < i /\ bus[k].what.market = bus[i].what.market}
    IN \E k \in snaps : /\ \A l \in snaps : l <= k
                        /\ bus[k].what.prob = bus[i].what.prob
                        /\ bus[k].what.bid <= bus[k].what.ask

\* Whatever the tasks interleave, fail or skip: news comes once, with the
\* sentiment of every market it fits; a price follows its snapshot; the cache
\* agrees with what was published; and no task polls faster than its limiter.
IngestedOnceInOrder ==
  /\ "news" \in Pollers => NewsComesOnce /\ SentimentFindsMarkets
  /\ "market" \in Pollers => /\ PriceFollowsSnapshot
                             /\ Mirrors(cache.markets, "market", "MarketSnapshot", "market")
  /\ "economic" \in Pollers => /\ Mirrors(cache.economic, "economic", "EconomicRelease", "indicator")
                               /\ Mirrors(cache.calendar, "economic", "CalendarEvent", "event")
  /\ Cardinality(DOMAIN cache.trends) <= MaxTrends
  /\ \A p \in Pollers :
       LET t == state.poller[p]
           polls == IF t.phase = "waiting" THEN t.ticks - 1 ELSE t.ticks
       IN state.cancelled \/ polls * TokenUnit <= Capacity + Rate * state.clock
=============================================================================

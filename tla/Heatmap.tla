------------------------------- MODULE Heatmap -------------------------------
(***************************************************************************)
(* The stocks table, its synchronisation at start-up (main.py lifespan) or *)
(* by request (stock_router.py), and the heatmap of daily returns, which   *)
(* takes a symbol's market from that table and its closes from a cache of  *)
(* the process, Redis or the market's provider                             *)
(* (daily_returns_heatmap_usecase.py, heatmap_redis_cache.py).             *)
(*                                                                         *)
(* A heatmap request runs in a thread (asyncio.to_thread): the threads     *)
(* share the cache, a dictionary without a lock, and interleave anywhere.  *)
(* A cache key also holds the number of weeks and the day; here there is   *)
(* one of each.  An entry of either cache lives half an hour from the      *)
(* moment it is written, Life ticks; "age" counts the ticks since the      *)
(* provider answered and is a history variable, which the code does not    *)
(* have.  Against half an hour a step of a request takes no time.          *)
(***************************************************************************)
EXTENDS Orders, Sequences, SequencesExt

CONSTANTS Threads,
          HeatSymbols,
          SixDigits,    \* the symbols that are six digits
          MarketOf,     \* the Korean market a symbol is listed at, or NoMarket
          NoMarket,
          RowsFrom,     \* provider -> symbol -> the rows of its answer
          MaxDays,      \* weeks * 5 + 5
          Life          \* the ticks of _CACHE_TTL_SEC

Korean == {"KOSPI", "KOSDAQ", "KONEX"}
American == {"NASDAQ", "NYSE"}
Providers == {"DATA_GO_KR", "TWELVE_DATA"}
Unreadable == -1   \* a close that is missing or no number

ASSUME HeatmapAssumption ==
    /\ SixDigits \subseteq HeatSymbols
    /\ MarketOf \in [HeatSymbols -> Korean \cup {NoMarket}]
    /\ NoMarket \notin Korean \cup American
    /\ \A p \in Providers, s \in HeatSymbols :
          RowsFrom[p][s] \in Seq([of : STRING, day : Nat, close : Nat \cup {Unreadable}])
    /\ \A s \in HeatSymbols : \A i, j \in DOMAIN RowsFrom["TWELVE_DATA"][s] :
          RowsFrom["TWELVE_DATA"][s][i].day = RowsFrom["TWELVE_DATA"][s][j].day => i = j
    /\ MaxDays \in Nat \ {0} /\ Life \in Nat \ {0}

VARIABLES stocks,    \* symbol -> market of its row in the table, or Unlisted
          startup,   \* what the lifespan is about to do
          cache,     \* _cache: key -> closes, their age, and what is left of their time
          remote,    \* Redis: the same
          heatRequest   \* thread -> what its request is doing

heatmapVars == <<stocks, startup, cache, remote, heatRequest>>

Unlisted == "unlisted"
Key(provider, s) == [provider |-> provider, symbol |-> s]

NoRequest == [phase |-> "idle"]

HeatmapInit ==
    /\ stocks = [s \in HeatSymbols |-> Unlisted]
    /\ startup = "count"
    /\ cache = <<>>
    /\ remote = <<>>
    /\ heatRequest = [t \in Threads |-> NoRequest]

---------------------------------------------------------------------------
(* The stocks table.                                                       *)

Listed == {s \in HeatSymbols : MarketOf[s] # NoMarket}

\* bulk_upsert of what DART lists: it tells no market, and an upsert writes all
\* columns, so that a market known before is gone.
SyncCorpCode ==
    stocks' = [s \in HeatSymbols |-> IF s \in Listed THEN NoMarket ELSE stocks[s]]

\* fetch_market_map: the codes on the lists of the markets, each of which may
\* fail to download on its own; of a list only codes of six digits are taken.
FetchMarketMap ==
    {[s \in {x \in SixDigits : MarketOf[x] \in loaded} |-> MarketOf[s]] :
        loaded \in SUBSET Korean}

\* update_market_bulk of the symbols of such a map.
SyncMarket(map) ==
    stocks' = [s \in HeatSymbols |-> IF stocks[s] # Unlisted /\ s \in DOMAIN map
                                     THEN map[s] ELSE stocks[s]]

\* GET /stocks/sync and GET /stocks/sync-market.
RequestSync ==
    /\ startup = "done"
    /\ SyncCorpCode \/ \E map \in FetchMarketMap : SyncMarket(map)
    /\ UNCHANGED <<startup, cache, remote, heatRequest>>

\* A table that is not empty is left alone.
StartupCounts ==
    /\ startup = "count"
    /\ startup' = IF \A s \in HeatSymbols : stocks[s] = Unlisted
                  THEN "corp codes" ELSE "done"
    /\ UNCHANGED <<stocks, cache, remote, heatRequest>>

StartupSyncs ==
    /\ \/ startup = "corp codes" /\ SyncCorpCode /\ startup' = "markets"
       \/ /\ startup = "markets" /\ startup' = "done"
          /\ \E map \in FetchMarketMap : SyncMarket(map)
    /\ UNCHANGED <<cache, remote, heatRequest>>

\* Logged: the server starts with what the table holds.
StartupFails ==
    /\ startup \in {"corp codes", "markets"}
    /\ startup' = "done"
    /\ UNCHANGED <<stocks, cache, remote, heatRequest>>

\* The server ends and starts again: its threads and its cache are gone.
Restart ==
    /\ startup' = "count"
    /\ cache' = <<>>
    /\ heatRequest' = [t \in Threads |-> NoRequest]
    /\ UNCHANGED <<stocks, remote>>

---------------------------------------------------------------------------
(* The heatmap's helpers.                                                  *)

\* Mutant: without the rule of the six digits.
InferByTable(s, market) == IF market \in Korean \cup American THEN market ELSE "NASDAQ"
\* _infer_market: what is no Korean symbol by the table or by its six digits
\* counts as one of NASDAQ.
InferMarket(s, market) ==
    IF market \in Korean \cup American THEN market
    ELSE IF s \in SixDigits THEN "KOSPI" ELSE "NASDAQ"

Provider(market) == IF market \in Korean THEN "DATA_GO_KR" ELSE "TWELVE_DATA"

CacheKey(s, market) == Key(Provider(market), s)

\* Mutant: the rows of other symbols count as well.
AllReadable(rows, s) == {i \in DOMAIN rows : rows[i].close # Unreadable}
\* The rows of an answer that a symbol has a close of.
Readable(rows, s) == {i \in DOMAIN rows : rows[i].of = s /\ rows[i].close # Unreadable}

\* The rows at some places of an answer by their days, those of one day in the
\* order of the answer.
ByDay(rows, places) ==
    LET leq == {p \in places \X places :
                  \/ rows[p[1]].day < rows[p[2]].day
                  \/ rows[p[1]].day = rows[p[2]].day /\ p[1] <= p[2]}
        at == InOrder(places, leq)
    IN  [n \in DOMAIN at |-> [day |-> rows[at[n]].day, close |-> rows[at[n]].close]]

\* data.go.kr matches symbols loosely and may repeat a day: the last readable row
\* of each day counts.
DataGoKrCloses(rows, s) ==
    LET mine == Readable(rows, s)
    IN  ByDay(rows, {i \in mine : \A j \in mine : rows[j].day = rows[i].day => j <= i})

\* Twelve Data answers for the symbol asked, newest first.
TwelveDataCloses(rows) == ByDay(rows, {i \in DOMAIN rows : rows[i].close # Unreadable})

ClosesFrom(provider, s) ==
    IF provider = "DATA_GO_KR" THEN DataGoKrCloses(RowsFrom[provider][s], s)
    ELSE TwelveDataCloses(RowsFrom[provider][s])

\* _pct_to_bucket of the change from one close to the next.
Bucket(from, to) ==
    LET change == 1000 * (to - from)   \* in tenths of a percent, times from
    IN  CASE change >= 20 * from -> 2
          [] change >= 5 * from /\ change < 20 * from -> 1
          [] change <= -20 * from -> -2
          [] change <= -5 * from /\ change > -20 * from -> -1
          [] OTHER -> 0

\* _series_from_closes: the last MaxDays days whose day before has a price.
Returns(closes) ==
    LET days == Rising({i \in 2 .. Len(closes) : closes[i - 1].close > 0})
    IN  [n \in DOMAIN days |-> [day |-> closes[days[n]].day,
           bucket |-> Bucket(closes[days[n] - 1].close, closes[days[n]].close)]]

SeriesFromCloses(closes) ==
    LET all == Returns(closes)
        n == Len(all)
    IN  IF n > MaxDays THEN SubSeq(all, n - MaxDays + 1, n) ELSE all

Summarize(series) ==
    LET Days(Wanted(_)) == Cardinality({i \in DOMAIN series : Wanted(series[i].bucket)})
    IN  [up |-> Days(LAMBDA b : b > 0), down |-> Days(LAMBDA b : b < 0),
         flat |-> Days(LAMBDA b : b = 0)]

---------------------------------------------------------------------------
(* A request.                                                              *)

InPhase(t, p) == heatRequest[t].phase = p
SymbolInHand(t) == Head(heatRequest[t].todo)
Market(t) == InferMarket(SymbolInHand(t), heatRequest[t].table[SymbolInHand(t)])
CurrentKey(t) == CacheKey(SymbolInHand(t), Market(t))
Proceed(t, p) == heatRequest' = [heatRequest EXCEPT ![t].phase = p]

\* What can be asked: each symbol once, as execute drops repetitions.
Questions ==
    {q \in UNION {[1 .. n -> HeatSymbols] : n \in 1 .. Cardinality(HeatSymbols)} :
       \A i, j \in DOMAIN q : q[i] = q[j] => i = j}

\* GET /stocks/daily-returns-heatmap: the session reads one snapshot of the
\* table, whatever a synchronisation commits meanwhile.
AskHeatmap(t) ==
    /\ startup = "done"
    /\ InPhase(t, "idle") \/ InPhase(t, "answered")
    /\ \E asked \in Questions :
          heatRequest' = [heatRequest EXCEPT ![t] =
                        [phase |-> "cache", asked |-> asked, todo |-> asked,
                         table |-> stocks, items |-> {}, errors |-> {}]]
    /\ UNCHANGED <<stocks, startup, cache, remote>>

\* The loop's body ends with an item, or with an error if no day has a return.
SymbolSettled(t, closes, age) ==
    LET s == SymbolInHand(t)
        series == SeriesFromCloses(closes)
        rest == [heatRequest[t] EXCEPT !.todo = Tail(@),
                   !.phase = IF Len(heatRequest[t].todo) = 1 THEN "answered" ELSE "cache"]
    IN  heatRequest' = [heatRequest EXCEPT ![t] =
           IF series = <<>> THEN [rest EXCEPT !.errors = @ \cup {s}]
           ELSE [rest EXCEPT !.items = @ \cup
                   {[symbol |-> s, market |-> Market(t), series |-> series,
                     summary |-> Summarize(series), age |-> age]}]]

ReadCache(t) ==
    /\ InPhase(t, "cache")
    /\ LET k == CurrentKey(t)
       IN  IF k \notin DOMAIN cache THEN Proceed(t, "redis")
           ELSE IF cache[k].left > 0 THEN SymbolSettled(t, cache[k].closes, cache[k].age)
           ELSE Proceed(t, "delete")
    /\ UNCHANGED <<stocks, startup, cache, remote>>

StoreWithout(store, k) == [key \in DOMAIN store \ {k} |-> store[key]]
StoreWith(store, k, value) ==
    [key \in DOMAIN store \cup {k} |-> IF key = k THEN value ELSE store[key]]

Dated(closes, age) == [closes |-> closes, age |-> age, left |-> Life]

\* _cache_set.
CacheSet(k, closes, age) == cache' = StoreWith(cache, k, Dated(closes, age))

\* del _cache[key], though by now the entry may be a new one.
DeleteExpired(t) ==
    /\ InPhase(t, "delete")
    /\ CurrentKey(t) \in DOMAIN cache
    /\ cache' = StoreWithout(cache, CurrentKey(t))
    /\ Proceed(t, "redis")
    /\ UNCHANGED <<stocks, startup, remote>>

\* Another thread deleted it first: KeyError, and the whole request fails.
DeleteFails(t) ==
    /\ InPhase(t, "delete")
    /\ CurrentKey(t) \notin DOMAIN cache
    /\ heatRequest' = [heatRequest EXCEPT ![t] = NoRequest]
    /\ UNCHANGED <<stocks, startup, cache, remote>>

\* Mutant: what is read begins another half hour in Redis too.
ReadAndRenew(t) ==
    /\ InPhase(t, "redis")
    /\ CurrentKey(t) \in DOMAIN remote
    /\ LET k == CurrentKey(t)
       IN  /\ CacheSet(k, remote[k].closes, remote[k].age)
           /\ remote' = [remote EXCEPT ![k].left = Life]
           /\ SymbolSettled(t, remote[k].closes, remote[k].age)
    /\ UNCHANGED <<stocks, startup>>
\* What is read begins another half hour in the cache of the process.
ReadRedis(t) ==
    /\ InPhase(t, "redis")
    /\ CurrentKey(t) \in DOMAIN remote
    /\ LET k == CurrentKey(t)
       IN  /\ CacheSet(k, remote[k].closes, remote[k].age)
           /\ SymbolSettled(t, remote[k].closes, remote[k].age)
    /\ UNCHANGED <<stocks, startup, remote>>

\* Redis has nothing, is off or out of reach.
MissRedis(t) ==
    /\ InPhase(t, "redis")
    /\ Proceed(t, "fetch")
    /\ UNCHANGED <<stocks, startup, cache, remote>>

\* The provider answers with closes, which go to both caches if Redis takes them.
\* It is asked by the market, whatever the key.
Fetch(t) ==
    /\ InPhase(t, "fetch")
    /\ LET closes == ClosesFrom(Provider(Market(t)), SymbolInHand(t))
       IN  /\ closes # <<>>
           /\ SymbolSettled(t, closes, 0)
           /\ CacheSet(CurrentKey(t), closes, 0)
           /\ remote' \in {remote, StoreWith(remote, CurrentKey(t), Dated(closes, 0))}
    /\ UNCHANGED <<stocks, startup>>

\* It has none, fails, or its key is missing in the settings.
FetchFails(t) ==
    /\ InPhase(t, "fetch")
    /\ SymbolSettled(t, <<>>, 0)
    /\ UNCHANGED <<stocks, startup, cache, remote>>

Older(entry) == [entry EXCEPT !.age = @ + 1, !.left = @ - 1]

\* Time passes.  Redis drops an entry at the end of its time; the process keeps
\* it until a request looks for it.
EntriesAge ==
    /\ cache' = [k \in DOMAIN cache |->
                   IF cache[k].left > 0 THEN Older(cache[k]) ELSE cache[k]]
    /\ remote' = [k \in {x \in DOMAIN remote : remote[x].left > 1} |-> Older(remote[k])]
    /\ UNCHANGED <<stocks, startup, heatRequest>>

HeatmapStep(t) ==
    \/ AskHeatmap(t)
    \/ ReadCache(t)
    \/ DeleteExpired(t) \/ DeleteFails(t)
    \/ ReadRedis(t) \/ MissRedis(t)
    \/ Fetch(t) \/ FetchFails(t)

HeatmapNext ==
    \/ RequestSync
    \/ StartupCounts \/ StartupSyncs \/ StartupFails
    \/ Restart
    \/ \E t \in Threads : HeatmapStep(t)
    \/ EntriesAge

HeatmapSpec == HeatmapInit /\ [][HeatmapNext]_heatmapVars

---------------------------------------------------------------------------
\* The readable rows the provider has of a symbol.
Quoted(provider, s) ==
    {row \in ToSet(RowsFrom[provider][s]) :
        row.close # Unreadable /\ (provider = "DATA_GO_KR" => row.of = s)}

\* The day's colour is that of the change since the quoted day before it: none
\* for less than half a percent.
TrueColour(quoted, shown) ==
    \E to \in {row \in quoted : row.day = shown.day}, from \in quoted :
       LET change == to.close - from.close
       IN  /\ from.day < to.day
           /\ \A row \in quoted : row.day <= from.day \/ row.day >= to.day
           /\ shown.bucket > 0 => change > 0
           /\ shown.bucket < 0 => change < 0
           /\ shown.bucket = 0 =>
                200 * change < from.close /\ -200 * change < from.close

\* An answer is whole, true and fresh.  Every symbol asked for is an item or an
\* error, once.  An item shows, day by day, what the provider for symbols of its
\* kind quotes for it, and is labelled with one of that provider's markets,
\* although synchronisations stop half-way and take away the markets the table
\* had; and its summary counts the days shown.  And no close is as old as two
\* half hours when it is read, although what is read from Redis near the end of
\* its time begins another half hour in the process, and other threads and
\* earlier processes write to the same two caches
\* (daily_returns_heatmap_usecase.py:142-227, stock_repository_impl.py:39-87,
\* krx_market_adapter.py:41-50).
HeatmapIsTrue ==
    \A t \in Threads : InPhase(t, "answered") =>
       LET r == heatRequest[t]
           shown == {i.symbol : i \in r.items}
       IN  /\ shown \cup r.errors = {r.asked[n] : n \in DOMAIN r.asked}
           /\ shown \cap r.errors = {}
           /\ Cardinality(shown) = Cardinality(r.items)
           /\ \A i \in r.items :
                 LET provider == IF i.symbol \in SixDigits THEN "DATA_GO_KR"
                                 ELSE "TWELVE_DATA"
                     quoted == Quoted(provider, i.symbol)
                 IN  /\ Provider(i.market) = provider
                     /\ Len(i.series) \in 1 .. MaxDays
                     /\ i.summary.up + i.summary.down + i.summary.flat
                          = Len(i.series)
                     /\ \A n \in DOMAIN i.series : TrueColour(quoted, i.series[n])
                     /\ \A n \in 2 .. Len(i.series) :
                           i.series[n - 1].day < i.series[n].day
                     /\ i.age < 2 * Life
=============================================================================

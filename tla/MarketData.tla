------------------------------ MODULE MarketData ------------------------------
(***************************************************************************)
(* The cache of the data layer (IBDataLayer), which threads of the         *)
(* scheduler, of the pool and of the API share without a lock, and the     *)
(* scanner tables filled through it.  One key is followed, and with the    *)
(* bars of SPY the price that get_spy_price_on takes from them and keeps   *)
(* under a key of its own; no other keys interact.  Time passes in ticks   *)
(* of the unit that Ttl counts in.                                         *)
(***************************************************************************)
EXTENDS Naturals

CONSTANTS
  Readers,  \* threads that use the data layer
  Ttl       \* how long an entry is served, by context

Contexts == {"trade_entry", "on_demand", "dashboard_chart", "scanner", "backtest", "fundamentals"}

\* The longest: what is older than this is as good as any older.
ASSUME MarketAssumption ==
  /\ Ttl \in [Contexts -> Nat] /\ Ttl["trade_entry"] = 0
  /\ \A c \in Contexts : Ttl[c] <= Ttl["fundamentals"]

VARIABLES
  wanted, \* the key: what it holds, and in which context it is asked for
  cache,  \* _cache at the key: what is kept, its age, and for how long it is served
  price,  \* _cache at the key of the price, in the same way
  reader, \* where each thread is, and whether it wants the price
  served, \* the answer to each thread's last call, and whether it is a price
  rows,   \* scanner_results: the rows of a scan type, their age when they were written, and now
  topMovers \* scanner_results: the rows of top_movers, and whether they were outdated when written

marketVars == <<wanted, cache, price, reader, served, rows, topMovers>>

\* The callers choose the context of bars; the rest have one of their own.
Wanted ==
  [what: {"bars", "volatility"}, context: Contexts \ {"fundamentals"}]
  \cup {[what |-> "news", context |-> "scanner"], [what |-> "scan", context |-> "scanner"],
        [what |-> "earnings", context |-> "fundamentals"]}

Oldest == 2 * Ttl["fundamentals"]
NoEntry == [value |-> "absent", age |-> 0, left |-> 0]
NoAnswer == [value |-> "absent", age |-> 0, price |-> FALSE]
NoRows == [value |-> "absent", lag |-> 0, age |-> 0]
NotReading == [pc |-> "idle", price |-> FALSE]

\* What the fetch of each may give; no list and no bars are the same, None is another thing.
Findings(what) == IF what = "earnings" THEN {"some", "None"} ELSE {"some", "empty"}

MarketInit ==
  /\ wanted \in Wanted
  /\ cache = NoEntry /\ price = NoEntry
  /\ reader = [r \in Readers |-> NotReading]
  /\ served = [r \in Readers |-> NoAnswer]
  /\ rows = NoRows /\ topMovers = [value |-> "absent", old |-> FALSE]

MarketTypeOK ==
  /\ wanted \in Wanted
  /\ cache \in [value: {"absent", "some", "empty", "None"}, age: 0..Oldest,
                left: 0..Ttl["fundamentals"]]
  /\ price \in [value: {"absent", "some"}, age: 0..Oldest, left: 0..Ttl["fundamentals"]]
  /\ reader \in [Readers -> [pc: {"idle", "price_expired", "lookup", "expired", "fetching"},
                             price: BOOLEAN]]
  /\ served \in [Readers -> [value: {"absent", "some", "empty", "None", "raised"}, age: 0..Oldest,
                             price: BOOLEAN]]
  /\ rows \in [value: {"absent", "some", "empty"}, lag: 0..Oldest, age: 0..Oldest]
  /\ topMovers \in [value: {"absent", "some", "empty"}, old: BOOLEAN]

---------------------------------------------------------------------------
(* _get_cached *)

ReaderAt(r, pc) == reader[r].pc = pc

\* A call that is under way has no answer yet.
Goes(r, state) ==
  /\ reader' = [reader EXCEPT ![r] = state]
  /\ served' = [served EXCEPT ![r] = NoAnswer]
Stored == UNCHANGED <<rows, topMovers>>

\* A call ends with an answer.
Serves(r, value, age, isPrice) ==
  /\ served' = [served EXCEPT ![r] = [value |-> value, age |-> age, price |-> isPrice]]
  /\ reader' = [reader EXCEPT ![r] = NotReading]

\* What the look-up of bars, or of anything else that is asked for as it is, comes to.  Who wants
\* the price takes it from the bars and keeps it anew, for as long as bars are kept.
Answer(r, value, age) ==
  /\ Serves(r, value, age, reader[r].price)
  /\ price' = IF reader[r].price /\ value = "some"
              THEN [value |-> "some", age |-> age, left |-> Ttl["backtest"]] ELSE price

LooksUp(r) == ReaderAt(r, "idle") \/ ReaderAt(r, "lookup")

\* Mutant of CacheHit: an entry that is used is kept for as long again.
CacheHitRenews(r) ==
  /\ LooksUp(r) /\ cache.left > 0 /\ cache.value # "None"
  /\ Answer(r, cache.value, cache.age)
  /\ cache' = [cache EXCEPT !.left = Ttl[wanted.context]]
  /\ UNCHANGED wanted /\ Stored

CacheHit(r) ==
  /\ LooksUp(r) /\ cache.left > 0 /\ cache.value # "None"
  /\ Answer(r, cache.value, cache.age)
  /\ UNCHANGED <<wanted, cache>> /\ Stored

\* A None that is kept, as of earnings not found, is no answer.
CacheMiss(r) ==
  /\ LooksUp(r)
  /\ cache.value = "absent" \/ (cache.left > 0 /\ cache.value = "None")
  /\ Goes(r, [reader[r] EXCEPT !.pc = "fetching"])
  /\ UNCHANGED <<wanted, cache, price>> /\ Stored

CacheExpired(r) ==
  /\ LooksUp(r) /\ cache.value # "absent" /\ cache.left = 0
  /\ Goes(r, [reader[r] EXCEPT !.pc = "expired"])
  /\ UNCHANGED <<wanted, cache, price>> /\ Stored

\* It deletes the key, were the entry by now another one.
DropEntry(r) ==
  /\ ReaderAt(r, "expired") /\ cache.value # "absent"
  /\ cache' = NoEntry /\ Goes(r, [reader[r] EXCEPT !.pc = "fetching"])
  /\ UNCHANGED <<wanted, price>> /\ Stored

\* Another thread has deleted it: KeyError, before the try; get_spy_price_on catches it.
DropRaises(r) ==
  /\ ReaderAt(r, "expired") /\ cache.value = "absent"
  /\ Answer(r, IF reader[r].price THEN "empty" ELSE "raised", 0)
  /\ UNCHANGED <<wanted, cache>> /\ Stored

---------------------------------------------------------------------------
(* get_spy_price_on, which only its tests call *)

HasPrice == wanted = [what |-> "bars", context |-> "backtest"]

PriceHit(r) ==
  /\ HasPrice /\ ReaderAt(r, "idle") /\ price.left > 0
  /\ Serves(r, price.value, price.age, TRUE)
  /\ UNCHANGED <<wanted, cache, price>> /\ Stored

\* No price, or one that has expired: then the bars.
PriceMiss(r) ==
  /\ HasPrice /\ ReaderAt(r, "idle") /\ price.left = 0
  /\ Goes(r, [pc |-> IF price.value = "absent" THEN "lookup" ELSE "price_expired", price |-> TRUE])
  /\ UNCHANGED <<wanted, cache, price>> /\ Stored

DropPrice(r) ==
  /\ ReaderAt(r, "price_expired") /\ price.value # "absent"
  /\ price' = NoEntry /\ Goes(r, [reader[r] EXCEPT !.pc = "lookup"])
  /\ UNCHANGED <<wanted, cache>> /\ Stored

\* This look-up is outside the try.
DropPriceRaises(r) ==
  /\ ReaderAt(r, "price_expired") /\ price.value = "absent"
  /\ Serves(r, "raised", 0, reader[r].price)
  /\ UNCHANGED <<wanted, cache, price>> /\ Stored

---------------------------------------------------------------------------
(* The fetches *)

\* _set_cached.
Kept(value) ==
  cache' = IF Ttl[wanted.context] = 0 \/ (value = "None" /\ wanted.context = "on_demand")
           THEN cache
           ELSE [value |-> value, age |-> 0, left |-> Ttl[wanted.context]]

\* Bars are asked for with five durations in turn, until fifteen of them come.  Fewer are none,
\* and that is not kept.
FetchBars(r) ==
  /\ ReaderAt(r, "fetching") /\ wanted.what = "bars"
  /\ \E bars \in Findings("bars") :
       /\ Answer(r, bars, 0)
       /\ IF bars = "some" THEN Kept(bars) ELSE UNCHANGED cache
  /\ UNCHANGED wanted /\ Stored

FetchVolatility(r) ==
  /\ ReaderAt(r, "fetching") /\ wanted.what = "volatility"
  /\ \E bars \in Findings("volatility") :
       /\ Answer(r, bars, 0)
       /\ IF bars = "some" THEN Kept(bars) ELSE UNCHANGED cache
  /\ UNCHANGED wanted /\ Stored

\* The broker's news, or Yahoo's when it has none or fails; no news is kept as well.
FetchNews(r) ==
  /\ ReaderAt(r, "fetching") /\ wanted.what = "news"
  /\ \E news \in Findings("news") : Answer(r, news, 0) /\ Kept(news)
  /\ UNCHANGED wanted /\ Stored

\* Not to be had is kept, and a failure of the broker is the same.
FetchEarnings(r) ==
  /\ ReaderAt(r, "fetching") /\ wanted.what = "earnings"
  /\ \E date \in Findings("earnings") : Answer(r, date, 0) /\ Kept(date)
  /\ UNCHANGED wanted /\ Stored

FetchScan(r) ==
  /\ ReaderAt(r, "fetching") /\ wanted.what = "scan"
  /\ \E symbols \in Findings("scan") : Answer(r, symbols, 0) /\ Kept(symbols)
  /\ UNCHANGED wanted /\ Stored

\* The client has no connection, or its thread does not answer in time.
FetchFails(r) ==
  /\ ReaderAt(r, "fetching") /\ wanted.what # "earnings"
  /\ Answer(r, "empty", 0)
  /\ UNCHANGED <<wanted, cache>> /\ Stored

---------------------------------------------------------------------------
(* The tables *)

\* upsert_scanner_results deletes the rows of the type first, and dates the new ones with the
\* time of the write.
Replace(answer) == rows' = [value |-> answer.value, lag |-> answer.age, age |-> answer.age]

Publishes(r) == ReaderAt(r, "idle") /\ UNCHANGED <<wanted, cache, price, reader, served>>

\* Gainers, losers and the most active: no answer empties the table.
PublishScan(r) ==
  /\ wanted.what = "scan" /\ served[r].value \in {"some", "empty"}
  /\ Replace(served[r])
  /\ Publishes(r) /\ UNCHANGED topMovers

\* The same job ends with top_movers, from the gainers and losers that the tables have: rows of
\* its own scans, or of older ones when a scan raised or its rows could not be written.
MergeMovers(r) ==
  /\ wanted.what = "scan" /\ served[r].value # "absent"
  /\ topMovers' = IF rows.value = "some" THEN [value |-> "some", old |-> rows.age >= Ttl["scanner"]]
                                      ELSE [value |-> "empty", old |-> FALSE]
  /\ Publishes(r) /\ UNCHANGED rows

\* Sectors keep the rows that they have when no bars are to be had.
PublishSectors(r) ==
  /\ wanted = [what |-> "bars", context |-> "scanner"]
  /\ served[r].value = "some"
  /\ Replace(served[r])
  /\ Publishes(r) /\ UNCHANGED topMovers

PublishImpliedMove(r) ==
  /\ wanted = [what |-> "volatility", context |-> "scanner"]
  /\ served[r].value = "some"
  /\ Replace(served[r])
  /\ Publishes(r) /\ UNCHANGED topMovers

---------------------------------------------------------------------------

\* A bound: what has reached it is as good as any older.
Older(age, bound) == IF age >= bound THEN age ELSE age + 1
Grown(entry) ==
  IF entry.value = "absent" THEN entry
  ELSE [entry EXCEPT !.age = Older(@, Oldest), !.left = IF @ = 0 THEN 0 ELSE @ - 1]

\* An answer is used at once: its age counts to the moment it was given.  Of the rows only those
\* of a scan are read again.
MarketTick ==
  /\ {cache.value, price.value, rows.value} # {"absent"}
  /\ cache' = Grown(cache) /\ price' = Grown(price)
  /\ rows' = IF wanted.what = "scan" /\ rows.value = "some"
             THEN [rows EXCEPT !.age = Older(@, Ttl["scanner"])] ELSE rows
  /\ UNCHANGED <<wanted, reader, served, topMovers>>

Fetch(r) ==
  FetchBars(r) \/ FetchVolatility(r) \/ FetchNews(r) \/ FetchEarnings(r) \/ FetchScan(r) \/ FetchFails(r)

MarketNext ==
  \/ MarketTick
  \/ \E r \in Readers :
       \/ CacheHit(r) \/ CacheMiss(r) \/ CacheExpired(r) \/ DropEntry(r) \/ DropRaises(r)
       \/ PriceHit(r) \/ PriceMiss(r) \/ DropPrice(r) \/ DropPriceRaises(r)
       \/ Fetch(r)
       \/ PublishScan(r) \/ MergeMovers(r) \/ PublishSectors(r) \/ PublishImpliedMove(r)

MarketSpec == MarketInit /\ [][MarketNext]_marketVars

\* What the cache serves under the key it was asked for, and what the tables of the scans, sectors
\* and implied moves are filled with, is younger than the time to live of its context, whoever
\* else looks at the key meanwhile, drops it or writes it anew; a fetch serves what it fetched
\* (data.py, _get_cached and _set_cached).  A price of get_spy_price_on is of bars that may
\* have been kept for as long before: it is younger than twice that time.  Nothing is said of
\* top_movers, whose rows may be of any age.
FreshEnough ==
  LET young(age, bound) == age = 0 \/ age < bound
  IN /\ young(rows.lag, Ttl[wanted.context])
     /\ \A r \in Readers :
          young(served[r].age,
                IF served[r].price THEN 2 * Ttl["backtest"] ELSE Ttl[wanted.context])
=============================================================================

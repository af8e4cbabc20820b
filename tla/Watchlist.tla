----------------------------- MODULE Watchlist -----------------------------
(***************************************************************************)
(* The hourly opportunity scan: top movers, then symbols in the news, then *)
(* symbols behind their sector.  Each that scores goes to the watchlist of *)
(* the day, and what is new there is told at the end.  The caches it reads *)
(* are refilled by other jobs between its steps; a restart loses the scan  *)
(* and keeps the watchlist.                                                *)
(***************************************************************************)
EXTENDS Integers

CONSTANTS
  Movers,   \* symbols the scanners may name
  Pairs,    \* CORRELATION_PAIRS: symbols watched against their sector
  MaxScans  \* bound: scans of a day

ASSUME WatchAssumption == MaxScans \in Nat

VARIABLES
  cached, \* scanner_results and news_cache: the movers, and the symbols in good news
  sector, \* the change of the sector, in tenths of a percent
  listed, \* daily_watchlist of today
  hunt,   \* the scan: its part, the symbols before it, the list as the part read it, the new ones
  hunts,  \* the scans begun
  told    \* how often each symbol was told

watchVars == <<cached, sector, listed, hunt, hunts, told>>

WatchSymbols == Movers \cup Pairs
Signals == {"NONE", "WEAK", "MEDIUM", "STRONG"}
Quiet == [at |-> "idle", todo |-> {}, known |-> {}, new |-> {}]

WatchInit ==
  /\ cached = [movers |-> {}, news |-> {}]
  /\ sector = 0
  /\ listed = {}
  /\ hunt = Quiet
  /\ hunts = 0
  /\ told = [s \in WatchSymbols |-> 0]

WatchTypeOK ==
  /\ cached \in [movers: SUBSET Movers, news: SUBSET WatchSymbols]
  /\ sector \in {-20, 0, 20}
  /\ listed \subseteq WatchSymbols
  /\ hunt \in [at: {"idle", "movers", "news", "lags", "notify"}, todo: SUBSET WatchSymbols,
               known: SUBSET WatchSymbols, new: SUBSET WatchSymbols]
  /\ hunts \in 0 .. MaxScans
  /\ told \in [WatchSymbols -> 0 .. MaxScans]

---------------------------------------------------------------------------
(* The caches *)

\* fetch_and_cache_scanner, fetch_and_cache_sectors and fetch_and_cache_news.
Refill ==
  /\ \/ \E movers \in SUBSET Movers, news \in SUBSET WatchSymbols : cached' = [movers |-> movers, news |-> news] /\ UNCHANGED sector
     \/ sector' \in {-20, 0, 20} /\ UNCHANGED cached
  /\ UNCHANGED <<listed, hunt, hunts, told>>

\* get_sector_context: what starts from one and takes the larger can only boost.
Boost(change) == LET b == CASE change >= 15 -> 130 [] change <= -15 -> 70 [] OTHER -> 100
                 IN  IF b > 100 THEN b ELSE 100

\* The change of the symbol is a fraction, that of its sector a number of percent: a symbol
\* of a sector that is up half a percent lags it wherever it stands itself.
Lagging(change) == change >= 5

---------------------------------------------------------------------------
(* _run_opportunity_scan *)

Hunting(part) == hunt.at = part
NotHunting(next) == hunt' = next /\ UNCHANGED <<cached, sector>>

Begin ==
  /\ Hunting("idle") /\ hunts < MaxScans
  /\ hunts' = hunts + 1
  /\ NotHunting([Quiet EXCEPT !.at = "movers", !.todo = cached.movers])
  /\ UNCHANGED <<listed, told>>

\* The news and the lags leave out what the watchlist had when they began.
NextPart ==
  /\ hunt.todo = {}
  /\ \/ /\ Hunting("movers")
        /\ NotHunting([hunt EXCEPT !.at = "news", !.todo = cached.news \ listed, !.known = listed])
     \/ /\ Hunting("news")
        /\ NotHunting([hunt EXCEPT !.at = "lags", !.todo = IF Lagging(sector) THEN Pairs \ listed ELSE {}, !.known = listed])
     \/ /\ Hunting("lags")
        /\ NotHunting([hunt EXCEPT !.at = "notify"])
  /\ UNCHANGED <<listed, hunts, told>>

\* Dull, about to report earnings, without bars, too volatile, or failed.
Skip(s) ==
  /\ s \in hunt.todo
  /\ NotHunting([hunt EXCEPT !.todo = @ \ {s}])
  /\ UNCHANGED <<listed, hunts, told>>

Scores == {40, 45, 80}

\* Whether a part lists the symbol, and whether it tells it when it is new there.
Lists(score) == Hunting("movers") => score * Boost(sector) >= 5500
Tells(score, signal) ==
  CASE Hunting("movers") -> signal \in {"STRONG", "MEDIUM"}
    [] Hunting("lags") -> score >= 45
    [] OTHER -> TRUE

\* Mutant of IsNew: the part trusts the list as it read it when it began.
IsNewThen(s) == s \notin hunt.known

\* upsert_daily_watchlist: TRUE for an insert, and a second insert of the day violates UNIQUE.
IsNew(s) == s \notin listed

Upsert(s) ==
  /\ s \in hunt.todo
  /\ \E score \in Scores, signal \in Signals :
       /\ Lists(score)
       /\ NotHunting([hunt EXCEPT !.todo = @ \ {s},
                            !.new = IF IsNew(s) /\ Tells(score, signal) THEN @ \cup {s} ELSE @])
  /\ listed' = listed \cup {s}
  /\ UNCHANGED <<hunts, told>>

\* What is not told now is never told: the message is lost, or suppressed, or too long a list.
Notify ==
  /\ Hunting("notify")
  /\ \E said \in SUBSET hunt.new : told' = [s \in WatchSymbols |-> told[s] + (IF s \in said THEN 1 ELSE 0)]
  /\ NotHunting(Quiet)
  /\ UNCHANGED <<listed, hunts>>

\* The process restarts, or a part raised; no marker says what was told.
HuntDies ==
  /\ ~Hunting("idle")
  /\ NotHunting(Quiet)
  /\ UNCHANGED <<listed, hunts, told>>

WatchNext ==
  \/ Refill \/ Begin \/ NextPart \/ Notify \/ HuntDies
  \/ \E s \in WatchSymbols : Skip(s) \/ Upsert(s)

WatchSpec == WatchInit /\ [][WatchNext]_watchVars

---------------------------------------------------------------------------
(* Properties *)

\* An opportunity is told once a day, though three detectors may find it in one scan and
\* the scans, with restarts in between, find it again and again.
ToldOnceADay == \A s \in WatchSymbols : told[s] <= 1
=============================================================================

----------------------------- MODULE CandleCache -----------------------------
(***************************************************************************)
(* The candle table and the threads that fill it, prune it and act on it.  *)
(*                                                                         *)
(* Time is counted in bars of one series: bar barNow is the open one.  What *)
(* the exchange says of bar b is moves[b], how often its price has moved;  *)
(* the number a closed bar is left with stands for its final values.  A    *)
(* row of the table is the number its bar had when it was fetched.         *)
(*                                                                         *)
(* Scheduler and chart requests refresh the newest bars, a backtest        *)
(* downloads a range of them.  Each fetches, selects the open times that   *)
(* are stored, inserts and commits the rest, and reads the table back.     *)
(* The rows are keyed by market, symbol and interval; one series is        *)
(* modelled, and one exchange behind it.                                   *)
(***************************************************************************)
EXTENDS Integers, FiniteSets

CONSTANTS
  Ticker,      \* the scheduler thread, which trades on what it reads
  Viewers,     \* request threads: charts refresh, backtests download a range
  Limit,       \* how many bars a refresh fetches and reads back
  Keep,        \* bars kept by retention, 0 when it is disabled
  MaxBar,      \* bound: number of the last bar
  MaxMoves     \* bound: price moves of one bar

Fetchers == {Ticker} \cup Viewers

ASSUME CacheThreadsAssumption == Ticker \notin Viewers
ASSUME CacheBoundsAssumption ==
  /\ Limit \in Nat \ {0} /\ Keep \in Nat
  /\ MaxBar \in Nat /\ MaxMoves \in Nat

VARIABLES
  barNow,    \* the bar that is open
  feed,      \* the newest bar the exchange publishes: behind barNow when stalled
  moves,     \* moves[b], for every bar up to feed
  candles,   \* the Candle table: open time -> the moves it was stored with
  fetchPc,   \* fetchPc[w]: where thread w is
  job,       \* job[w]: "refresh" or "download"
  asked,     \* asked[w]: the open times it asked for
  got,       \* got[w]: the bars it fetched and has not stored yet
  series,    \* series[w]: the open times of the rows it read back
  pruned     \* threads into whose operation a prune fell: history

market == <<barNow, feed, moves>>
thread == <<fetchPc, job, asked, got, series>>
cacheVars == <<market, candles, thread, pruned>>

Bars == 0..MaxBar
Jobs == {"refresh", "download"}
NoBars == [b \in {} |-> 0]
Newest(S) == CHOOSE b \in S : \A c \in S : c <= b

\* The n newest of a set of bars.
NewestOf(S, n) == {b \in S : Cardinality({c \in S : c > b}) < n}

CacheInit ==
  /\ barNow = 0 /\ feed = 0 /\ moves = [b \in {0} |-> 0]
  /\ candles = NoBars
  /\ fetchPc = [w \in Fetchers |-> "idle"]
  /\ got = [w \in Fetchers |-> NoBars]
  /\ job = [w \in Fetchers |-> "refresh"]
  /\ asked = [w \in Fetchers |-> {}]
  /\ series = [w \in Fetchers |-> {}]
  /\ pruned = {}

\* The operation of w is over, by its end or by an exception.
EndFetch(w) ==
  /\ fetchPc' = [fetchPc EXCEPT ![w] = "idle"]
  /\ got' = [got EXCEPT ![w] = NoBars]
  /\ job' = [job EXCEPT ![w] = "refresh"]
  /\ asked' = [asked EXCEPT ![w] = {}]
  /\ series' = [series EXCEPT ![w] = {}]
  /\ pruned' = pruned \ {w}

----------------------------------------------------------------------------
\* The exchange.

PriceMove ==
  /\ feed = barNow /\ moves[feed] < MaxMoves
  /\ moves' = [moves EXCEPT ![feed] = @ + 1]
  /\ UNCHANGED <<barNow, feed, candles, thread, pruned>>

BarCloses ==
  /\ barNow < MaxBar
  /\ barNow' = barNow + 1
  /\ UNCHANGED <<feed, moves, candles, thread, pruned>>

\* The feed catches up with the bars it has not published yet.
FeedAdvances ==
  /\ feed < barNow
  /\ feed' = barNow
  /\ moves' = [b \in 0..barNow |-> IF b <= feed THEN moves[b] ELSE 0]
  /\ UNCHANGED <<barNow, candles, thread, pruned>>

----------------------------------------------------------------------------
\* One refresh or download.

\* The bars a call asks for: a refresh the newest ones, a download any range.
Asked(kind) ==
  IF kind = "refresh"
    THEN {{b \in 0..feed : b > feed - Limit}}
    ELSE {lo..hi : lo, hi \in 0..feed} \ {{}}

\* get_klines, get_historical_klines through _call.
FetchBars(w, kind, S) ==
  /\ fetchPc[w] = "idle" /\ S \in Asked(kind)
  /\ w = Ticker => kind = "refresh"
  /\ fetchPc' = [fetchPc EXCEPT ![w] = "fetched"]
  /\ job' = [job EXCEPT ![w] = kind]
  /\ asked' = [asked EXCEPT ![w] = S]
  /\ got' = [got EXCEPT ![w] = [b \in S |-> moves[b]]]
  /\ UNCHANGED <<market, candles, series, pruned>>

\* The call raises: _call repeats an attempt that was answered 429 or -1003, three
\* in all, and passes any other error on.
FetchFails(w) ==
  /\ fetchPc[w] = "idle"
  /\ EndFetch(w)
  /\ UNCHANGED <<market, candles>>

SelectNothing(w) ==
  /\ fetchPc[w] = "fetched"
  /\ fetchPc' = [fetchPc EXCEPT ![w] = "selected"]
  /\ got' = [got EXCEPT ![w] = NoBars]
  /\ UNCHANGED <<market, candles, job, asked, series, pruned>>

SelectNewer(w) ==
  /\ fetchPc[w] = "fetched"
  /\ fetchPc' = [fetchPc EXCEPT ![w] = "selected"]
  /\ got' = [got EXCEPT ![w] =
               [b \in {c \in asked[w] : \A d \in DOMAIN candles : d < c} |-> got[w][b]]]
  /\ UNCHANGED <<market, candles, job, asked, series, pruned>>

\* _existing_open_times: what is stored already is left alone.
SelectExisting(w) ==
  /\ fetchPc[w] = "fetched"
  /\ fetchPc' = [fetchPc EXCEPT ![w] = "selected"]
  /\ got' = [got EXCEPT ![w] = [b \in asked[w] \ DOMAIN candles |-> got[w][b]]]
  /\ UNCHANGED <<market, candles, job, asked, series, pruned>>

\* The missing rows are inserted and committed.
InsertNew(w) ==
  /\ fetchPc[w] = "selected" /\ DOMAIN got[w] \cap DOMAIN candles = {}
  /\ candles' = [b \in DOMAIN candles \cup DOMAIN got[w] |->
                   IF b \in DOMAIN got[w] THEN got[w][b] ELSE candles[b]]
  /\ fetchPc' = [fetchPc EXCEPT ![w] = "stored"]
  /\ got' = [got EXCEPT ![w] = NoBars]
  /\ UNCHANGED <<market, job, asked, series, pruned>>

\* Another thread stored one of them since: uq_candle_bar refuses the whole
\* insert, and the exception ends the turn or the request.
InsertConflict(w) ==
  /\ fetchPc[w] = "selected" /\ DOMAIN got[w] \cap DOMAIN candles # {}
  /\ EndFetch(w)
  /\ UNCHANGED <<market, candles>>

\* get_cached_candles for a refresh, get_candle_range for a backtest.
ReadBack(w) ==
  /\ fetchPc[w] = "stored"
  /\ fetchPc' = [fetchPc EXCEPT ![w] = "read"]
  /\ series' = [series EXCEPT ![w] =
                  IF job[w] = "refresh"
                    THEN NewestOf(DOMAIN candles, Limit)
                    ELSE DOMAIN candles \cap asked[w]]
  /\ UNCHANGED <<market, candles, job, asked, got, pruned>>

\* feed_is_stale: older than two intervals, counted from the open time, so the
\* bar before the open one is fresh and the one before that is not.
FeedIsStale(b) == barNow - b >= 2

\* The tick has a candle, and not a stale one.
Tradable == series[Ticker] # {} /\ ~FeedIsStale(Newest(series[Ticker]))

\* The tick goes on to trade at the close of its newest candle.
ActOnPrice ==
  /\ fetchPc[Ticker] = "read" /\ Tradable
  /\ fetchPc' = [fetchPc EXCEPT ![Ticker] = "acting"]
  /\ UNCHANGED <<market, candles, job, asked, got, series, pruned>>

\* The tick freezes; a chart or a backtest has what it asked for; the turn that
\* acted is over.
LeaveSeries(w) ==
  /\ fetchPc[w] \in {"read", "acting"}
  /\ fetchPc[w] = "read" /\ w = Ticker => ~Tradable
  /\ EndFetch(w)
  /\ UNCHANGED <<market, candles>>

\* prune_candles, at 04:00 by the scheduler: one DELETE.
PruneCandles ==
  /\ Keep > 0
  /\ \E b \in DOMAIN candles : b < barNow - Keep
  /\ candles' = [b \in {c \in DOMAIN candles : c >= barNow - Keep} |-> candles[b]]
  /\ pruned' = pruned \cup {w \in Fetchers : fetchPc[w] # "idle"}
  /\ UNCHANGED <<market, thread>>

FetchStep(w) ==
  \/ \E kind \in Jobs : \E S \in Asked(kind) : FetchBars(w, kind, S)
  \/ FetchFails(w)
  \/ SelectExisting(w) \/ InsertNew(w) \/ InsertConflict(w)
  \/ ReadBack(w) \/ LeaveSeries(w)

CacheNext ==
  \/ PriceMove \/ BarCloses \/ FeedAdvances
  \/ \E w \in Fetchers : FetchStep(w)
  \/ ActOnPrice \/ PruneCandles

CacheSpec == CacheInit /\ [][CacheNext]_cacheVars

\* The scheduler's turn goes on, since calls time out and retries are bounded,
\* and the exchange does not refuse every call for ever.
TickerTurn == FetchStep(Ticker) \/ ActOnPrice
TickerFetch == \E S \in Asked("refresh") : FetchBars(Ticker, "refresh", S)
CacheFairness == WF_cacheVars(TickerTurn) /\ SF_cacheVars(TickerFetch)

----------------------------------------------------------------------------
FetchPhases == {"idle", "fetched", "selected", "stored", "read", "acting"}

\* Every variable stays in its domain; a row was fetched from a published bar,
\* and what it was stored with is not ahead of the exchange.
CacheTypeOK ==
  /\ barNow \in Bars /\ feed \in 0..barNow
  /\ moves \in [0..feed -> 0..MaxMoves]
  /\ DOMAIN candles \subseteq 0..feed
  /\ \A b \in DOMAIN candles : candles[b] \in 0..moves[b]
  /\ fetchPc \in [Fetchers -> FetchPhases]
  /\ job \in [Fetchers -> Jobs] /\ job[Ticker] = "refresh"
  /\ \A w \in Fetchers :
       /\ asked[w] \subseteq 0..feed /\ DOMAIN got[w] \subseteq asked[w]
       /\ \A b \in DOMAIN got[w] : got[w][b] \in 0..moves[b]
       /\ series[w] \subseteq 0..feed
       /\ fetchPc[w] = "acting" => w = Ticker
  /\ pruned \subseteq Fetchers

\* "So charts, indicators and backtests read from PostgreSQL" (models.py): up to
\* the newest bar it fetched, what a thread reads back has no bar missing in its
\* middle, whatever other writers do, unless a prune fell into the operation.
ReadsHaveNoGap ==
  \A w \in Fetchers \ pruned :
    fetchPc[w] \in {"read", "acting"} =>
      \A b, c \in series[w] : c <= Newest(asked[w]) => b..c \subseteq series[w]

\* "Resumes automatically once fresh data arrives" (freshness.py): conflicts with
\* other writers, rate limits and stale bars end, and the tick trades again.
TradingResumes ==
  <>[](feed = barNow) => []<>(fetchPc[Ticker] = "acting")

\* "Closed candles are immutable, so the cache is insert-only" (cache.py): the row
\* of a closed bar holds the values the bar closed with.
ClosedCandlesAreFinal ==
  \A b \in DOMAIN candles : b < feed => candles[b] = moves[b]
=============================================================================

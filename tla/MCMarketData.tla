--------------------------- MODULE MCMarketData ---------------------------
(***************************************************************************)
(* Small instances of the five components between the outside world and a   *)
(* strategy: the candle cache, the ticker streams, the orders sent to a     *)
(* venue, the decision rules the engine and the backtest share, and the     *)
(* headlines.  No two of them share a variable, so a behaviour of this      *)
(* module is one of any of the five, the others standing still: their       *)
(* states are added and not multiplied, and each keeps the fairness of its  *)
(* own module.  Accounts share nothing either, so each of the four kinds is *)
(* taken on its own.                                                        *)
(***************************************************************************)
EXTENDS CandleCache, Streams, VenueOrders, Replay, News

VARIABLE focus  \* the component that moves

marketVars == <<cacheVars, streamVars, venueVars, replayVars, newsVars, focus>>

MCOrderKind ==
  [a \in Accounts |->
     CASE a = "spot" -> "final"
       [] a = "futures" -> "running"
       [] a = "alpaca" -> "readback"
       [] OTHER -> "readonly"]
MCLotStep == [a \in Accounts |-> IF a = "spot" THEN 2 ELSE 1]

MarketInit ==
  /\ CacheInit /\ StreamInit /\ VenueInit /\ ReplayInit /\ NewsInit
  /\ focus \in {"candles", "streams", "decisions", "news"} \cup Accounts
  /\ focus # "streams" => calm
  /\ focus # "decisions" => strategy = "ma"

MarketNext ==
  /\ \/ /\ focus = "candles" /\ CacheNext
        /\ UNCHANGED <<streamVars, venueVars, replayVars, newsVars>>
     \/ /\ focus = "streams" /\ StreamNext
        /\ UNCHANGED <<cacheVars, venueVars, replayVars, newsVars>>
     \/ /\ focus \in Accounts /\ OrderStep(focus)
        /\ UNCHANGED <<cacheVars, streamVars, replayVars, newsVars>>
     \/ /\ focus = "decisions" /\ ReplayNext
        /\ UNCHANGED <<cacheVars, streamVars, venueVars, newsVars>>
     \/ /\ focus = "news" /\ NewsNext
        /\ UNCHANGED <<cacheVars, streamVars, venueVars, replayVars>>
  /\ UNCHANGED focus

\* CacheFairness, StreamFairness and NewsFairness, of the component that moves.
MarketFairness ==
  /\ WF_cacheVars(focus = "candles" /\ TickerTurn)
  /\ SF_cacheVars(focus = "candles" /\ TickerFetch)
  /\ WF_streamVars(focus = "streams" /\ StreamsStopped)
  /\ \A s \in Links :
       /\ WF_streamVars(focus = "streams" /\ StreamTask(s))
       /\ WF_streamVars(focus = "streams" /\ Receive(s))
  /\ WF_newsVars(focus = "news" /\ RefreshStep(Job))
  /\ SF_newsVars(focus = "news" /\ ReadFeed(Job, "x"))

MarketSpec == MarketInit /\ [][MarketNext]_marketVars /\ MarketFairness

\* The type invariants of the five modules.
MarketTypeOK ==
  CacheTypeOK /\ StreamTypeOK /\ VenueTypeOK /\ ReplayTypeOK /\ NewsTypeOK

\* TradingResumes, where the candle cache moves: once the feed keeps up with the
\* bars, the scheduler's tick trades again and again, whatever conflicts, rate
\* limits and stale bars came before.
TickTradesAgain == focus = "candles" => TradingResumes

\* HeadlineArrives of one headline and one feed, since all are alike: it is stored in
\* the end, though the other feed may be broken for ever and two refreshes that meet
\* at the unique URL cost one of them everything it had read.
NewsArrives == HeadlineArrives("a", "x")
=============================================================================

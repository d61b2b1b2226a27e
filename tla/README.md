# TLA+ models of Capital

Capital is a self-hosted trading engine (`engine/`, Python) with a web client.
This directory holds TLA+ models of the engine: the trading core, the market data
it trades on, and the accounts, settings and access rules around it, with the TLC
configurations that check them on small instances, and TLAPS proofs of all their
safety properties for every value of the constants. Paths below are
relative to `engine/` unless they say otherwise.

    tlc -config MCSubLedger.cfg MCSubLedger     # model-check one instance
    tlapm SubLedgerProofs.tla                   # check the proofs of one module

## 1. The system

One `uvicorn` process and one PostgreSQL database (READ COMMITTED). Inside the
process:

- an APScheduler thread runs `TradingEngine.tick` (`max_instances=1`,
  coalescing), a prune job at 04:00 and a news job at 06:00;
- every synchronous FastAPI endpoint runs in a thread of the request pool, with
  a database session of its own;
- asyncio tasks hold the market-data streams.

The threads share the database and, inside the process, the `TradingEngine`
object: its executor and venue routers, its last prices and its strategy
objects. There is no lock between the scheduler and the requests. SQLAlchemy
keeps the attributes of a loaded row until the session commits, and an UPDATE
names only the columns that changed; most hazards below come from those two
facts. Docker restarts the process when it dies.

| component | state | operations | talks to |
|---|---|---|---|
| Position sub-ledger (`trading/portfolio.py`, `models.py`) | `Position`, `Trade`, `StrategyAllocation` rows | get or create, apply a fill, record a fill, list, clip | called by the tick, flatten, manual orders, confirmations |
| Strategy tick and risk gate (`trading/engine.py`, `risk.py`) | per turn: candle, allocation, order | stop, evaluate, clip, cap, review, execute | ledger, executors, AI, candles |
| Order routing and trading settings (`trading/executor_router.py`, `appsettings/store.py`, `api/settings.py`, `api/venues.py`) | mode, active venue, encrypted credentials; executors kept per venue and mode | resolve; switch mode, venue, credentials | every order; the open-position guards read the ledger |
| AI strategy, signals, spend cap (`strategies/ai_strategy.py`, `ai/`, `api/ai.py`) | `AISignal`, `LLMUsage` rows; `last_usage`, `last_decision` of the strategy object | ask, record, signal, confirm, dismiss, analyze | tick, ledger, providers |
| Candle cache, freshness (`marketdata/cache.py`, `freshness.py`) | `Candle` rows | refresh, download, read, prune, freshness check | venues; tick, backtest, charts |
| Accounting and kill-switch inputs (`trading/accounting.py`, `risk.py`, `ops/retention.py`) | PnL and fees of `Position` and `Trade` rows, `EquitySnapshot` rows | equity, snapshot, daily loss, drawdown, prune | kill switch, dashboard |
| Engine lifecycle (`main.py`, `ops/`, `strategies/builtin.py`) | scheduler, heartbeat, seeded allocations | boot, seed, recover, tick, stop, watch | all |
| Reconciliation (`trading/reconcile.py`) | none | compare positions and order ids | ledger, venue |
| Streams (`marketdata/stream.py`) | one task and one hub of tickers per market | connect, back off, cancel | web sockets, market pages |
| Connections graph (`connections/`, `api/connections.py`) | nodes, edges, approval | seed, suggest, create, approve, delete | AI prompts |
| Model settings (`appsettings/store.py`, `api/settings.py`, `ai/resolve.py`) | one `Setting` row per key | save several rows, resolve provider, model and key | AI strategies |
| Authentication (`auth/`, `api/users.py`, `api/tokens.py`) | users, JWTs, API tokens, failed logins, audit rows | log in, refresh, gate, administer | every endpoint |
| Venues and exchange client (`venues/`, `exchange/`) | per-symbol filters | market data, rounding, order placement, read-back | executors, cache |
| Strategies, loader (`strategies/`) | plugin registry | indicators, evaluate | tick, backtest |
| Backtest (`backtest/`, `api/backtest.py`) | a position of its own | replay candles | strategy objects, cache |
| News (`news/`) | headlines | refresh, list | AI prompts |
| Notifications, MCP server, web client, migrations, deployment | none of the engine's | | |

### What is hard

1. *Lost updates.* The tick and a request load one `Position` row in two
   sessions and both write it back.
2. *Two transactions where one is meant*: position then trade, check then
   commit of a setting, fill then status of a signal.
3. *Stale reads across slow calls*: an LLM or venue call of seconds separates
   the reading of a setting from its use.
4. *Faults*: a crash between fill and record, a venue answer that is lost, a
   failing commit.
5. *Shared objects*: one strategy object evaluated by tick and backtest, one
   executor cache for the life of the process.
6. *Arithmetic at the edges*: flips past flat, headroom on the opposite side,
   rounding to a step, minimum notionals, an exact limit.
7. *Rows that were true once*: a bar stored before it closed, a peak that retention
   forgot, a role a token was issued with, a venue's answer read too early.
8. *Starting and stopping*: hooks that may fail, seeding in two commits, a redeploy
   in the middle of an order, tasks cancelled while they sleep.

`PROJECT.json` lists each hazard at its line, with the properties that cover it
or the reason none does yet.

### What makes each component correct

- Sub-ledger: a row is the sum of its committed fills; flat means empty; every
  fill reaches the Trade table unless a fault drops it.
- Tick: no growth past the allocation, none after a halt but one order in
  flight, a breached position is closed.
- Routing: an open position is made of fills of one account, the selected one;
  Testnet needs a sandbox; an order goes only to an account selected during its
  turn.
- AI: a status tells what happened; the engine alone stays long and within the
  allocation; notify asks first; the cap pauses; a signal is the order.
- Candle cache: what is read back has no hole, and a
  stalled feed or a lost race never stops the trading for good.
- Accounting: equity is the money paid and received and the open lots, journal and
  positions tell one PnL, and a drawdown halt is not lifted by losing more.
- Lifecycle: no model is paid for before the operator opted in; a stopped engine
  and its venue agree; drift is reported before the first tick, an outage until
  the first; the engine always ticks again.
- Streams: tickers come right again after any drops.
- News: a headline that stays in a feed is stored, though a refresh may lose all.
- Orders: the books never run ahead of the venue.
- Strategies: missed ticks and refused orders leave no trace, and the engine comes to
  the side a backtest is on, as far as the bars it is given tell.
- Graph: what the operator approved stays, and nothing but the seed is approved
  without; a deleted edge of the seed does return at the next boot.
- Settings: a provider gets its own key and address.
- Access: what a request does goes back to what the table said when it began, not to
  what its token claims, and it writes what it was asked and nothing else; a name is
  locked out by the failures the limit asks for.

## 2. The modules

Each constant has a named assumption, each operation of the code is one action,
and bounds on counters are constants named `Max...`. Operators placed just before
the definition they vary, such as `NeverFlips` before `ApplyFill`, are plausible
bugs used to show that a property can fail; no specification refers to them.

### SubLedger

Who holds what. Threads `Tick` and `Requests` each run one operation on a row of
`Handles[a]`, in the steps the code's transactions and calls cut it into:

| action | code |
|---|---|
| `Load`, `Create`, `CreateConflict` | `get_or_create_position`: select, insert, or the unique constraint losing the race |
| `Flatten` | `TradingEngine.flatten`, one open row |
| `Decide`, `StopOut`, `Pass` | the tick's order, a stop's, or none; an AI row is read again because recording its usage committed |
| `Fill`, `Reject`, `LoseAnswer` | the executors: whole fill in the simulator, any part at a venue, refusal, answer lost |
| `BookPosition`, `BookTrade` | the two commits of `record_fill`; `Update` writes the changed columns only |
| `CommitFails`, `Crash` | a failing commit, the death of the process |

Quantities are lots; prices, fees and realized PnL are left out. `total`,
`dropped` and `faults` are history.

### StrategyTick

How much is traded. One strategy's turn: `BeginStop` or `BeginEvaluation`, then
`Submit` (clip to the allocation, cap by notional, review by the kill switch) or
`Hold`, then `Execute` or `Skip`; beside it `SetAllocation`, `SetEnabled`,
`KillSwitch`, `PriceMoves` and `FeedChanges`. `quote` and `budget` are what the
turn read, the variables `price` and `allocated` what is true now. What the
strategy wants is any order. The sizing functions (`EnforceAllocation`,
`CapOrderSize`, `RoundQuantity`, `Breached`, `EntryAfter`) are translated one by
one. The turn is the only writer of its row here; several writers are the
subject of SubLedger. The simulator's two basis points of slippage are left out.

### Routing

Where an order goes. Traders read the mode, then the venue and the credentials
(`ReadMode`, `ResolveCached`, `ResolveBuilt`, `FallBack`) and fill; settings
requests check (`AskMode`, `AskVenue`, `AskKeys`) and commit in a later step
(`CommitMode`, `CommitVenue`, `CommitKey`, one credential field at a time);
`Restart` empties the cache. A position is the set of accounts whose fills its
open leg is made of. The history variable `lapses` records the two things the
guards of the code cannot see: `"overlap"`, a settings request beside another
one or beside a turn, and `"fallback"`, the simulator standing in for a venue.

`KeepsAccount` says that Routing implements *Account*, what the guards of
`api/settings.py` and `api/venues.py` promise with none of their machinery: one account
is selected, every fill is one of it (`FillHere`), and another one is selected only
while nothing is open (`Select`); once `lapses` is not empty nothing is promised
(`Void`).

### AISignals

What the model's answer leads to. The tick asks, records the usage it finds on
the strategy object, clips, and signals or executes; two requests confirm
(`Confirm`, `ConfirmFills`, `MarkExecuted`, three transactions) and dismiss;
`Analyze` spends; `Backtest` evaluates the same strategy object. The price stands
still and an allocation buys `Budget` lots.

### Ledger

What `portfolio.py` promises, with none of its machinery: a fill is issued
(`Execute`), booked into its position whole and at most once, and journalled after
that; a fault may only drop fills. `SubLedger!Promise` instantiates it with the
rows that have one writer, what the threads hold as pending fills, and the signed
size of a row as its position; `KeepsPromise` says that SubLedger implements it.

### CandleCache

Bars of one series, counted; bar `barNow` is open, `feed` is the newest the exchange
publishes, and `moves[b]` stands for the values of bar b. A thread fetches
(`FetchBars`, `FetchFails`), selects the stored open times (`SelectExisting`),
inserts and commits the rest (`InsertNew`) or meets the unique constraint
(`InsertConflict`), and reads back (`ReadBack`); the tick then checks freshness and
acts (`Tradable`, `ActOnPrice`). `PruneCandles` deletes beside them.

### Streams

One reconnecting task per market (`BeginRun`, `Connected`, `Receive`, `Drop`, `Wake`,
`Cancelled`) with its doubling delay, the hub's snapshot, and the manager that starts
and cancels the tasks. `Weather` and `QuoteMoves` are the exchange.

### VenueOrders

One order from intent to books on each of four kinds of account: Binance spot, whose
answer is final; futures, whose answer is the order as it stands; Alpaca, whose order
is read back once; and accounts that cannot trade. `ReadFilters` and `Rounded` size
it, `FillMore`, `FillAbandoned` and `OrderExpires` are the venue, and `RecordFill`,
`NoFill`, `OrderRefused` and `AnswerLost` what the executor makes of its answer.

### Replay

The four state-based strategies (`WantsLong`, `WantsFlat` over the translated
indicators), evaluated once per bar by a backtest and at any ticks by the engine,
whose orders may be refused and whose position the operator may close
(`BarArrives`, `TickCarriedOut`, `FlattenByHand`). The backtest evaluates all the bars
up to one, a tick the newest `Window` of them (`candle_limit`, `Seen`); `windowed`, a
history variable, is an engine that had a tick carried out at every bar. Closes are
multiples of a unit that every division of an indicator divides.

### EngineLifecycle

`StartProcess`, `Recover` (or `RecoveryFails`), `SeedBudget` and `SeedDisabled` (or
`SeedingFails`), `StartEngine`, turns (`BeginTick`, `Hold`, `Order`, `RecordLot`,
`AnswerLost`, `EndTurns`), `Account` with its heartbeat, `Shutdown` and `Drained`,
`LifeCrash` anywhere, and the operator's flags and budgets. `TimePasses` ages the
heartbeat.

### Accounting and DrawdownHalt

*Accounting* folds fills into the PnL, the cost and the fees of a row (`Booked`), the
same fills into the backtest's own position (`SimApplied`), and the difference into
the journal in a later commit (`JournalFill`); orders pass the daily-loss limit
(`FoldFill`), a manual close passes nothing (`FlattenFill`), and a restart forgets
the marks and an unwritten trade. Prices lie on a grain coarse enough for every
average the fills can form to come out whole (`Grain`, `GrainAssumption`); the
rounding of `Numeric` columns is left out with it. *DrawdownHalt* takes snapshots over
days, prunes them (`PruneSnapshots` deletes the rows older than `KeepDays`, which are
the first ones, since the table is in the order of its dates), and compares the newest
with the peak.

### Access and LoginLimiter

*Access*: the request threads, each from the row it reads at its start to the commit or
the tokens it ends with. `LoginReads` and `RefreshReads` are separate from `IssuePair`,
because a password is hashed in between; the gate is `PassWithJwt`, or `ApiTokenReads`
and `PassWithApiToken`, since the stamp of `last_used_at` is a commit of its own after
which the token's row is read again. `LoadUser` and `CommitUser` are the two halves of
`update_user` and `reset_password`: the loaded row decides which columns the UPDATE
names (`ChangedColumns`), and a request on its own user gets the row the gate has read
(`LoadedRow`). `OpenStream` is `/ws/market`, which goes by the access token alone: no
row of the table is read, when it is opened or later, so it is no part of what
`RequestsFollowTheTable` speaks of. Whether a password fits and when a token expires
are free choices, and the history variable `vouched` keeps the role the table gave a
request's account at its start. *LoginLimiter*: the attempt counter, in memory; the
lockout is looked up, and the count read and written, in steps of their own. A login
that gets through here may read any row of Access.

### Connections and AppSettings

*Connections*: the seed of every boot, a suggestion item by item with the commits its
helper makes on the way, the operator's edits. *AppSettings*: requests that commit one
row at a time (`CommitRow`, `SaveCutShort`), the base URLs among them, beside a tick
that reads one row at a time. The global key and the global base URL are stored, and
no tick reads them into what it uses.

### News

A headline is its URL. `ReadFeed` is one round of the loop in `refresh`: the download,
`parse_feed`, and `_upsert` of every entry the table does not hold yet; `FeedFails` is
the exception that is logged and skipped. `CommitNews` and `NewsConflict` are the one
commit at the end: the unique URL refuses all of it once another refresh has stored one
of its rows, whether at the commit or at an earlier flush, after which the session
takes nothing more. The order of the feeds is any order. A refresh that begins and
never ends is a request; the job's goes on.

### Composition

The modules share the ledger and the settings, and each takes the part another one
decides as any choice: SubLedger any order, StrategyTick any price and any state of
the kill switch, Routing any fill, AISignals any answer, EngineLifecycle any turn,
Accounting any fill of a legal size, DrawdownHalt any net PnL, VenueOrders any answer
of a venue. What one module promises for any such choice holds for the choices the
other one makes.

`MCMarketData` and `MCOperations` put the smaller modules of a side together. The
modules of such an instance have no variable in common, so instead of multiplying
their states a variable `focus`, chosen at the start, says which one moves: the
behaviours are those of each module, and its properties are checked on all of them.

### MC modules and proofs

`MCSubLedger`, `MCStrategyTick`, `MCRouting`, `MCAISignals`, `MCMarketData` and
`MCOperations` name the values the configurations use. The proofs are in
`SubLedgerProofs`, `StrategyTickProofs`, `RoutingProofs`, `AISignalsProofs`,
`VenueOrdersProofs`, `EngineLifecycleProofs`, `MarketProofs` (CandleCache, Replay,
Streams, News and the instance `MCMarketData`, over `VenueOrdersProofs`) and
`OperatorProofs` (Access, LoginLimiter, Connections, AppSettings, Accounting, DrawdownHalt and the
instance `MCOperations`, over `EngineLifecycleProofs`).

## 3. The runs

| run | instance | shows |
|---|---|---|
| `ledger` | tick on rows dca and ai, a request on ai and manual, 2 fills of at most 2 lots, 1 fault | rows with one writer stay exact and consistent, the Trade table lacks only what is in hand or dropped, and a fill at a venue is logged or dropped in the end; `KeepsPromise`, that the rows with one writer implement Ledger |
| `ledger_lost_update` | tick and request on one row, no fault | `EveryRowFolds` fails: two fills, one of them gone from the position |
| `tick` | prices 2 and 3, budgets 0, 6 and 9, orders up to 7 units, a venue with a step of 2, a minimum and a maximum notional | `AllocationRespected` and `SafeguardsHaltGrowth` hold while everything changes |
| `tick_stops` | three prices, the simulator, stop-loss and take-profit | `StopCloses` under weak fairness |
| `tick_flip` | a strategy that may reverse | `KillSwitchOpensNothing` fails: a reversing order passes the switch |
| `routing` | a venue with a sandbox and a read-only one, two credential fields, none stored at first, 1 row, tick, 1 request, 1 settings request at a time | the four invariants of the module, and `KeepsAccount`, that it implements Account |
| `routing_fallback` | the same | `SerialBooksNeverMix` fails: Testnet without keys fills in the simulator, keys are stored, the next fill of the open position is real |
| `ai_signals` | 1 signal, 2 requests, backtests, cap 1, 2 calls, 1 crash | the six properties of the module |
| `ai_budget` | 2 signals possible, Budget 1 | `ConfirmationWithinBudget` fails: a signal of a flat strategy confirmed after it has bought |
| `market_data` | a tick and a chart or backtest over three bars of one series, two streams, an order on each of four accounts, four strategies over six bars of three prices with a window of four, the job's and an admin's refresh of two headlines in two feeds | the seven properties of the five modules, three of them temporal |
| `operations` | an AI strategy and a plugin on two markets with one restart, three fills at two prices over two days, three snapshots over three dates, two operators, an API token and two overlapping requests, two logins with two names, three edges and two suggestions, two providers and three saves | the twelve properties of the seven modules, one of them liveness |
| `candles_frozen` | one thread, two bars | `ClosedCandlesAreFinal` fails: a bar fetched while open keeps the values of that moment |

The bounds. A lost update, a torn row or a duplicate insert takes two operations
of two threads, so two fills and two threads reach each of them; two lots reach
opening, adding, partial fills, reducing, closing and flipping; one fault can
come between any two steps, and the properties are about what a fault leaves
behind. Two prices and three budgets give a cap that rises, falls and vanishes
between reading and use. One row is enough in Routing because the guards only
ask whether any row is open. One signal and two requests give every overlap of
two confirmations, a confirmation and a dismissal.

In `market_data` two writers and a limit of two bars give every order of two
selects, inserts and a prune, and a hole needs three bars; a delay that doubles
twice reaches its maximum; a target of four steps of a filter of two gives whole,
partial and refused sizes; six bars are two more than the MACD
and the RSI need and than the window holds, so every strategy has decisive bars with one
missed or refused before, and the two that average over all bars part from the backtest; two headlines let
a conflict over one lose the other. The table of headlines fills up and is never
pruned, in the code as in the model, but the code's next headline is always a new one:
that conflicts end for the job rests on the number of headlines being bounded. In
`operations` three fills of up to two lots open, average, reduce, close and flip in
every order; keeping one day of snapshots over three dates makes the peak expire; two
failures lock a name, and a third, after the lockout, locks it again; a token pair is two
tokens, so a refresh needs an expiry; two requests are what it takes for one to change
the row another has read; three saves are enough for a provider, a pin and a key in
every order. The state counts are
about 211,000 (`ledger`), 11,000 and 45,000 (`tick`, `tick_stops`), 501,000
(`routing`), 2,529,000 (`ai_signals`), 380,000 (`market_data`) and 1,180,000
(`operations`).

Deadlock is checked in the runs of SubLedger, StrategyTick, Routing and AISignals:
the engine never stops offering a step. The two composed instances and
`candles_frozen` run out of bars, prices, days or requests by their bounds, and an
engine shut down for good is a legal end, so deadlock is not checked there.

Fairness. SubLedger: weak fairness of what a thread does with an operation it
has begun, one formula per thread (`FairSpec`); the venue and database clients
time out, so no call blocks for ever. Loading a row, faults and the operator's
acts are not fair. StrategyTick: weak fairness of the turn; the scheduler fires
again whatever a turn did, and `tick` catches what it raises. The operator may do
anything or nothing. A behaviour in which the price leaves the breached range and
returns counts as no longer breached, as it does in the code.

CandleCache: weak fairness of what the scheduler's thread does with a fetch it has
begun, strong fairness of a fetch succeeding: rate limits and conflicts are errors of
one turn, and the interval trigger fires again. `TickTradesAgain` assumes that the
feed keeps up from some time on. Streams: weak fairness of each task's next step,
since the event loop runs what can run and connects and sleeps end; `SnapshotsHeal`
assumes an exchange that stays calm and a manager that is not stopped. News: weak
fairness of the job's refresh, which fires every day and whose downloads time out, and
strong fairness of its reading the one feed the headline is in; the other feed may be
broken for ever, and requests refresh or not as they like. `NewsArrives` names one
headline and one feed, since all are alike.
EngineLifecycle: weak fairness of boot, turns and restarts together (`LifeStep`);
every hook's failure is caught in `main.py`, a tick catches what a strategy raises,
and the supervisor starts a dead process again (`restart: unless-stopped`,
`docker-compose.yml:44`), `MaxRestarts` times here. Nothing the operator does is fair.

## 4. Findings kept as runs

- `EveryRowFolds` - the lost update. `trading/portfolio.py` promises that every
  fill is folded into its strategy's position.
- `KillSwitchOpensNothing` - `risk.py` calls the tripped switch a halt of new
  exposure; it compares absolute sizes, so a reversal opens a new leg.
- `SerialBooksNeverMix` - the guards of `api/settings.py` keep paper and real
  state apart; storing credentials while a fallback position is open mixes them.
- `ConfirmationWithinBudget` - `ai_strategy.py` says that the AI can never bypass
  limits; a confirmation is not sized against the allocation again.
- `ClosedCandlesAreFinal` - `cache.py` calls the cache insert-only because closed
  candles are immutable; it also inserts the open one, and never updates it.

Other disagreements met while modelling, seen in earlier instances and described
here rather than kept as runs:

- Two writers of a row may leave one's side and the other's quantity, flat with
  a quantity, which `list_positions(open_only)` passes over (`models.py:49`,
  `portfolio.py:122`). `RowConsistent` is therefore about rows with one writer.
- `untracked_order_ids` (`reconcile.py:82`) compares Trade rows, so a failure
  between the two commits of `record_fill` asks the operator to record a fill
  that the position already has.
- A stop whose notional is below the executor's minimum is refused at every
  tick and the position stays open (`risk.py:7`, `executors/sim.py:66`,
  `executors/venue.py:79`). The instance of `tick_stops` has executable sizes.
- The open-position check and the commit of a mode or venue (`api/settings.py:148`
  and `167`, `api/venues.py:77` and `89`) leave a gap in which a turn may open a
  position, or the other request may take away the sandbox. The safety
  properties of Routing hold where `lapses` records no overlap.
- Two confirmations of a signal both execute it (`api/ai.py:124` and `159`);
  `dismiss_signal` looks at no status, so an executed signal may read dismissed
  (`api/ai.py:168`). `StatusTellsOutcome` is what is left: never pending again.
- A signal to sell confirmed after the position was closed takes a "long-only"
  strategy short (`ai_strategy.py:34`).
- A completion that was paid for and does not parse is not recorded, so the spend
  cap does not see it (`ai/usage.py:3`, `ai_strategy.py:101`).
- A backtest evaluates the engine's own strategy object (`api/backtest.py:119`),
  so a tick may record a backtest's usage and label its signal with a backtest's
  action. `SignalIsItsOrder` holds where no backtest fell into a turn.

- An Alpaca order that is filled after its single read-back, and a running futures
  order, leave the books behind the venue, and the next tick orders what they lack
  (`venues/alpaca.py:142`). `BooksTrailVenue` says that they are never ahead.
- Boot recovery compares futures only: every open spot row is reported as drift
  (`ops/recovery.py:49`), and in Sim mode or without keys nothing is compared.
- A crash or an error between the two commits of `seed_allocations` leaves an AI
  strategy enabled that nobody opted into (`strategies/builtin.py:74`), and a budget
  an operator set to 0 is seeded again at the next boot, disabling the strategy.
- Lowering an allocation lowers equity and so counts as a drawdown
  (`accounting.py:84`, `risk.py:117`); retention lifts a halt once the peak is
  forgotten. `HaltOutlivesLosses` names both ways out.
- An edge of the seed that the operator deleted returns, approved, at the next boot
  (`connections/seed.py:58`), though the module calls later edits never clobbered
  (`connections/seed.py:5`).
- On more bars than `candle_limit` the engine's MACD and RSI are not the backtest's
  (`trading/engine.py:153`, `backtest/runner.py:205`): both smooth over every bar they
  are given. No text promises that they are equal. `ConvergesToReplay` compares the
  two where the window suffices, and the engine with itself elsewhere.
- A request goes on with the role it read at its start (`auth/deps.py:54`), a login and a
  refresh among them, so a deactivation or a revocation takes effect for the requests
  that begin after it. `RequestsFollowTheTable` says no more.
- A provider pinned without its model, by a crash between the two rows
  (`appsettings/store.py:259`), is asked for the old model.
- The failure count survives a lockout, so one more failure locks again
  (`auth/ratelimit.py:27`).
- `news.service.refresh` catches what a feed raises, but not what its final commit
  raises after a flush failed (`news/service.py:191`): the refresh then stores nothing.
  `refresh` calls itself best-effort; its scheduled caller catches the error, and a
  request answers 500.

## 5. The proofs

TLAPS proves the following for every value of the constants that satisfies the
named assumptions.

| theorem | states |
|---|---|
| `SubLedgerProofs!TypeCorrect` | `Spec => []TypeOK` |
| `SubLedgerProofs!LedgerFolds` | a row with one writer is the sum of its committed fills and is flat exactly when empty: `PositionFoldsEveryFill` and `RowConsistent` |
| `SubLedgerProofs!TradeLog` | `Spec => []TradeLogComplete`, for any sharing of rows |
| `StrategyTickProofs!TickTypeCorrect` | `Spec => []TypeOK` |
| `StrategyTickProofs!SafeguardsHold` | `Spec => []SafeguardsHaltGrowth` |
| `StrategyTickProofs!AllocationHolds` | `Spec => AllocationRespected` |
| `RoutingProofs!RoutingTypeCorrect` | `Spec => []TypeOK` |
| `RoutingProofs!RoutingSafe` | `Spec => [](BooksNeverMix /\ OpenWhereActive)` |
| `RoutingProofs!SandboxRule` | `Spec => []TestnetHasSandbox` |
| `RoutingProofs!RoutedActive` | `Spec => []RoutedAccountWasActive` |
| `RoutingProofs!RoutingRefined` | `Spec => KeepsAccount`: Routing implements Account |
| `SubLedgerProofs!RowsConsistent` | the second half of `LedgerFolds` by itself |
| `SubLedgerProofs!LedgerRefined` | `Spec => KeepsPromise`: SubLedger implements Ledger |
| `AISignalsProofs!TypeCorrect`, `StatusTruthful`, `TickWithinBudget`, `NotifyKept`, `CapHolds`, `SignalTellsOrder` | the six properties of the run `ai_signals` |
| `VenueOrdersProofs!BooksNeverAhead` | `VenueSpec => []BooksTrailVenue` |
| `EngineLifecycleProofs!LifeTypeCorrect`, `AINeedsOptIn`, `ShutdownDrains`, `OutageTold`, `StartsReconciled` | the safety properties of EngineLifecycle |
| `OperatorProofs!TablesAreFollowed` | `AccessSpec => RequestsFollowTheTable` |
| `OperatorProofs!OperatorHasLastWord` | `GraphSpec => []GraphKeepsOperatorsWord` |
| `OperatorProofs!TickRunsAsPinned` | `SettingsSpec => []RunsAsPinned` |
| `OperatorProofs!TradesTellPositions` | `AccountsSpec => []TradesExplainPositions` |
| `OperatorProofs!EquityIsCash` | `AccountsSpec => []EquityIsCashPlusPosition` |
| `OperatorProofs!HaltSurvives` | `HaltSpec => HaltOutlivesLosses` |
| `OperatorProofs!AccountsTypesHold`, `AccessTypesHold`, `LoginTypesHold`, `GraphTypesHold`, `SettingsTypesHold`, `HaltTypesHold` | the type invariants of the six modules |
| `OperatorProofs!OperationsIsItsParts`, `OperationsTypesHold` | a behaviour of `operations` is one of each of its seven modules, and keeps `OperationsTypeOK` |
| `MarketProofs!NoGapEver` | `CacheSpec => []ReadsHaveNoGap` |
| `MarketProofs!EngineConverges` | `ReplaySpec => []ConvergesToReplay`, for every window no shorter than the averages (`WindowAssumption`) |
| `MarketProofs!CacheTypesHold`, `ReplayTypesHold`, `StreamTypesHold`, `NewsTypesHold`, `VenueOrdersProofs!VenueTypesHold` | the type invariants of the five modules |
| `MarketProofs!MarketIsItsParts`, `MarketTypesHold` | a behaviour of `market_data` is one of each of its five modules, and keeps `MarketTypeOK` |

*SubLedger.* That a row is the sum of its fills is not inductive: a booking
overwrites the row with a sum based on what the session loaded. `LedgerInv` adds
that a thread under way operates on a row it handles, and that, on a row it alone
handles, what it loaded is still the committed row until it has booked. Lemmas
say that `Signed` undoes `OfSigned`, which leaves a row flat exactly when it is
empty, and that an `Update` based on the committed row writes the new row in full.
`TradeInv` adds to the trade log that a fill whose position is committed is in
`folded`, and holds whoever writes which row.

*StrategyTick.* A fill while a halt is in force needs a turn that passed the check
before the halt began. `HaltInv` says that there is at most one: once the position
has grown under a tripped switch, the order in execution does not grow it again,
and once it has grown while the strategy is disabled, no turn is evaluating and
the only order left is a stop's. `OrderInv` carries the allocation through a turn:
an order in execution closes the position or leaves it within the larger of its
size and the cap. It rests on lemmas about `Resize`, `EnforceAllocation`,
`CapOrderSize`, `RoundQuantity` and partial fills.

*Routing.* `TypeOK` is inductive only together with `ModedIsReal`: a trader that
has read a mode and not yet resolved has read a real one, otherwise
`<<venue, read[t]>>` is no account. `SafeInv` says, while `lapses` is empty, that
what is open is open in the selected account alone (`BooksInv`), that a trader
under way acts on the settings in force (`TradersInv`), and that a settings
request is under way only between turns, alone, and with nothing open if it is
going to select another account (`RequestsInv`); the last part is what carries a
check over to its commit. `SandboxInv` does the same for the two guards of the
sandbox rule and needs only that settings requests do not overlap. `SeenInv`
needs nothing of the kind: it holds for any interleaving.

Routing implements Account by the same invariant (`AccountStep`): a trader fills in the
selected account by `TradersInv`, a commit that selects another account finds nothing
open by `RequestsInv`, and every other step changes neither. That a step after a lapse
may do anything needs only the types, and that `lapses` never shrinks.

*The refinement of Ledger.* A step of SubLedger is a step of Ledger or changes nothing of it:
an executor's fill is `Execute`, the first commit of `record_fill` is `Book`, and a
crash or a failing commit is `Forget`. What makes a booking add exactly its fill to
the position is `LedgerInv` again; that no fill is in two hands is `IdsApart`, the
numbers threads hold differ.

*AISignals.* Each property has a small invariant of its own. `OutcomeInv` says that a
request that holds a fill has counted it; `LongInv` that, before any confirmation, the
position is still the one the tick read and its order ends within 0 and the budget;
`ModeInv` that an order on its way has not been counted as unasked; `SpendInv` that a
tick that is asking was below the cap; `SignalInv` that the decision kept on the
strategy object has the side of the order, unless a backtest came between.

*VenueOrders.* `VenueInv` adds to `BooksTrailVenue` that an order the venue has not
accepted is not filled; what an order leaves behind when it ends is one lemma, for
all four kinds of account.

*EngineLifecycle.* `OptInInv` follows an AI strategy through a boot: enabled without
the operator's word only while its seeding has not come to it. `LotsInv` says that,
without crashes and lost answers, venue and rows differ by the order in flight alone,
so they agree once nothing is (`DownIsQuiet`). `DriftInv` keeps the report of recovery
true through seeding, when nothing trades, and `BeatInv` keeps the heartbeat old until
a tick completes.

*OperatorProofs.* `AccessInv` follows a request through its steps: the role it goes on
with is the one the table gave its account when it began (`Accounted`), whatever others
have committed since, and what it is going to write is within what it was asked. A
row changes only in `CommitUser`, and `Applied` of fewer columns changes no other.
The graph's property is inductive as it stands. `RowsInv` says that the rows of a
provider's key and address, and any row still to be saved for them, are for that provider, and
`ReadInv` that what a tick has read of a pin is what the pin says until a pin is
saved. `MoneyInv` states the sum of `TradesExplainPositions` field by field; one lemma
says that a fill of any lots at any price keeps it.

*Accounting.* `EquityIsCashPlusPosition` compares three ways to the same money: the
Position row's cost and realized PnL, the backtest's entry price, and what the fills
moved. It is not inductive because the code divides: a reducing fill takes an equal
share of the cost off the row, and an adding fill averages the simulator's entry.
`EntryInv` says that the cost is the lots at the entry price and that this price is a
multiple of `Grain` for the fills still to come. `GrainAssumption` makes the grain of
every fill a multiple of the next one's times any number of lots, so an average of
prices of one grain is whole and of the next (`Averaged`), and nothing is ever cut
(`Closed` for the fills that reduce, close or flip). The assumption says how finely
the prices are counted, not which prices there are: any finite number of fills has
such a unit.

*DrawdownHalt.* The rule compares the newest row with the greatest, a CHOOSE that says
nothing until a greatest row is known to exist: `Peaked` says that every run of rows
up to the newest has one, and survives an appended row (`AppendPeaked`) and deleted
oldest ones (`SuffixPeaked`). `TrippedByPeak` then states the rule with the peak alone,
and `HaltStepOutlives` goes through the steps: an appended row no better than the
newest leaves the peak where it is, or the rule tripped, and a prune that leaves a row
at the peak leaves the peak. `HaltTypesHold` has the order of the dates, without which a
prune could not delete a prefix.

*CandleCache.* That a read has no hole is about one thread, but the rows it reads were
written by all. `CacheInv` says that what a thread asked for is a range, which for a
refresh reaches back `Limit` bars or to the first one (`AskedRange`); and that, until a
prune falls into its operation, the range is stored or in its hands once it has
selected, and stored once it has inserted (`Progress`), whatever the others insert in
between. A download reads that range; a refresh reads the newest `Limit` rows, among
them perhaps older and newer ones than it asked for, and `NewestHaveNoGap` says that
these have no hole up to the newest bar it asked for.

*Replay.* `ReplayInv` compares three: the engine, an engine that missed no tick
(`windowed`), and the backtest. The first two see the same bars, so `PositionFacts` is
enough: deciding twice on the same bars changes nothing, and on decisive bars the side
one comes from does not matter. The last two see different bars. `SeenIsEnough` proves
that the two strategies that average a number of newest bars decide alike on the window
and on the series (`LastOfLast`), where `WindowAssumption` says that the window is no
shorter than the averages: 200 against 26 in the code. The MACD and the RSI smooth over
every bar they are given, so for those the backtest is compared only while the series
is no longer than the window; after that the theorem speaks of the engine alone.

*Streams, News and VenueOrders* have type invariants that are inductive with the ranges
of a step's numbers spelled out; *LoginLimiter* needs that a login's count is within the
limiter's, *Connections* that the edges a request has added have both ends stored
(`WithTypes`), and *AppSettings* `RowsInv`.

*The composed instances.* A step of `OperationsNext` is a step of one module and leaves
the variables of the others alone, so a behaviour of `OperationsSpec` is one of each of
the seven specifications (`OperationsIsItsParts`); every theorem about a module therefore
holds in the instance the run checks. `MarketIsItsParts` says the same of `MarketSpec`.

Every invariant and every action property that a passing run checks is proved. Only
model-checked: the liveness properties (`FillEventuallyLogged`, `StopCloses`,
`TickTradesAgain`, `NewsArrives`, `SnapshotsHeal`, `EngineTicksOn`), since fairness and
ENABLED are outside the prover's reach; and the five violated properties, whose
counterexamples are TLC's.

## 6. Not modelled, and the plan

Next: Routing with versions of credential values, so that an executor kept after its
keys were replaced can be told from a new one, and with the venue of a turn's market
data beside its executor's.

Left out, with the reason:

- *Notifications and the MCP server*: outgoing text, and a client of the API.
- *The web client*: its requests are the requests of the modules.
- *Migrations, configuration, encryption, deployment*: no behaviour over time; the
  restart policy is the fairness assumption named above.
- *Prompt building, decision parsing, provider clients*: reduced to the answers they
  may give; the cost of a completion that does not parse is recorded nowhere.
- *DCA and the plugin loader*: a purchase by the clock has no side to converge to,
  and loading imports files.
- *The statistics, slippage and funding of a backtest*, *the market-data calls of the
  venue adapters*, *leverage and margin*: mappings and sums without a second party;
  the factory never passes the last two.
- *`delete_strategy` and `untracked_order_ids`*: no endpoint or job calls them.
- *Audit rows and a token's `last_used_at`*: written, and read by no decision.
- *The numbers of decimals*: quantities, prices and money are whole numbers of small
  units; the rounding of `Numeric` columns is left out.

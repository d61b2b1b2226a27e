----------------------------- MODULE Accounting -----------------------------
(***************************************************************************)
(* What the ledger says a strategy is worth: realized PnL and fees of the  *)
(* Position row, realized PnL and fees of the Trade rows, equity, and the  *)
(* daily loss that halts it.  Equity over time is in DrawdownHalt.         *)
(*                                                                         *)
(* A position is counted in whole lots and its entry price is kept as the  *)
(* cost of what is open, entry_price * qty.  The backtest's own position   *)
(* arithmetic is fed the same fills beside it.  The rounding of the        *)
(* database's decimals is left out: prices are on so coarse a grid that    *)
(* every average of them is whole.  One thread writes the rows: what two   *)
(* writers do to them is in SubLedger.                                     *)
(***************************************************************************)
EXTENDS Integers

CONSTANTS
  Prices,       \* the prices a lot trades at
  Grain,        \* Grain[k]: what a price is a multiple of with k fills to come
  Budgets,      \* the allocations the operator sets
  Fee,          \* commission on one lot
  DailyLimit,   \* daily loss limit, 0 when disabled
  LotBound,     \* bound: lots of an order and of a position
  FillBound,    \* bound: fills
  DayBound      \* bound: days

ASSUME MoneyAssumption ==
  /\ Prices \subseteq Nat \ {0} /\ Prices # {} /\ Budgets \subseteq Nat /\ Budgets # {}
  /\ Fee \in Nat \ {0} /\ DailyLimit \in Nat
ASSUME MoneyBoundsAssumption ==
  /\ LotBound \in Nat \ {0} /\ FillBound \in Nat /\ DayBound \in Nat

\* An average over up to LotBound lots of what is a multiple of one grain is whole, and
\* a multiple of the next finer one.
ASSUME GrainAssumption ==
  /\ Grain \in [0..FillBound -> Nat \ {0}]
  /\ \A k \in 1..FillBound, d \in 1..LotBound : Grain[k] % (d * Grain[k - 1]) = 0
  /\ \A price \in Prices, k \in 0..FillBound : price % Grain[k] = 0

VARIABLES
  sim,        \* the backtest's _SimPosition, given the same fills: [qty, entry, realized]
  mark,       \* _last_prices[symbol], 0 when this process has seen none
  book,       \* the Position row: [lots, cost, realized, fees], lots and cost signed
  budget,     \* StrategyAllocation.allocated
  toJournal,  \* the trade between the two commits of record_fill, or NoTrade
  journal,    \* the Trade rows: the sums of realized PnL and of fees
  today,      \* realized PnL net of fees of the Trade rows of today
  missing,    \* the same sums for the trades a crash dropped: history
  cash,       \* money paid and received for all fills, fees included: history
  day,        \* the date
  filled      \* fills so far

NoTrade == [realized |-> 0, fees |-> 0]
moneyVars ==
  <<sim, mark, book, budget, toJournal, journal, today, missing, cash, day, filled>>
tradeVars == <<toJournal, journal, today, missing>>

Size(n) == IF n < 0 THEN -n ELSE n
Least(a, b) == IF a < b THEN a ELSE b
Sum2(a, b) == [realized |-> a.realized + b.realized, fees |-> a.fees + b.fees]

AccountsInit ==
  /\ sim = [qty |-> 0, entry |-> 0, realized |-> 0]
  /\ mark = 0
  /\ book = [lots |-> 0, cost |-> 0, realized |-> 0, fees |-> 0]
  /\ budget \in Budgets
  /\ toJournal = NoTrade /\ journal = NoTrade /\ missing = NoTrade
  /\ today = 0 /\ cash = 0 /\ day = 0 /\ filled = 0

----------------------------------------------------------------------------
\* portfolio.py

FlipKeepsEntry(p, n, price) ==
  IF p.lots = 0 \/ (p.lots > 0) = (n > 0)
    THEN [p EXCEPT !.lots = @ + n, !.cost = @ + n * price, !.fees = @ + Fee * Size(n)]
    ELSE LET closed == Least(Size(n), Size(p.lots))
             entry == Size(p.cost) \div Size(p.lots)
         IN [lots |-> p.lots + n,
             cost |-> entry * (p.lots + n),
             realized |-> p.realized + (price - entry) * (IF p.lots > 0 THEN closed ELSE -closed),
             fees |-> p.fees + Fee * Size(n)]

\* apply_fill: opening or adding averages the entry price; reducing, closing or
\* flipping realizes the closed part, and a flip opens the rest at the fill price.
Booked(p, n, price) ==
  IF p.lots = 0 \/ (p.lots > 0) = (n > 0)
    THEN [p EXCEPT !.lots = @ + n, !.cost = @ + n * price, !.fees = @ + Fee * Size(n)]
    ELSE LET closed == Least(Size(n), Size(p.lots))
             entry == Size(p.cost) \div Size(p.lots)
         IN [lots |-> p.lots + n,
             cost |-> (IF Size(n) > Size(p.lots) THEN price ELSE entry) * (p.lots + n),
             realized |-> p.realized + (price - entry) * (IF p.lots > 0 THEN closed ELSE -closed),
             fees |-> p.fees + Fee * Size(n)]

\* unrealized_pnl at the mark, or at the entry price while there is none.
Unrealized == IF book.lots = 0 \/ mark = 0 THEN 0 ELSE mark * book.lots - book.cost

\* strategy_summary, and the equity of portfolio_summary.
NetPnl == book.realized + Unrealized - book.fees
Equity == budget + NetPnl

----------------------------------------------------------------------------
\* backtest/runner.py

\* _SimPosition.apply keeps the entry price itself, and clears it when flat.
SimApplied(p, n, price) ==
  IF p.qty = 0 \/ (p.qty > 0) = (n > 0)
    THEN [p EXCEPT !.qty = @ + n,
                   !.entry = (Size(p.qty) * @ + Size(n) * price) \div (Size(p.qty) + Size(n))]
    ELSE LET closed == Least(Size(n), Size(p.qty))
         IN [qty |-> p.qty + n,
             entry |-> IF Size(n) > Size(p.qty) THEN price
                       ELSE IF p.qty + n = 0 THEN 0 ELSE p.entry,
             realized |-> p.realized + (price - p.entry) * (IF p.qty > 0 THEN closed ELSE -closed)]

\* The equity of a bar that closes at price, without slippage and funding.
BacktestEquity(price) ==
  budget + sim.realized + (price - sim.entry) * sim.qty - book.fees

----------------------------------------------------------------------------
\* risk.py

\* daily_realized_loss against the limit.
DailyLossTripped == DailyLimit > 0 /\ today <= -DailyLimit

----------------------------------------------------------------------------
\* A turn sees a candle that closed at price.
TakeMark(price) ==
  /\ toJournal = NoTrade
  /\ mark' = price
  /\ UNCHANGED <<sim, book, budget, tradeVars, cash, day, filled>>

\* The fill of n lots at a price, and the first commit of record_fill, the position.
Fold(n, price) ==
  /\ toJournal = NoTrade /\ filled < FillBound
  /\ book' = Booked(book, n, price)
  /\ sim' = SimApplied(sim, n, price)
  /\ toJournal' = [realized |-> book'.realized - book.realized, fees |-> Fee * Size(n)]
  /\ cash' = cash - n * price - Fee * Size(n)
  /\ filled' = filled + 1
  /\ UNCHANGED <<mark, budget, journal, today, missing, day>>

\* An order of n lots passes review and is filled at the price of the turn, or, as a
\* market order may be, at another.
FoldFill(n, price) ==
  /\ mark # 0
  /\ Size(book.lots + n) <= LotBound
  /\ ~(Size(book.lots + n) > Size(book.lots) /\ DailyLossTripped)
  /\ Fold(n, price)

\* The last price seen of the symbol, or the entry price.
LastPrice == IF mark = 0 THEN Size(book.cost) \div Size(book.lots) ELSE mark

\* flatten, which no review can refuse: the whole position, in the simulator at the
\* last price, at a venue at any.
FlattenFill ==
  /\ book.lots # 0
  /\ \E price \in Prices \cup {LastPrice} : Fold(-book.lots, price)

JournalGross ==
  /\ toJournal # NoTrade
  /\ journal' = Sum2(journal, [toJournal EXCEPT !.realized = book.realized])
  /\ today' = today + toJournal.realized - toJournal.fees
  /\ toJournal' = NoTrade
  /\ UNCHANGED <<sim, mark, book, budget, missing, cash, day, filled>>

\* The second commit of record_fill: the Trade row, dated when it is written.
JournalFill ==
  /\ toJournal # NoTrade
  /\ journal' = Sum2(journal, toJournal)
  /\ today' = today + toJournal.realized - toJournal.fees
  /\ toJournal' = NoTrade
  /\ UNCHANGED <<sim, mark, book, budget, missing, cash, day, filled>>

\* The process restarts: the marks are gone, and a trade not committed.
Restarted ==
  /\ mark # 0
  /\ mark' = 0
  /\ missing' = Sum2(missing, toJournal) /\ toJournal' = NoTrade
  /\ UNCHANGED <<sim, book, budget, journal, today, cash, day, filled>>

\* Midnight, UTC: the trades so far are yesterday's.
NewDay ==
  /\ day < DayBound
  /\ day' = day + 1 /\ today' = 0
  /\ UNCHANGED <<sim, mark, book, budget, toJournal, journal, missing, cash, filled>>

\* update_allocation.
SetBudget ==
  /\ \E b \in Budgets \ {budget} : budget' = b
  /\ UNCHANGED <<sim, mark, book, tradeVars, cash, day, filled>>

AccountsNext ==
  \/ \E price \in Prices : TakeMark(price)
  \/ \E n \in (-LotBound..LotBound) \ {0}, price \in Prices : FoldFill(n, price)
  \/ FlattenFill \/ JournalFill \/ Restarted
  \/ NewDay \/ SetBudget

AccountsSpec == AccountsInit /\ [][AccountsNext]_moneyVars

----------------------------------------------------------------------------
Totals == [realized : Int, fees : Nat]

\* Every variable stays in its domain; the open cost has the sign of the position
\* and divides evenly among its lots, so no average is cut.
AccountsTypeOK ==
  /\ mark \in Prices \cup {0} /\ budget \in Budgets
  /\ book.lots \in -LotBound..LotBound /\ book.cost \in Int
  /\ book.lots # 0 => book.cost % Size(book.lots) = 0 /\ (book.cost > 0 <=> book.lots > 0)
  /\ sim.qty = book.lots /\ sim.entry \in Nat /\ sim.realized \in Int
  /\ book.realized \in Int /\ book.fees \in Nat
  /\ {toJournal, journal, missing} \subseteq Totals /\ today \in Int /\ cash \in Int
  /\ day \in 0..DayBound /\ filled \in 0..FillBound

\* "Equity = total capital allocated + net PnL", "net PnL is always reported net of
\* fees" (accounting.py): however a position is opened, averaged, reduced, closed
\* and flipped, equity is the allocation, the money the fills paid and received,
\* and the open lots at the mark.  A backtest of the same fills, whose position
\* "mirrors apply_fill" (runner.py), comes to the same at every price.
EquityIsCashPlusPosition ==
  /\ Equity = budget + cash + (IF mark = 0 \/ book.lots = 0 THEN book.cost ELSE mark * book.lots)
  /\ \A price \in Prices : BacktestEquity(price) = budget + cash + price * book.lots

\* The daily-loss limit sums Trade rows, the accounts sum Position rows: they tell
\* the same PnL and the same fees but for a trade not yet committed or dropped.
TradesExplainPositions ==
  [realized |-> book.realized, fees |-> book.fees] = Sum2(Sum2(journal, toJournal), missing)
=============================================================================

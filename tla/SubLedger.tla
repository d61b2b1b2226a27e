----------------------------- MODULE SubLedger -----------------------------
(***************************************************************************)
(* The position-attribution sub-ledger and the threads that write to it.   *)
(*                                                                         *)
(* One scheduler thread (Tick) runs TradingEngine.tick; FastAPI runs each  *)
(* operator operation (close, manual order, signal confirmation) on a      *)
(* thread of its own.  Every one of them holds a database session, loads a *)
(* Position row, decides on an order, lets an executor fill it, commits    *)
(* the Position row and then, in a second transaction, the Trade row.      *)
(* Nothing but the database stands between two such threads, and the       *)
(* database runs at READ COMMITTED.                                        *)
(*                                                                         *)
(* Two facts about SQLAlchemy sessions, on which src/ relies, matter here. *)
(* A row a session has loaded stays as loaded until that session commits:  *)
(* selecting it again does not refresh it.  And the UPDATE a commit sends  *)
(* names only the columns whose new value differs from the loaded one.     *)
(*                                                                         *)
(* Quantities are counted in lots (the venue's step size).  Prices, fees   *)
(* and PnL play no part in who holds what and are left to other modules.   *)
(***************************************************************************)
EXTENDS Integers

CONSTANTS
  Rows,        \* keys (strategy, market, symbol) of the position table
  Tick,        \* the scheduler thread
  Requests,    \* the request threads of the API
  Handles,     \* Handles[a]: the rows thread a may operate on
  AIRows,      \* the rows of AI strategies
  ManualRows,  \* the rows of the reserved "manual" strategy
  Live,        \* TRUE: orders go to a venue, FALSE: to the simulator
  MaxLots,     \* bound: lots of one order
  MaxFills,    \* bound: fills in a behaviour
  MaxFaults    \* bound: crashes, database failures and lost venue answers

Actors == {Tick} \cup Requests

ASSUME RowsAssumption ==
  Rows # {} /\ AIRows \subseteq Rows /\ ManualRows \subseteq Rows \ AIRows
ASSUME ActorsAssumption ==
  /\ Tick \notin Requests
  /\ Handles \in [Actors -> SUBSET Rows]
  /\ Handles[Tick] \cap ManualRows = {}
ASSUME BoundsAssumption ==
  /\ Live \in BOOLEAN
  /\ MaxLots \in Nat \ {0} /\ MaxFills \in Nat /\ MaxFaults \in Nat

VARIABLES
  row,      \* row[r]: the committed side and quantity of Position row r
  created,  \* rows that exist; the table starts empty
  pc,       \* pc[a]: where thread a is in its operation
  at,       \* at[a]: the row it operates on
  seen,     \* seen[a]: that row as its session loaded it
  order,    \* order[a]: the signed size of its order, then of its fill
  fillId,   \* fillId[a]: the number of its fill, 0 while there is none
  fills,    \* how many fills executors have produced, which numbers them
  atVenue,  \* fills the venue executed
  folded,   \* fills committed into a Position row
  traded,   \* fills with a committed Trade row
  dropped,  \* fills whose handler ended before their Trade row: history
  total,    \* total[r]: the signed sum of the fills committed for r: history
  faults    \* faults so far

ledger  == <<row, created, folded, traded, total>>
session == <<pc, at, seen, order, fillId>>
vars    == <<ledger, session, fills, atVenue, dropped, faults>>

----------------------------------------------------------------------------
\* The Position row.

Sides == {"long", "short", "flat"}
PositionRow == [side : Sides, qty : Nat]
Flat == [side |-> "flat", qty |-> 0]

Magnitude(n) == IF n < 0 THEN -n ELSE n

\* _signed_qty: a flat row counts as zero whatever its quantity column says.
Signed(p) == IF p.side = "long" THEN p.qty ELSE IF p.side = "short" THEN -p.qty ELSE 0

\* Faulty variants, for the mutation runs, stand before the definition they vary.
SideStuckOnClose(n) == [side |-> IF n >= 0 THEN "long" ELSE "short", qty |-> Magnitude(n)]

QuantityKeepsSign(n) ==
  [side |-> IF n > 0 THEN "long" ELSE IF n < 0 THEN "short" ELSE "flat", qty |-> n]

\* The side and quantity apply_fill assigns for a signed size.
OfSigned(n) ==
  [side |-> IF n > 0 THEN "long" ELSE IF n < 0 THEN "short" ELSE "flat",
   qty  |-> Magnitude(n)]

NeverFlips(p, d) ==
  IF Signed(p) > 0 /\ Signed(p) + d < 0 THEN Flat ELSE OfSigned(Signed(p) + d)

\* apply_fill on a row as loaded: opening, adding, reducing, closing or
\* flipping past flat are all one signed addition.
ApplyFill(p, d) == OfSigned(Signed(p) + d)

\* The committed row after a session that loaded `old` writes `new`: only the
\* columns it changed reach the database.
Update(current, old, new) ==
  [side |-> IF new.side # old.side THEN new.side ELSE current.side,
   qty  |-> IF new.qty # old.qty THEN new.qty ELSE current.qty]

\* The order that closes a loaded row in full (stop_order, flatten).
CloseOf(p) == IF p.side = "long" THEN -p.qty ELSE p.qty

\* Orders a strategy, an AI signal or the operator may ask for.  A plugin
\* strategy may sell short, so the sign is free.
Orders == (-MaxLots..MaxLots) \ {0}

\* AIStrategy.evaluate is long-only: it buys when the row it was shown is not
\* long and sells no more than that row holds.
AIAsks(p, n) == IF n > 0 THEN p.side # "long" ELSE p.side = "long" /\ -n <= p.qty

----------------------------------------------------------------------------
AnyRow == CHOOSE r \in Rows : TRUE

\* Threads with a fill the ledger does not fully record yet.
Holding(a) == pc[a] \in {"filled", "folded"}
Held == {fillId[a] : a \in {b \in Actors : Holding(b)}}

Init ==
  /\ row = [r \in Rows |-> Flat]
  /\ created = {}
  /\ pc = [a \in Actors |-> "idle"]
  /\ at = [a \in Actors |-> AnyRow]
  /\ seen = [a \in Actors |-> Flat]
  /\ order = [a \in Actors |-> 0]
  /\ fillId = [a \in Actors |-> 0]
  /\ fills = 0
  /\ atVenue = {}
  /\ folded = {}
  /\ traded = {}
  /\ dropped = {}
  /\ total = [r \in Rows |-> 0]
  /\ faults = 0

\* The operation of a is over: its session closes and forgets what it loaded.
Finish(a) ==
  /\ pc' = [pc EXCEPT ![a] = "idle"]
  /\ at' = [at EXCEPT ![a] = AnyRow]
  /\ seen' = [seen EXCEPT ![a] = Flat]
  /\ order' = [order EXCEPT ![a] = 0]
  /\ fillId' = [fillId EXCEPT ![a] = 0]

\* get_or_create_position at the start of a strategy tick, of a manual order
\* and of a signal confirmation: the row is selected.
Load(a, r) ==
  /\ pc[a] = "idle" /\ r \in Handles[a]
  /\ pc' = [pc EXCEPT ![a] = IF r \in created THEN "loaded" ELSE "missing"]
  /\ at' = [at EXCEPT ![a] = r]
  /\ seen' = [seen EXCEPT ![a] = row[r]]
  /\ UNCHANGED <<ledger, order, fillId, fills, atVenue, dropped, faults>>

\* The select found nothing: the row is inserted and read back.
Create(a) ==
  /\ pc[a] = "missing" /\ at[a] \notin created
  /\ created' = created \cup {at[a]}
  /\ pc' = [pc EXCEPT ![a] = "loaded"]
  /\ UNCHANGED <<row, folded, traded, total, at, seen, order, fillId>>
  /\ UNCHANGED <<fills, atVenue, dropped, faults>>

\* Another thread inserted it in between: uq_position refuses the second
\* insert and the IntegrityError ends the operation.
CreateConflict(a) ==
  /\ pc[a] = "missing" /\ at[a] \in created
  /\ Finish(a)
  /\ UNCHANGED <<ledger, fills, atVenue, dropped, faults>>

\* flatten lists the open rows of a registered strategy (never of "manual")
\* and closes each one in full.
Flatten(a, r) ==
  /\ a \in Requests /\ pc[a] = "idle" /\ r \in Handles[a] \ ManualRows
  /\ r \in created /\ row[r].side # "flat"
  /\ pc' = [pc EXCEPT ![a] = "ordered"]
  /\ at' = [at EXCEPT ![a] = r]
  /\ seen' = [seen EXCEPT ![a] = row[r]]
  /\ order' = [order EXCEPT ![a] = CloseOf(row[r])]
  /\ UNCHANGED <<ledger, fillId, fills, atVenue, dropped, faults>>

\* The thread settles on an order: the strategy's evaluation after allocation
\* and risk review, the confirmed signal, or the operator's request.  An AI
\* evaluation has recorded its LLM usage by then; that commit expires the
\* loaded row, so the sizing reads it afresh.
Decide(a, n) ==
  /\ pc[a] = "loaded"
  /\ pc' = [pc EXCEPT ![a] = "ordered"]
  /\ order' = [order EXCEPT ![a] = n]
  /\ IF a = Tick /\ at[a] \in AIRows
       THEN AIAsks(seen[a], n) /\ seen' = [seen EXCEPT ![a] = row[at[a]]]
       ELSE seen' = seen
  /\ UNCHANGED <<ledger, at, fillId, fills, atVenue, dropped, faults>>

\* stop_order: the tick closes a row whose stop-loss or take-profit is hit.
StopOut(a) ==
  /\ a = Tick /\ pc[a] = "loaded"
  /\ seen[a].side # "flat" /\ seen[a].qty > 0
  /\ pc' = [pc EXCEPT ![a] = "ordered"]
  /\ order' = [order EXCEPT ![a] = CloseOf(seen[a])]
  /\ UNCHANGED <<ledger, at, seen, fillId, fills, atVenue, dropped, faults>>

\* No order: strategy disabled, nothing to do, clipped to nothing, blocked by
\* the risk manager, or only signalled to the operator.
Pass(a) ==
  /\ pc[a] = "loaded"
  /\ Finish(a)
  /\ UNCHANGED <<ledger, fills, atVenue, dropped, faults>>

\* ExecutionError: the quantity rounds to zero, the notional is too small, or
\* the venue refused the order or filled nothing of it.
Reject(a) ==
  /\ pc[a] = "ordered"
  /\ Finish(a)
  /\ UNCHANGED <<ledger, fills, atVenue, dropped, faults>>

\* The executor fills q lots of the order.  The simulator fills all of it; a
\* venue may fill a part and reports how much.
Fill(a, q) ==
  /\ pc[a] = "ordered" /\ fills < MaxFills
  /\ q \in 1..Magnitude(order[a])
  /\ Live \/ q = Magnitude(order[a])
  /\ pc' = [pc EXCEPT ![a] = "filled"]
  /\ order' = [order EXCEPT ![a] = IF order[a] > 0 THEN q ELSE -q]
  /\ fills' = fills + 1
  /\ fillId' = [fillId EXCEPT ![a] = fills + 1]
  /\ atVenue' = IF Live THEN atVenue \cup {fills + 1} ELSE atVenue
  /\ UNCHANGED <<ledger, at, seen, dropped, faults>>

\* The venue fills the order and its answer is lost, or the answer reports no
\* fill yet: place_order raises and nothing is recorded.
LoseAnswer(a) ==
  /\ Live /\ pc[a] = "ordered" /\ order[a] # 0
  /\ fills < MaxFills /\ faults < MaxFaults
  /\ fills' = fills + 1
  /\ atVenue' = atVenue \cup {fills + 1}
  /\ dropped' = dropped \cup {fills + 1}
  /\ faults' = faults + 1
  /\ Finish(a)
  /\ UNCHANGED ledger

BookWithoutTrade(a) ==
  /\ pc[a] = "filled"
  /\ row' = [row EXCEPT ![at[a]] = Update(@, seen[a], ApplyFill(seen[a], order[a]))]
  /\ total' = [total EXCEPT ![at[a]] = @ + order[a]]
  /\ folded' = folded \cup {fillId[a]}
  /\ Finish(a)
  /\ UNCHANGED <<created, traded, fills, atVenue, dropped, faults>>

\* record_fill, first transaction: apply_fill folds the fill into the row the
\* session loaded and commits.
BookPosition(a) ==
  /\ pc[a] = "filled"
  /\ row' = [row EXCEPT ![at[a]] = Update(@, seen[a], ApplyFill(seen[a], order[a]))]
  /\ total' = [total EXCEPT ![at[a]] = @ + order[a]]
  /\ folded' = folded \cup {fillId[a]}
  /\ pc' = [pc EXCEPT ![a] = "folded"]
  /\ UNCHANGED <<created, traded, at, seen, order, fillId, fills, atVenue, dropped, faults>>

\* record_fill, second transaction: the Trade row is inserted.
BookTrade(a) ==
  /\ pc[a] = "folded"
  /\ traded' = traded \cup {fillId[a]}
  /\ Finish(a)
  /\ UNCHANGED <<row, created, folded, total, fills, atVenue, dropped, faults>>

RetryFromTheStart(a) ==
  /\ Holding(a) /\ faults < MaxFaults
  /\ faults' = faults + 1
  /\ pc' = [pc EXCEPT ![a] = "filled"]
  /\ UNCHANGED <<ledger, at, seen, order, fillId, fills, atVenue, dropped>>

\* A commit of record_fill raises (the database is gone, a column overflows):
\* the exception ends the operation, a fill in hand is dropped.
CommitFails(a) ==
  /\ Holding(a) /\ faults < MaxFaults
  /\ dropped' = dropped \cup {fillId[a]}
  /\ faults' = faults + 1
  /\ Finish(a)
  /\ UNCHANGED <<ledger, fills, atVenue>>

\* The process dies and is restarted: what was committed stays, what the
\* threads held is gone.
Crash ==
  /\ faults < MaxFaults
  /\ \E a \in Actors : pc[a] # "idle"
  /\ dropped' = dropped \cup Held
  /\ faults' = faults + 1
  /\ pc' = [a \in Actors |-> "idle"]
  /\ at' = [a \in Actors |-> AnyRow]
  /\ seen' = [a \in Actors |-> Flat]
  /\ order' = [a \in Actors |-> 0]
  /\ fillId' = [a \in Actors |-> 0]
  /\ UNCHANGED <<ledger, fills, atVenue>>

\* What a thread does with an operation it has begun.
Proceed(a) ==
  \/ Create(a) \/ CreateConflict(a)
  \/ \E n \in Orders : Decide(a, n)
  \/ StopOut(a) \/ Pass(a) \/ Reject(a)
  \/ \E q \in 1..Magnitude(order[a]) : Fill(a, q)
  \/ BookPosition(a) \/ BookTrade(a)

Next ==
  \/ \E a \in Actors :
       \/ \E r \in Rows : Load(a, r) \/ Flatten(a, r)
       \/ Proceed(a)
       \/ LoseAnswer(a) \/ CommitFails(a)
  \/ Crash

Spec == Init /\ [][Next]_vars

\* A thread that has begun an operation runs it to its end: venue and database
\* clients time out, so no call blocks for ever.
FairSpec == Spec /\ \A a \in Actors : WF_vars(Proceed(a))

----------------------------------------------------------------------------
Phases == {"idle", "missing", "loaded", "ordered", "filled", "folded"}
FillIds == 1..fills

\* Every variable stays in its domain; a thread has a fill number exactly
\* while it holds a fill.
TypeOK ==
  /\ row \in [Rows -> PositionRow]
  /\ created \in SUBSET Rows
  /\ pc \in [Actors -> Phases]
  /\ at \in [Actors -> Rows]
  /\ seen \in [Actors -> PositionRow]
  /\ order \in [Actors -> Int]
  /\ fills \in Nat /\ fillId \in [Actors -> 0..fills]
  /\ \A a \in Actors : Holding(a) <=> fillId[a] # 0
  /\ atVenue \in SUBSET FillIds /\ folded \in SUBSET FillIds
  /\ traded \in SUBSET FillIds /\ dropped \in SUBSET FillIds
  /\ total \in [Rows -> Int]
  /\ faults \in 0..MaxFaults

\* Rows in the hands of one thread alone.
SoleRows == {r \in Rows : \A a, b \in Actors : r \in Handles[a] \cap Handles[b] => a = b}

\* "Every executed fill is attributed to the strategy that triggered it and
\* folded into that strategy's position" (portfolio.py): a row with one writer
\* is the sum of the fills committed for it, crashes and failed commits included.
PositionFoldsEveryFill == \A r \in SoleRows : Signed(row[r]) = total[r]

\* A row with one writer is flat exactly when it holds nothing.
\* list_positions(open_only) and the open-position guards of the Settings API
\* look at the side alone.
RowConsistent == \A r \in SoleRows : row[r].side = "flat" <=> row[r].qty = 0

\* The promise of portfolio.py as it is written, for every row whoever writes
\* it: the scheduler and a request may operate on one row at a time.
EveryRowFolds == \A r \in Rows : Signed(row[r]) = total[r]

\* The Trade table never runs ahead of the positions, and the fills it lacks
\* are those still in a thread's hands or dropped by a fault: no interleaving
\* of threads loses a Trade row, even where it corrupts a position.
TradeLogComplete ==
  /\ traded \subseteq folded
  /\ FillIds \subseteq traded \cup Held \cup dropped

\* A fill in hand ends up in the Trade table unless a fault drops it.
FillEventuallyLogged ==
  \A i \in 1..MaxFills : i \in atVenue ~> i \in traded \cup dropped

----------------------------------------------------------------------------
\* The promise of the sub-ledger, on the rows with one writer: what their columns
\* say, the fills threads hold before and after booking them, and the Trade table.
Positions == [r \in SoleRows |-> Signed(row[r])]
FillOf(a) == [id |-> fillId[a], key |-> at[a], lots |-> order[a]]
InHand == {FillOf(a) : a \in {b \in Actors : pc[b] = "filled"}}
Booked == {fillId[a] : a \in {b \in Actors : pc[b] = "folded"}}

Promise == INSTANCE Ledger WITH
  AllKeys <- Rows, Keys <- SoleRows, holding <- Positions, issued <- fills,
  pending <- InHand, awaiting <- Booked, journal <- traded

\* Sessions, stale rows, partial UPDATEs, two commits, crashes and retries of
\* other operations included, record_fill books each fill of such a row exactly
\* once and in one step, and journals it after: SubLedger implements Ledger.
KeepsPromise == Promise!LedgerSpec
=============================================================================

---------------------------- MODULE StrategyTick ----------------------------
(***************************************************************************)
(* One strategy's turn in TradingEngine.tick, from the candle it acts on   *)
(* to the fill, beside the operator who changes its settings and the risk  *)
(* state that changes while a turn is under way.                           *)
(*                                                                         *)
(* A turn takes its market price once, and reads each setting once, at     *)
(* different moments; an LLM call or a venue call may pass between them.   *)
(* The turn is the only writer of its position row here; SubLedger is the  *)
(* module about several writers.                                           *)
(*                                                                         *)
(* Quantities are integers in the smallest unit an order can state; an     *)
(* executor trades multiples of Step.  A price is quote currency per unit. *)
(* The entry price of an addition is any price between the old entry and   *)
(* the fill, which is where a volume-weighted average lies.  The           *)
(* simulator's slippage of two basis points is left out.                   *)
(***************************************************************************)
EXTENDS Integers

CONSTANTS
  Prices,        \* market prices
  Budgets,       \* allocations the operator may set
  MaxOrder,      \* bound: units of a strategy's order
  Step,          \* lot step of the instrument
  MinNotional,   \* least notional of an order
  MaxNotional,   \* risk: cap on an order's notional, 0 when disabled
  StopLoss,      \* risk: stop-loss percentage, 0 when disabled
  TakeProfit,    \* risk: take-profit percentage, 0 when disabled
  Live,          \* TRUE: a venue fills, FALSE: the simulator
  OperatorActs   \* whether settings, feed and kill switch change

ASSUME PricesAssumption == Prices \subseteq Nat \ {0} /\ Prices # {}
ASSUME BudgetsAssumption == Budgets \subseteq Nat /\ Budgets # {}
ASSUME LimitsAssumption ==
  /\ Step \in Nat \ {0}
  /\ MaxOrder \in Nat /\ MinNotional \in Nat /\ MaxNotional \in Nat
  /\ StopLoss \in Nat /\ TakeProfit \in Nat
  /\ Live \in BOOLEAN /\ OperatorActs \in BOOLEAN

VARIABLES
  price,      \* close of the newest candle
  fresh,      \* the feed is not stale
  position,   \* the strategy's signed position
  entry,      \* its entry price, 0 when flat
  allocated,  \* StrategyAllocation.allocated
  enabled,    \* StrategyAllocation.enabled
  tripped,    \* kill_switch_tripped, by daily loss or drawdown
  pc,         \* where the turn is
  quote,      \* the price the turn took, 0 between turns
  budget,     \* the allocation the turn read, 0 while it read none
  want,       \* the signed order of the turn
  grown       \* grown[h]: fills that grew the position since h last set in: history

settings == <<allocated, enabled, tripped>>
market   == <<price, fresh>>
turn     == <<pc, quote, budget, want>>
vars     == <<market, settings, turn, position, entry, grown>>

----------------------------------------------------------------------------
\* Sizing and risk, as functions of a signed position p and a signed order n.

Size(n) == IF n < 0 THEN -n ELSE n
Larger(m, n) == IF m > n THEN m ELSE n
Smaller(m, n) == IF m < n THEN m ELSE n
Resize(n, size) == IF n < 0 THEN -size ELSE size

NoOrder == 0

\* Units an allocation buys at a price.
CapUnits(amount, at) == amount \div at

\* Room on the order's side before the position reaches the cap.
Headroom(p, cap, n) == IF n > 0 THEN cap - p ELSE cap + p

ClipToWholeCap(p, amount, n, at) ==
  Resize(n, Smaller(Size(n), CapUnits(amount, at)))

\* enforce_allocation.
EnforceAllocation(p, amount, n, at) ==
  LET room == Headroom(p, CapUnits(amount, at), n)
  IN  IF room <= 0 THEN NoOrder ELSE Resize(n, Smaller(Size(n), room))

\* RiskManager.cap_order_size; it caps closing orders as well.
CapOrderSize(n, at) ==
  IF MaxNotional = 0 THEN n ELSE Resize(n, Smaller(Size(n), MaxNotional \div at))

SameDirection(p, n) == p = 0 \/ (p > 0) = (n > 0)

\* RiskManager._increases_exposure.
IncreasesExposure(p, n) == Size(p + n) > Size(p)

\* RiskManager.stop_order: unrealized PnL, as a percentage of the entry value,
\* is at the stop-loss or the take-profit.
Breached(p, e, at) ==
  LET gain == (IF p > 0 THEN at - e ELSE e - at) * 100
  IN  /\ p # 0 /\ e > 0
      /\ \/ StopLoss > 0 /\ gain <= -(StopLoss * e)
         \/ TakeProfit > 0 /\ gain >= TakeProfit * e

\* SymbolFilters.round_quantity, towards zero.
RoundQuantity(n) == Resize(n, (Size(n) \div Step) * Step)

\* An executor takes the order: something is left of it after rounding and
\* its notional is large enough.
Executable(n, at) == RoundQuantity(n) # 0 /\ Size(RoundQuantity(n)) * at >= MinNotional

----------------------------------------------------------------------------
\* What is to keep a position from growing.
Halts == {"tripped", "disabled"}

\* Every variable stays in its domain.
TypeOK ==
  /\ price \in Prices /\ fresh \in BOOLEAN
  /\ position \in Int /\ entry \in Nat
  /\ allocated \in Budgets /\ enabled \in BOOLEAN /\ tripped \in BOOLEAN
  /\ pc \in {"idle", "evaluating", "executing"}
  /\ quote \in Prices \cup {0} /\ budget \in Nat /\ want \in Int
  /\ grown \in [Halts -> Nat]

Init ==
  /\ price \in Prices /\ fresh = TRUE
  /\ position = 0 /\ entry = 0
  /\ allocated \in Budgets /\ enabled = TRUE /\ tripped = FALSE
  /\ pc = "idle" /\ quote = 0 /\ budget = 0 /\ want = NoOrder
  /\ grown = [h \in Halts |-> 0]

\* The turn is over and forgets what it read.
EndTurn == pc' = "idle" /\ quote' = 0 /\ budget' = 0 /\ want' = NoOrder

BeginWhenEnabledStop ==
  /\ pc = "idle" /\ fresh /\ Breached(position, entry, price) /\ enabled
  /\ pc' = "executing" /\ quote' = price /\ want' = -position
  /\ UNCHANGED <<market, settings, budget, position, entry, grown>>

\* A turn that finds a fresh candle first checks the stop: a breached position
\* is to be closed in full, whether the strategy is enabled or not and past
\* neither the allocation nor the risk gate.
BeginStop ==
  /\ pc = "idle" /\ fresh /\ Breached(position, entry, price)
  /\ pc' = "executing" /\ quote' = price /\ want' = -position
  /\ UNCHANGED <<market, settings, budget, position, entry, grown>>

\* Otherwise an enabled strategy reads its allocation and is evaluated.
BeginEvaluation ==
  /\ pc = "idle" /\ fresh /\ ~Breached(position, entry, price) /\ enabled
  /\ pc' = "evaluating" /\ quote' = price /\ budget' = allocated
  /\ UNCHANGED <<market, settings, position, entry, want, grown>>

SubmitUnreviewed(n) ==
  /\ pc = "evaluating"
  /\ LET sized == CapOrderSize(EnforceAllocation(position, budget, n, quote), quote)
     IN  IF sized = NoOrder
           THEN EndTurn
           ELSE pc' = "executing" /\ want' = sized /\ UNCHANGED <<quote, budget>>
  /\ UNCHANGED <<market, settings, position, entry, grown>>

\* The strategy asks for n units; the order is clipped to the allocation,
\* capped, and refused when it grows the position while the switch is tripped.
Submit(n) ==
  /\ pc = "evaluating"
  /\ LET sized == CapOrderSize(EnforceAllocation(position, budget, n, quote), quote)
     IN  IF sized = NoOrder \/ (IncreasesExposure(position, sized) /\ tripped)
           THEN EndTurn
           ELSE pc' = "executing" /\ want' = sized /\ UNCHANGED <<quote, budget>>
  /\ UNCHANGED <<market, settings, position, entry, grown>>

\* The strategy holds, its evaluation fails or its AI spend cap is reached; or
\* its order, once reviewed, is only signalled to the operator (notify mode).
Hold ==
  /\ pc = "evaluating"
  /\ EndTurn
  /\ UNCHANGED <<market, settings, position, entry, grown>>

\* ExecutionError: the order cannot be placed, or the venue refuses it.
Skip ==
  /\ pc = "executing" /\ (Live \/ ~Executable(want, quote))
  /\ EndTurn
  /\ UNCHANGED <<market, settings, position, entry, grown>>

SignedEntry(p, e, n, at) ==
  IF p + n = 0 THEN {0} ELSE {Resize(p + n, at)}

\* What apply_fill makes of the entry price: none when flat, the fill's price
\* for a new leg, unchanged by a reduction, averaged by an addition.
EntryAfter(p, e, n, at) ==
  IF p + n = 0 THEN {0}
  ELSE IF p # 0 /\ (p > 0) # (n > 0)
    THEN IF Size(n) > Size(p) THEN {at} ELSE {e}
  ELSE IF p = 0 THEN {at} ELSE Smaller(e, at)..Larger(e, at)

Halted(h) == IF h = "tripped" THEN tripped ELSE ~enabled

\* The executor fills n of the order, all of it in the simulator, and the fill
\* is booked.
Execute(n) ==
  /\ pc = "executing" /\ Executable(want, quote)
  /\ n # 0 /\ (n > 0) = (want > 0) /\ Size(n) <= Size(RoundQuantity(want))
  /\ Size(n) % Step = 0 /\ (Live \/ n = RoundQuantity(want))
  /\ position' = position + n
  /\ entry' \in EntryAfter(position, entry, n, quote)
  /\ grown' = [h \in Halts |->
                 IF Size(position + n) > Size(position) /\ Halted(h)
                   THEN grown[h] + 1 ELSE grown[h]]
  /\ EndTurn
  /\ UNCHANGED <<market, settings>>

\* Fills an order can come to.
Fills(n) == IF n < 0 THEN n..(-1) ELSE 1..n

Turn ==
  \/ BeginStop \/ BeginEvaluation \/ Hold \/ Skip
  \/ \E n \in (-MaxOrder..MaxOrder) \ {0} : Submit(n)
  \/ \E n \in Fills(want) : Execute(n)

PriceMoves ==
  /\ price' \in Prices
  /\ UNCHANGED <<fresh, settings, turn, position, entry, grown>>

FeedChanges ==
  /\ OperatorActs
  /\ fresh' = ~fresh
  /\ UNCHANGED <<price, settings, turn, position, entry, grown>>

SetAllocation ==
  /\ OperatorActs
  /\ allocated' \in Budgets
  /\ UNCHANGED <<market, enabled, tripped, turn, position, entry, grown>>

SetEnabled ==
  /\ OperatorActs
  /\ enabled' = ~enabled
  /\ grown' = [grown EXCEPT !["disabled"] = 0]
  /\ UNCHANGED <<market, allocated, tripped, turn, position, entry>>

\* Realized losses, or an equity snapshot, trip the switch; a new day or a
\* recovery clears it.
KillSwitch ==
  /\ OperatorActs
  /\ tripped' = ~tripped
  /\ grown' = [grown EXCEPT !["tripped"] = 0]
  /\ UNCHANGED <<market, allocated, enabled, turn, position, entry>>

Next ==
  \/ Turn
  \/ PriceMoves \/ FeedChanges \/ SetAllocation \/ SetEnabled \/ KillSwitch

Spec == Init /\ [][Next]_vars

\* The scheduler keeps ticking and a turn, once begun, is carried on.
FairSpec == Spec /\ WF_vars(Turn)

----------------------------------------------------------------------------
\* "Clip order so the strategy's exposure stays within its allocation"
\* (enforce_allocation): whatever is clipped, capped, rounded and partly
\* filled on the way, a fill leaves the position no larger than it was or
\* within what the allocation the turn read buys at the price it took.
AllocationRespected ==
  [][position' # position =>
       Size(position') <= Larger(Size(position), CapUnits(budget, quote))]_vars

\* "Halts new exposure" (risk.py) and "new entries stop" (lifecycle.py): from
\* the moment the kill switch trips or the strategy is disabled, the order
\* already past that check is the only one that can still grow the position.
SafeguardsHaltGrowth == \A h \in Halts : grown[h] <= 1

\* "Force-closes a position whose unrealized PnL breaches" a limit (risk.py),
\* disabled or not: while the feed is fresh a breached position gets closed.
StopCloses ==
  (fresh /\ Breached(position, entry, price))
    ~> (position = 0 \/ ~fresh \/ ~Breached(position, entry, price))

\* "Halts new exposure ... Closing trades stay allowed" (risk.py): an order
\* reviewed while the switch is tripped never opens the opposite side.
KillSwitchOpensNothing ==
  [][\A n \in (-MaxOrder..MaxOrder) \ {0} :
       Submit(n) /\ tripped /\ pc' = "executing" =>
         position + want' = 0 \/ (position + want' > 0) = (position > 0)]_vars
=============================================================================

----------------------------- MODULE AISignals -----------------------------
(***************************************************************************)
(* An AI strategy, the signals it leaves for the operator, and what its    *)
(* LLM calls cost.                                                         *)
(*                                                                         *)
(* The scheduler's tick asks the model unless the day's spend has reached  *)
(* the cap, records the usage, and either executes the order or, in notify *)
(* mode, leaves a pending signal.  Request threads confirm and dismiss     *)
(* signals, ask the model themselves (/analyze), and backtest: a backtest  *)
(* evaluates the engine's own strategy object, whose last_usage and        *)
(* last_decision the tick reads after its evaluation.                      *)
(*                                                                         *)
(* The price stands still; quantities are lots, and Budget is what the     *)
(* strategy's allocation buys.  Costs are units of one model call's price. *)
(***************************************************************************)
EXTENDS Integers

CONSTANTS
  Budget,     \* lots the allocation buys
  Cap,        \* daily spend cap, 0 for none
  Costs,      \* what one model call may cost
  Requests,   \* request threads that confirm and dismiss
  Backtests,  \* whether the strategy is backtested while the engine runs
  MaxSignals, \* bound: signals
  MaxSpent,   \* bound: model calls begin below this much recorded spend
  MaxFaults   \* bound: crashes

ASSUME BudgetAssumption == Budget \in Nat \ {0}
ASSUME CostAssumption ==
  Cap \in Nat /\ Costs \subseteq Nat \ {0} /\ Costs # {} /\ Backtests \in BOOLEAN
ASSUME BoundsAssumption == MaxSignals \in Nat /\ MaxSpent \in Nat /\ MaxFaults \in Nat

Ids == 1..MaxSignals
Answers == {"buy", "sell", "hold"}

VARIABLES
  signal,    \* signal[i]: the AISignal rows
  issued,    \* how many rows there are
  position,  \* the strategy's signed position
  action,    \* the strategy's action mode
  pc,        \* where the tick is
  seen,      \* the position the tick loaded before the model was asked
  order,     \* the tick's signed order
  last,      \* last_usage and last_decision of the strategy object
  doing,     \* doing[q]: what request q does, and to which signal
  spent,     \* cost recorded in LLMUsage rows
  ticked,    \* the part of it recorded by the tick
  ordered,   \* ordered[i]: the order signal i was made of: history
  fills,     \* fills[i]: executions of signal i: history
  torn,      \* signals filled whose request died before the status: history
  unasked,   \* orders the tick executed since notify was last set: history
  mixed,     \* a backtest has evaluated the strategy object mid-turn: history
  faults

tick    == <<pc, seen, order>>
costs   == <<spent, ticked>>
signals == <<signal, issued, ordered>>
vars    == <<signals, position, action, tick, last, doing, costs, fills, torn,
             unasked, mixed, faults>>

NoSignal == [status |-> "none", act |-> "hold", qty |-> 0]
NoAnswer == [cost |-> 0, act |-> "hold"]
Nothing == [step |-> "idle", id |-> 0]

Size(n) == IF n < 0 THEN -n ELSE n
Signed(act, size) == IF act = "buy" THEN size ELSE -size

Init ==
  /\ signal = [i \in Ids |-> NoSignal] /\ issued = 0
  /\ position = 0 /\ action = "notify"
  /\ pc = "idle" /\ seen = 0 /\ order = 0
  /\ last = NoAnswer
  /\ doing = [q \in Requests |-> Nothing]
  /\ spent = 0 /\ ticked = 0
  /\ ordered = [i \in Ids |-> 0] /\ fills = [i \in Ids |-> 0]
  /\ torn = {} /\ unasked = 0 /\ mixed = FALSE /\ faults = 0

----------------------------------------------------------------------------
\* The tick.

Stop == pc' = "idle" /\ seen' = 0 /\ order' = 0

CapPassed == Cap > 0 /\ spent > Cap

\* _llm_cap_reached
CapReached == Cap > 0 /\ spent >= Cap

\* The position row is loaded and, below the cap, the model is asked.
Ask ==
  /\ pc = "idle" /\ ~CapReached /\ spent < MaxSpent
  /\ pc' = "asking" /\ seen' = position
  /\ last' = NoAnswer
  /\ UNCHANGED <<signals, position, action, order, doing, costs, fills, torn>>
  /\ UNCHANGED <<unasked, mixed, faults>>

SellWhenNotLong(act) ==
  IF act = "buy" /\ seen <= 0 THEN Budget ELSE IF act = "sell" THEN -Budget ELSE 0

\* The order evaluate makes of an answer: long-only, the whole allocation in,
\* the whole position as it was loaded out.
OrderOf(act) ==
  IF act = "buy" /\ seen <= 0 THEN Budget
  ELSE IF act = "sell" /\ seen > 0 THEN -seen ELSE 0

AnswerForgetsDecision(cost, act) ==
  /\ pc = "asking"
  /\ last' = [cost |-> cost, act |-> last.act]
  /\ order' = OrderOf(act)
  /\ pc' = "answered"
  /\ UNCHANGED <<signals, position, action, seen, doing, costs, fills, torn>>
  /\ UNCHANGED <<unasked, mixed, faults>>

\* The provider answers and the answer parses.
Answer(cost, act) ==
  /\ pc = "asking"
  /\ last' = [cost |-> cost, act |-> act]
  /\ order' = OrderOf(act)
  /\ pc' = "answered"
  /\ UNCHANGED <<signals, position, action, seen, doing, costs, fills, torn>>
  /\ UNCHANGED <<unasked, mixed, faults>>

\* LLMError: no answer, or one that does not parse.  There is no order, and no
\* usage to record, though the latter was paid for.
AnswerFails ==
  /\ pc = "asking"
  /\ pc' = "answered" /\ order' = 0
  /\ UNCHANGED <<signals, position, action, seen, last, doing, costs, fills, torn>>
  /\ UNCHANGED <<unasked, mixed, faults>>

\* enforce_allocation on the row as it is now: recording the usage committed,
\* so the session reads it again; without a usage it is still the row loaded.
Clip(n) ==
  LET held == IF last = NoAnswer THEN seen ELSE position
      room == IF n > 0 THEN Budget - held ELSE Budget + held
  IN  IF n = 0 \/ room <= 0 THEN 0
      ELSE IF Size(n) <= room THEN n ELSE IF n > 0 THEN room ELSE -room

\* The tick records the usage it finds on the strategy object, and sizes.
RecordUsage ==
  /\ pc = "answered"
  /\ spent' = spent + last.cost
  /\ ticked' = ticked + last.cost
  /\ IF Clip(order) = 0
       THEN Stop
       ELSE pc' = "sized" /\ order' = Clip(order) /\ seen' = seen
  /\ UNCHANGED <<signals, position, action, last, doing, fills, torn>>
  /\ UNCHANGED <<unasked, mixed, faults>>

\* The risk manager blocks the order, or the executor refuses it.
Drop ==
  /\ pc \in {"sized", "acting"}
  /\ Stop
  /\ UNCHANGED <<signals, position, action, last, doing, costs, fills, torn>>
  /\ UNCHANGED <<unasked, mixed, faults>>

\* Notify mode: a pending signal with the order's quantity and the action of
\* the last decision.
Signal ==
  /\ pc = "sized" /\ action = "notify" /\ issued < MaxSignals
  /\ issued' = issued + 1
  /\ signal' = [signal EXCEPT ![issued + 1] =
                  [status |-> "pending", act |-> last.act, qty |-> Size(order)]]
  /\ ordered' = [ordered EXCEPT ![issued + 1] = order]
  /\ Stop
  /\ UNCHANGED <<position, action, last, doing, costs, fills, torn, unasked, mixed, faults>>

GoAheadInAnyMode ==
  /\ pc = "sized"
  /\ pc' = "acting"
  /\ UNCHANGED <<signals, position, action, seen, order, last, doing, costs>>
  /\ UNCHANGED <<fills, torn, unasked, mixed, faults>>

\* Auto mode: on to the executor.
GoAhead ==
  /\ pc = "sized" /\ action = "auto"
  /\ pc' = "acting"
  /\ UNCHANGED <<signals, position, action, seen, order, last, doing, costs>>
  /\ UNCHANGED <<fills, torn, unasked, mixed, faults>>

\* The executor fills n lots of the order, a venue perhaps not all of it.
Act(n) ==
  /\ pc = "acting" /\ n \in 1..Size(order)
  /\ position' = IF order > 0 THEN position + n ELSE position - n
  /\ unasked' = IF action = "notify" THEN unasked + 1 ELSE unasked
  /\ Stop
  /\ UNCHANGED <<signals, action, last, doing, costs, fills, torn, mixed, faults>>

\* The operator switches between notify and auto.
SetAction(m) ==
  /\ m # action
  /\ action' = m /\ unasked' = 0
  /\ UNCHANGED <<signals, position, tick, last, doing, costs, fills, torn, mixed, faults>>

----------------------------------------------------------------------------
\* The requests.

Do(q, step, i) == doing' = [doing EXCEPT ![q] = [step |-> step, id |-> i]]

\* confirm_signal finds the signal pending and goes on to price and review it.
Confirm(q, i) ==
  /\ doing[q] = Nothing /\ signal[i].status = "pending"
  /\ Do(q, "confirming", i)
  /\ UNCHANGED <<signals, position, action, tick, last, costs, fills, torn>>
  /\ UNCHANGED <<unasked, mixed, faults>>

FailureMarksExecuted(q) ==
  /\ doing[q].step = "confirming"
  /\ signal' = [signal EXCEPT ![doing[q].id].status = "executed"]
  /\ doing' = [doing EXCEPT ![q] = Nothing]
  /\ UNCHANGED <<issued, ordered, position, action, tick, last, costs, fills, torn>>
  /\ UNCHANGED <<unasked, mixed, faults>>

\* No price, blocked by the risk manager, refused by the executor, or the
\* action is not a side: the request fails and the signal stays as it is.
ConfirmFails(q) ==
  /\ doing[q].step = "confirming"
  /\ doing' = [doing EXCEPT ![q] = Nothing]
  /\ UNCHANGED <<signals, position, action, tick, last, costs, fills, torn>>
  /\ UNCHANGED <<unasked, mixed, faults>>

\* The order is executed, past no allocation, for the quantity of the signal
\* or what the size cap and the venue leave of it.
ConfirmFills(q, n) ==
  /\ doing[q].step = "confirming"
  /\ LET i == doing[q].id
     IN  /\ signal[i].act # "hold" /\ n \in 1..signal[i].qty
         /\ position' = position + Signed(signal[i].act, n)
         /\ fills' = [fills EXCEPT ![i] = @ + 1]
         /\ Do(q, "filled", i)
  /\ UNCHANGED <<signals, action, tick, last, costs, torn, unasked, mixed, faults>>

\* The transaction after that one marks the signal, whatever it says by now.
MarkExecuted(q) ==
  /\ doing[q].step = "filled"
  /\ signal' = [signal EXCEPT ![doing[q].id].status = "executed"]
  /\ doing' = [doing EXCEPT ![q] = Nothing]
  /\ UNCHANGED <<issued, ordered, position, action, tick, last, costs, fills, torn>>
  /\ UNCHANGED <<unasked, mixed, faults>>

DismissUnknown(i) ==
  /\ Requests # {}
  /\ signal' = [signal EXCEPT ![i].status = "dismissed"]
  /\ UNCHANGED <<issued, ordered, position, action, tick, last, doing, costs>>
  /\ UNCHANGED <<fills, torn, unasked, mixed, faults>>

\* dismiss_signal looks at no status.
Dismiss(i) ==
  /\ signal[i].status # "none" /\ Requests # {}
  /\ signal' = [signal EXCEPT ![i].status = "dismissed"]
  /\ UNCHANGED <<issued, ordered, position, action, tick, last, doing, costs>>
  /\ UNCHANGED <<fills, torn, unasked, mixed, faults>>

\* /analyze, which no cap holds back: a completion that parses is recorded.
Analyze(cost) ==
  /\ Requests # {} /\ spent < MaxSpent
  /\ spent' = spent + cost
  /\ UNCHANGED <<signals, position, action, tick, last, doing, ticked, fills, torn>>
  /\ UNCHANGED <<unasked, mixed, faults>>

\* One bar of a backtest: the strategy object is evaluated, nothing recorded.
Backtest(cost, act) ==
  /\ Backtests
  /\ last' \in {NoAnswer, [cost |-> cost, act |-> act]}
  /\ mixed' = (mixed \/ pc # "idle")
  /\ UNCHANGED <<signals, position, action, tick, doing, costs, fills, torn>>
  /\ UNCHANGED <<unasked, faults>>

Crash ==
  /\ faults < MaxFaults /\ faults' = faults + 1
  /\ torn' = torn \cup {doing[q].id : q \in {r \in Requests : doing[r].step = "filled"}}
  /\ doing' = [q \in Requests |-> Nothing]
  /\ last' = NoAnswer
  /\ Stop
  /\ UNCHANGED <<signals, position, action, costs, fills, unasked, mixed>>

Turn ==
  \/ Ask \/ AnswerFails \/ RecordUsage \/ Drop \/ Signal \/ GoAhead
  \/ \E n \in 1..Size(order) : Act(n)
  \/ \E cost \in Costs, act \in Answers : Answer(cost, act)

Request(q) ==
  \/ \E i \in Ids : Confirm(q, i)
  \/ \E n \in 1..Budget : ConfirmFills(q, n)
  \/ ConfirmFails(q) \/ MarkExecuted(q)

Next ==
  \/ Turn
  \/ \E q \in Requests : Request(q)
  \/ \E i \in Ids : Dismiss(i)
  \/ \E m \in {"notify", "auto"} : SetAction(m)
  \/ \E cost \in Costs : Analyze(cost) \/ \E act \in Answers : Backtest(cost, act)
  \/ Crash

Spec == Init /\ [][Next]_vars

----------------------------------------------------------------------------
Statuses == {"none", "pending", "executed", "dismissed"}

\* Every variable stays in its domain; the rows are numbered without gaps.
TypeOK ==
  /\ signal \in [Ids -> [status : Statuses, act : Answers, qty : Nat]]
  /\ issued \in 0..MaxSignals
  /\ \A i \in Ids : signal[i].status = "none" <=> i > issued
  /\ position \in Int /\ action \in {"notify", "auto"}
  /\ pc \in {"idle", "asking", "answered", "sized", "acting"}
  /\ seen \in Int /\ order \in Int
  /\ last \in [cost : Nat, act : Answers]
  /\ doing \in [Requests -> [step : {"idle", "confirming", "filled"}, id : 0..MaxSignals]]
  /\ \A q \in Requests : doing[q].step # "idle" => doing[q].id \in 1..issued
  /\ spent \in Nat /\ ticked \in Nat
  /\ ordered \in [Ids -> Int] /\ fills \in [Ids -> Nat]
  /\ torn \subseteq Ids /\ unasked \in Nat /\ mixed \in BOOLEAN /\ faults \in 0..MaxFaults

Handled(i) == \E q \in Requests : doing[q].step = "filled" /\ doing[q].id = i

\* The status column tells the truth about the venue, however confirmations
\* and dismissals overlap: an executed signal has been filled, and a filled one
\* does not go back to pending for a second confirmation, unless the process
\* died right after the fill.
StatusTellsOutcome ==
  \A i \in Ids :
    /\ signal[i].status = "executed" => fills[i] > 0
    /\ fills[i] > 0 /\ ~Handled(i) /\ i \notin torn => signal[i].status # "pending"

\* What the engine does on its own keeps the strategy long and within its
\* allocation; only confirmations can take it out of there.
AutonomousWithinBudget ==
  (\A i \in Ids : fills[i] = 0) => position \in 0..Budget

\* "AI strategies pause once it is reached" (api/settings.py): the tick's
\* recorded spend passes the cap by less than one call.
StrategiesPauseAtCap ==
  Cap > 0 => \E cost \in Costs : ticked < Cap + cost

\* "An AI decision is surfaced for operator confirmation rather than executed"
\* in notify mode (store.py): after the switch to notify, the order that had
\* already read the mode is the only one still executed unasked.
NotifyHolds == unasked <= 1

\* A signal is the order it was made of, so that confirming it trades what the
\* tick would have traded (signals.py): its action comes from the strategy
\* object and its quantity from the order, which agree unless a backtest has
\* used that object in the middle of a turn.
SignalIsItsOrder ==
  ~mixed => \A i \in Ids : signal[i].status # "none" =>
    signal[i].act # "hold" /\ ordered[i] = Signed(signal[i].act, signal[i].qty)

\* "The AI can never bypass limits" (ai_strategy.py), allocation first: a
\* confirmed purchase leaves the position within what the allocation buys.
ConfirmationWithinBudget ==
  [][\A q \in Requests, n \in 1..Budget :
       ConfirmFills(q, n) /\ position' > position => position' <= Budget]_vars
=============================================================================

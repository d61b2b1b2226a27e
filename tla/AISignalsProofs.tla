-------------------------- MODULE AISignalsProofs --------------------------
(***************************************************************************)
(* Proofs about AISignals: its type invariant, and what the tick and the    *)
(* requests keep between them, for every allocation, cap, set of costs,     *)
(* requests, signals and crashes.                                           *)
(***************************************************************************)
EXTENDS AISignals, TLAPS

----------------------------------------------------------------------------
\* The type invariant.

LEMMA TypeInit == Init => TypeOK
<1> SUFFICES ASSUME Init PROVE TypeOK
  OBVIOUS
<1> USE BudgetAssumption, CostAssumption, BoundsAssumption
<1>1. signal \in [Ids -> [status : Statuses, act : Answers, qty : Nat]]
  BY SMT DEF Init, NoSignal, Statuses, Answers
<1>2. \A i \in Ids : signal[i].status = "none" <=> i > issued
  BY SMT DEF Init, NoSignal, Ids
<1>3. last \in [cost : Nat, act : Answers]
  BY SMT DEF Init, NoAnswer, Answers
<1>4. doing \in [Requests -> [step : {"idle", "confirming", "filled"}, id : 0..MaxSignals]]
  BY SMT DEF Init, Nothing
<1>5. \A q \in Requests : doing[q].step # "idle" => doing[q].id \in 1..issued
  BY SMT DEF Init, Nothing
<1>6. ordered \in [Ids -> Int] /\ fills \in [Ids -> Nat]
  BY SMT DEF Init
<1>7. torn \subseteq Ids /\ mixed \in BOOLEAN
  BY DEF Init
<1> QED
  BY <1>1, <1>2, <1>3, <1>4, <1>5, <1>6, <1>7, SMT DEF Init, TypeOK

\* What an order is cut to is a number of lots.
LEMMA ClipInt ==
  ASSUME TypeOK, NEW n \in Int
  PROVE  Clip(n) \in Int
BY BudgetAssumption, SMT DEF TypeOK, Clip, Size

LEMMA TypeStep == TypeOK /\ [Next]_vars => TypeOK'
<1> SUFFICES ASSUME TypeOK, [Next]_vars PROVE TypeOK'
  OBVIOUS
<1> USE BudgetAssumption, CostAssumption, BoundsAssumption
<1>1. CASE Ask
  BY <1>1, SMT DEF Ask, TypeOK, NoAnswer, Answers, signals, costs, CapReached
<1>2. CASE AnswerFails
  BY <1>2, SMT DEF AnswerFails, TypeOK, signals, costs
<1>3. CASE RecordUsage
  <2>1. Clip(order) \in Int
    BY ClipInt DEF TypeOK
  <2> QED
    BY <1>3, <2>1, SMT DEF RecordUsage, Stop, TypeOK, signals
<1>4. CASE Drop
  BY <1>4, SMT DEF Drop, Stop, TypeOK, signals, costs
<1>5. CASE Signal
  <2>1. issued + 1 \in Ids /\ Size(order) \in Nat
    BY <1>5, SMT DEF Signal, TypeOK, Ids, Size
  <2>2. [status |-> "pending", act |-> last.act, qty |-> Size(order)]
          \in [status : Statuses, act : Answers, qty : Nat]
    BY <2>1, SMT DEF TypeOK, Statuses
  <2>3. signal' \in [Ids -> [status : Statuses, act : Answers, qty : Nat]]
    BY <1>5, <2>1, <2>2, SMT DEF Signal, TypeOK
  <2>4. \A i \in Ids : signal'[i].status = "none" <=> i > issued'
    BY <1>5, <2>1, SMT DEF Signal, TypeOK, Ids
  <2>5. ordered' \in [Ids -> Int] /\ issued' \in 0..MaxSignals
    BY <1>5, <2>1, SMT DEF Signal, TypeOK, Ids
  <2>6. \A q \in Requests : doing'[q].step # "idle" => doing'[q].id \in 1..issued'
    BY <1>5, SMT DEF Signal, TypeOK
  <2> QED
    BY <1>5, <2>3, <2>4, <2>5, <2>6, SMT DEF Signal, Stop, TypeOK, costs
<1>6. CASE GoAhead
  BY <1>6, SMT DEF GoAhead, TypeOK, signals, costs
<1>7. ASSUME NEW n \in 1..Size(order), Act(n) PROVE TypeOK'
  <2>1. n \in Nat
    BY <1>7, SMT DEF TypeOK, Size
  <2> QED
    BY <1>7, <2>1, SMT DEF Act, Stop, TypeOK, signals, costs
<1>8. ASSUME NEW cost \in Costs, NEW act \in Answers, Answer(cost, act) PROVE TypeOK'
  <2>1. OrderOf(act) \in Int
    BY SMT DEF OrderOf, TypeOK
  <2> QED
    BY <1>8, <2>1, SMT DEF Answer, TypeOK, signals, costs
<1>9. ASSUME NEW q \in Requests, NEW i \in Ids, Confirm(q, i) PROVE TypeOK'
  <2>1. i \in 1..issued
    BY <1>9, SMT DEF Confirm, TypeOK, Ids
  <2>2. doing' = [doing EXCEPT ![q] = [step |-> "confirming", id |-> i]]
    BY <1>9 DEF Confirm, Do
  <2>3. doing' \in [Requests -> [step : {"idle", "confirming", "filled"}, id : 0..MaxSignals]]
    BY <2>2, SMT DEF TypeOK, Ids
  <2>4. \A r \in Requests : doing'[r].step # "idle" => doing'[r].id \in 1..issued
    BY <2>1, <2>2, SMT DEF TypeOK
  <2> QED
    BY <1>9, <2>3, <2>4, SMT DEF Confirm, TypeOK, signals, tick, costs
<1>10. ASSUME NEW q \in Requests, NEW n \in 1..Budget, ConfirmFills(q, n) PROVE TypeOK'
  <2>1. doing[q].id \in 1..issued /\ doing[q].id \in Ids
    BY <1>10, SMT DEF ConfirmFills, TypeOK, Ids
  <2>2. position' \in Int
    BY <1>10, <2>1, SMT DEF ConfirmFills, TypeOK, Signed
  <2>3. fills' \in [Ids -> Nat]
    BY <1>10, <2>1, SMT DEF ConfirmFills, TypeOK
  <2>4. doing' = [doing EXCEPT ![q] = [step |-> "filled", id |-> doing[q].id]]
    BY <1>10 DEF ConfirmFills, Do
  <2>5. doing' \in [Requests -> [step : {"idle", "confirming", "filled"}, id : 0..MaxSignals]]
    BY <2>1, <2>4, SMT DEF TypeOK
  <2>6. \A r \in Requests : doing'[r].step # "idle" => doing'[r].id \in 1..issued
    BY <2>1, <2>4, SMT DEF TypeOK
  <2> QED
    BY <1>10, <2>2, <2>3, <2>5, <2>6, SMT DEF ConfirmFills, TypeOK, signals, tick, costs
<1>11. ASSUME NEW q \in Requests, ConfirmFails(q) PROVE TypeOK'
  BY <1>11, SMT DEF ConfirmFails, Nothing, TypeOK, signals, tick, costs
<1>12. ASSUME NEW q \in Requests, MarkExecuted(q) PROVE TypeOK'
  <2>1. doing[q].id \in 1..issued /\ doing[q].id \in Ids
    BY <1>12, SMT DEF MarkExecuted, TypeOK, Ids
  <2>2. \A i \in Ids : signal'[i].status = "none" <=> i > issued
    BY <1>12, <2>1, SMT DEF MarkExecuted, TypeOK, Ids
  <2>3. signal' \in [Ids -> [status : Statuses, act : Answers, qty : Nat]]
    BY <1>12, <2>1, SMT DEF MarkExecuted, TypeOK, Statuses
  <2> QED
    BY <1>12, <2>2, <2>3, SMT DEF MarkExecuted, Nothing, TypeOK, tick, costs
<1>13. ASSUME NEW i \in Ids, Dismiss(i) PROVE TypeOK'
  <2>1. \A j \in Ids : signal'[j].status = "none" <=> j > issued
    BY <1>13, SMT DEF Dismiss, TypeOK, Ids
  <2>2. signal' \in [Ids -> [status : Statuses, act : Answers, qty : Nat]]
    BY <1>13, SMT DEF Dismiss, TypeOK, Statuses
  <2> QED
    BY <1>13, <2>1, <2>2, SMT DEF Dismiss, TypeOK, tick, costs
<1>14. ASSUME NEW m \in {"notify", "auto"}, SetAction(m) PROVE TypeOK'
  BY <1>14, SMT DEF SetAction, TypeOK, signals, tick, costs
<1>15. ASSUME NEW cost \in Costs, Analyze(cost) PROVE TypeOK'
  BY <1>15, SMT DEF Analyze, TypeOK, signals, tick
<1>16. ASSUME NEW cost \in Costs, NEW act \in Answers, Backtest(cost, act) PROVE TypeOK'
  <2>1. last' \in [cost : Nat, act : Answers]
    BY <1>16, SMT DEF Backtest, NoAnswer, Answers
  <2>2. mixed' \in BOOLEAN
    BY <1>16 DEF Backtest, TypeOK
  <2> QED
    BY <1>16, <2>1, <2>2, SMT DEF Backtest, TypeOK, signals, tick, costs
<1>17. CASE Crash
  <2>1. torn' \subseteq Ids
    <3>1. \A q \in Requests : doing[q].step = "filled" => doing[q].id \in Ids
      BY SMT DEF TypeOK, Ids
    <3> QED
      BY <1>17, <3>1 DEF Crash, TypeOK
  <2>2. last' \in [cost : Nat, act : Answers]
    BY <1>17, SMT DEF Crash, NoAnswer, Answers
  <2>3. doing' \in [Requests -> [step : {"idle", "confirming", "filled"}, id : 0..MaxSignals]]
    BY <1>17, SMT DEF Crash, Nothing
  <2>4. \A q \in Requests : doing'[q].step = "idle"
    BY <1>17, SMT DEF Crash, Nothing
  <2> QED
    BY <1>17, <2>1, <2>2, <2>3, <2>4, SMT DEF Crash, Stop, TypeOK, signals, costs
<1>18. CASE UNCHANGED vars
  BY <1>18, SMT DEF vars, TypeOK, signals, tick, costs
<1> QED
  BY <1>1, <1>2, <1>3, <1>4, <1>5, <1>6, <1>7, <1>8, <1>9, <1>10, <1>11, <1>12,
     <1>13, <1>14, <1>15, <1>16, <1>17, <1>18
  DEF Next, Turn, Request

\* Every variable stays in its domain and the rows are numbered without gaps.
THEOREM TypeCorrect == Spec => []TypeOK
BY TypeInit, TypeStep, PTL DEF Spec

----------------------------------------------------------------------------
\* What a signal's status says.

\* A request that is past its fill counts it, and only rows are filled.
FillsCounted ==
  /\ \A q \in Requests : doing[q].step = "filled" => fills[doing[q].id] > 0
  /\ \A i \in Ids : fills[i] > 0 => signal[i].status # "none"

OutcomeInv == FillsCounted /\ StatusTellsOutcome

LEMMA OutcomeStep == TypeOK /\ OutcomeInv /\ [Next]_vars => OutcomeInv'
<1> SUFFICES ASSUME TypeOK, OutcomeInv, [Next]_vars PROVE OutcomeInv'
  OBVIOUS
<1> USE BudgetAssumption, BoundsAssumption
<1>1. CASE UNCHANGED <<signal, doing, fills, torn>>
  BY <1>1 DEF OutcomeInv, FillsCounted, StatusTellsOutcome, Handled
<1>2. CASE Signal
  <2>1. issued + 1 \in Ids /\ signal[issued + 1].status = "none"
    BY <1>2, SMT DEF Signal, TypeOK, Ids
  <2>2. ~(fills[issued + 1] > 0)
    BY <2>1 DEF OutcomeInv, FillsCounted
  <2>3. \A i \in Ids : signal'[i] = IF i = issued + 1
               THEN [status |-> "pending", act |-> last.act, qty |-> Size(order)]
               ELSE signal[i]
    BY <1>2, SMT DEF Signal, TypeOK
  <2>4. UNCHANGED <<doing, fills, torn>>
    BY <1>2 DEF Signal
  <2> QED
    BY <2>2, <2>3, <2>4, SMT DEF OutcomeInv, FillsCounted, StatusTellsOutcome, Handled
<1>3. ASSUME NEW q \in Requests, NEW i \in Ids, Confirm(q, i) PROVE OutcomeInv'
  <2>1. doing[q].step = "idle" /\ UNCHANGED <<signal, fills, torn>>
    BY <1>3 DEF Confirm, Nothing, signals
  <2>2. doing' = [doing EXCEPT ![q] = [step |-> "confirming", id |-> i]]
    BY <1>3 DEF Confirm, Do
  <2>3. \A r \in Requests :
          doing'[r] = IF r = q THEN [step |-> "confirming", id |-> i] ELSE doing[r]
    BY <2>2, SMT DEF TypeOK
  <2> QED
    BY <2>1, <2>3, SMT DEF OutcomeInv, FillsCounted, StatusTellsOutcome, Handled
<1>4. ASSUME NEW q \in Requests, NEW n \in 1..Budget, ConfirmFills(q, n) PROVE OutcomeInv'
  <2> DEFINE f == doing[q].id
  <2>1. f \in Ids /\ doing[q].step = "confirming" /\ signal[f].status # "none"
    BY <1>4, SMT DEF ConfirmFills, TypeOK, Ids
  <2>2. doing' = [doing EXCEPT ![q] = [step |-> "filled", id |-> f]]
    BY <1>4 DEF ConfirmFills, Do
  <2>3. \A r \in Requests :
          doing'[r] = IF r = q THEN [step |-> "filled", id |-> f] ELSE doing[r]
    BY <2>2, SMT DEF TypeOK
  <2>4. \A i \in Ids : fills'[i] = IF i = f THEN fills[i] + 1 ELSE fills[i]
    BY <1>4, <2>1, SMT DEF ConfirmFills, TypeOK
  <2>5. UNCHANGED <<signal, torn>>
    BY <1>4 DEF ConfirmFills, signals
  <2>6. \A i \in Ids : fills[i] \in Nat
    BY DEF TypeOK
  <2>7. \A r \in Requests : doing[r].step = "filled" => doing[r].id \in Ids
    BY SMT DEF TypeOK, Ids
  <2>8. \A i \in Ids : i # f /\ Handled(i) => Handled(i)'
    BY <2>1, <2>3, SMT DEF Handled
  <2>9. FillsCounted'
    <3>1. ASSUME NEW r \in Requests, doing'[r].step = "filled"
          PROVE  fills'[doing'[r].id] > 0
      <4>1. CASE r = q
        BY <2>1, <2>3, <2>4, <2>6, <4>1, SMT
      <4>2. CASE r # q
        <5>1. doing[r].id \in Ids /\ fills[doing[r].id] > 0 /\ doing'[r] = doing[r]
          BY <2>3, <2>7, <3>1, <4>2 DEF OutcomeInv, FillsCounted
        <5> QED
          BY <2>4, <2>6, <5>1, SMT
      <4> QED
        BY <4>1, <4>2
    <3>2. \A i \in Ids : fills'[i] > 0 => signal'[i].status # "none"
      BY <2>1, <2>4, <2>5 DEF OutcomeInv, FillsCounted
    <3> QED
      BY <3>1, <3>2 DEF FillsCounted
  <2>10. StatusTellsOutcome'
    <3> SUFFICES ASSUME NEW i \in Ids
                 PROVE  /\ signal'[i].status = "executed" => fills'[i] > 0
                        /\ fills'[i] > 0 /\ ~Handled(i)' /\ i \notin torn'
                             => signal'[i].status # "pending"
      BY Zenon DEF StatusTellsOutcome
    <3>1. CASE i = f
      <4>1. fills'[i] > 0
        BY <2>4, <2>6, <3>1, SMT
      <4>2. Handled(i)'
        BY <2>3, <3>1 DEF Handled
      <4> QED
        BY <4>1, <4>2
    <3>2. CASE i # f
      <4>1. fills'[i] = fills[i] /\ (Handled(i) => Handled(i)')
        BY <2>4, <2>8, <3>2
      <4> QED
        BY <2>5, <4>1 DEF OutcomeInv, StatusTellsOutcome
    <3> QED
      BY <3>1, <3>2
  <2> QED
    BY <2>9, <2>10 DEF OutcomeInv
<1>5. ASSUME NEW q \in Requests, ConfirmFails(q) PROVE OutcomeInv'
  <2>1. doing[q].step = "confirming" /\ UNCHANGED <<signal, fills, torn>>
    BY <1>5 DEF ConfirmFails, signals
  <2>2. \A r \in Requests : doing'[r] = IF r = q THEN Nothing ELSE doing[r]
    BY <1>5, SMT DEF ConfirmFails, TypeOK
  <2> QED
    BY <2>1, <2>2, SMT DEF OutcomeInv, FillsCounted, StatusTellsOutcome, Handled, Nothing
<1>6. ASSUME NEW q \in Requests, MarkExecuted(q) PROVE OutcomeInv'
  <2> DEFINE f == doing[q].id
  <2>1. f \in Ids /\ fills[f] > 0
    BY <1>6, SMT DEF MarkExecuted, TypeOK, Ids, OutcomeInv, FillsCounted
  <2>2. \A r \in Requests : doing'[r] = IF r = q THEN Nothing ELSE doing[r]
    BY <1>6, SMT DEF MarkExecuted, TypeOK
  <2>3. \A i \in Ids : signal'[i].status = IF i = f THEN "executed" ELSE signal[i].status
    BY <1>6, <2>1, SMT DEF MarkExecuted, TypeOK
  <2>4. UNCHANGED <<fills, torn>>
    BY <1>6 DEF MarkExecuted
  <2>5. \A i \in Ids : i # f /\ Handled(i) => Handled(i)'
    BY <2>2, SMT DEF Handled
  <2>6. FillsCounted'
    BY <2>1, <2>2, <2>3, <2>4, SMT DEF OutcomeInv, FillsCounted, Nothing
  <2>7. StatusTellsOutcome'
    BY <2>1, <2>3, <2>4, <2>5, SMT DEF OutcomeInv, StatusTellsOutcome
  <2> QED
    BY <2>6, <2>7 DEF OutcomeInv
<1>7. ASSUME NEW j \in Ids, Dismiss(j) PROVE OutcomeInv'
  <2>1. \A i \in Ids : signal'[i].status = IF i = j THEN "dismissed" ELSE signal[i].status
    BY <1>7, SMT DEF Dismiss, TypeOK
  <2>2. UNCHANGED <<doing, fills, torn>>
    BY <1>7 DEF Dismiss
  <2> QED
    BY <2>1, <2>2, SMT DEF OutcomeInv, FillsCounted, StatusTellsOutcome, Handled
<1>8. CASE Crash
  <2>1. UNCHANGED <<signal, fills>> /\ \A q \in Requests : doing'[q].step = "idle"
    BY <1>8, SMT DEF Crash, Nothing, signals
  <2>2. \A i \in Ids : i \in torn \/ Handled(i) => i \in torn'
    BY <1>8 DEF Crash, Handled
  <2> QED
    BY <2>1, <2>2, SMT DEF OutcomeInv, FillsCounted, StatusTellsOutcome, Handled
<1>9. ASSUME NEW cost \in Costs, NEW act \in Answers, Answer(cost, act) PROVE OutcomeInv'
  BY <1>1, <1>9 DEF Answer, signals
<1>10. ASSUME NEW cost \in Costs, NEW act \in Answers, Backtest(cost, act) PROVE OutcomeInv'
  BY <1>1, <1>10 DEF Backtest, signals
<1>11. ASSUME NEW cost \in Costs, Analyze(cost) PROVE OutcomeInv'
  BY <1>1, <1>11 DEF Analyze, signals
<1>12. ASSUME NEW m \in {"notify", "auto"}, SetAction(m) PROVE OutcomeInv'
  BY <1>1, <1>12 DEF SetAction, signals
<1>13. ASSUME NEW n \in 1..Size(order), Act(n) PROVE OutcomeInv'
  BY <1>1, <1>13 DEF Act, signals
<1>14. CASE Ask \/ AnswerFails \/ RecordUsage \/ Drop \/ GoAhead
  BY <1>1, <1>14 DEF Ask, AnswerFails, RecordUsage, Drop, GoAhead, signals
<1>15. CASE UNCHANGED vars
  BY <1>1, <1>15 DEF vars, signals
<1> QED
  BY <1>2, <1>3, <1>4, <1>5, <1>6, <1>7, <1>8, <1>9, <1>10, <1>11, <1>12, <1>13,
     <1>14, <1>15
  DEF Next, Turn, Request

\* The status column tells the truth about the venue, however confirmations and
\* dismissals overlap, unless the process died right after a fill.
THEOREM StatusTruthful == Spec => []StatusTellsOutcome
<1>1. Init => OutcomeInv
  BY SMT DEF Init, OutcomeInv, FillsCounted, StatusTellsOutcome, NoSignal, Nothing
<1>2. TypeOK /\ OutcomeInv /\ [Next]_vars => OutcomeInv'
  BY OutcomeStep
<1>3. OutcomeInv => StatusTellsOutcome
  BY DEF OutcomeInv
<1> QED
  BY <1>1, <1>2, <1>3, TypeCorrect, PTL DEF Spec

----------------------------------------------------------------------------
\* What the tick does on its own.

\* While nothing was confirmed, the position is the one the tick loaded, an order
\* sells no more than it holds, and a sized one buys no more than the budget.
LongInv ==
  (\A i \in Ids : fills[i] = 0) =>
    /\ position \in 0..Budget
    /\ pc # "idle" => seen = position
    /\ pc \in {"answered", "sized", "acting"} => 0 <= position + order
    /\ pc \in {"sized", "acting"} => position + order <= Budget

LEMMA LongStep == TypeOK /\ LongInv /\ [Next]_vars => LongInv'
<1> SUFFICES ASSUME TypeOK, LongInv, [Next]_vars PROVE LongInv'
  OBVIOUS
<1> USE BudgetAssumption
<1>1. CASE UNCHANGED <<fills, position, pc, seen, order>>
  BY <1>1 DEF LongInv
<1>2. CASE Ask
  BY <1>2, SMT DEF Ask, LongInv, TypeOK
<1>3. CASE AnswerFails
  BY <1>3, SMT DEF AnswerFails, LongInv, TypeOK
<1>4. CASE RecordUsage
  <2>1. CASE Clip(order) = 0
    BY <1>4, <2>1, SMT DEF RecordUsage, Stop, LongInv, TypeOK
  <2>2. CASE Clip(order) # 0
    <3>1. order' = Clip(order) /\ seen' = seen /\ pc = "answered"
      BY <1>4, <2>2 DEF RecordUsage
    <3>2. UNCHANGED <<fills, position>>
      BY <1>4 DEF RecordUsage
    <3>3. SUFFICES ASSUME \A i \in Ids : fills[i] = 0
                   PROVE  seen' = position /\ position + order' \in 0..Budget
      BY <3>2, SMT DEF LongInv, TypeOK
    <3> QED
      BY <3>1, <3>3, SMT DEF LongInv, TypeOK, Clip, Size
  <2> QED
    BY <2>1, <2>2
<1>5. CASE Drop \/ Signal \/ Crash
  BY <1>5, SMT DEF Drop, Signal, Crash, Stop, LongInv, TypeOK
<1>6. CASE GoAhead
  BY <1>6, SMT DEF GoAhead, LongInv, TypeOK
<1>7. ASSUME NEW n \in 1..Size(order), Act(n) PROVE LongInv'
  BY <1>7, SMT DEF Act, Stop, LongInv, TypeOK, Size
<1>8. ASSUME NEW cost \in Costs, NEW act \in Answers, Answer(cost, act) PROVE LongInv'
  BY <1>8, SMT DEF Answer, OrderOf, LongInv, TypeOK
<1>9. ASSUME NEW q \in Requests, NEW n \in 1..Budget, ConfirmFills(q, n) PROVE LongInv'
  <2>1. doing[q].id \in Ids
    BY <1>9, SMT DEF ConfirmFills, TypeOK, Ids
  <2>2. fills'[doing[q].id] = fills[doing[q].id] + 1 /\ fills[doing[q].id] \in Nat
    BY <1>9, <2>1, SMT DEF ConfirmFills, TypeOK
  <2>3. fills'[doing[q].id] # 0
    BY <2>2, SMT
  <2> QED
    BY <2>1, <2>3 DEF LongInv
<1>10. ASSUME NEW q \in Requests, NEW i \in Ids, Confirm(q, i) PROVE LongInv'
  BY <1>1, <1>10 DEF Confirm, tick
<1>11. ASSUME NEW q \in Requests, ConfirmFails(q) \/ MarkExecuted(q) PROVE LongInv'
  BY <1>1, <1>11 DEF ConfirmFails, MarkExecuted, tick
<1>12. ASSUME NEW i \in Ids, Dismiss(i) PROVE LongInv'
  BY <1>1, <1>12 DEF Dismiss, tick
<1>13. ASSUME NEW m \in {"notify", "auto"}, SetAction(m) PROVE LongInv'
  BY <1>1, <1>13 DEF SetAction, tick
<1>14. ASSUME NEW cost \in Costs, Analyze(cost) PROVE LongInv'
  BY <1>1, <1>14 DEF Analyze, tick
<1>15. ASSUME NEW cost \in Costs, NEW act \in Answers, Backtest(cost, act) PROVE LongInv'
  BY <1>1, <1>15 DEF Backtest, tick
<1>16. CASE UNCHANGED vars
  BY <1>1, <1>16 DEF vars, tick
<1> QED
  BY <1>2, <1>3, <1>4, <1>5, <1>6, <1>7, <1>8, <1>9, <1>10, <1>11, <1>12, <1>13,
     <1>14, <1>15, <1>16
  DEF Next, Turn, Request

\* What the engine does on its own keeps the strategy long and within its
\* allocation.
THEOREM TickWithinBudget == Spec => []AutonomousWithinBudget
<1>1. Init => LongInv
  BY BudgetAssumption, SMT DEF Init, LongInv
<1>2. TypeOK /\ LongInv /\ [Next]_vars => LongInv'
  BY LongStep
<1>3. LongInv => AutonomousWithinBudget
  BY DEF LongInv, AutonomousWithinBudget
<1> QED
  BY <1>1, <1>2, <1>3, TypeCorrect, PTL DEF Spec

----------------------------------------------------------------------------
\* The switch to notify.

\* In auto mode, and for an order on its way to the executor, nothing was executed
\* unasked yet.
ModeInv ==
  /\ unasked <= 1
  /\ action = "auto" \/ pc = "acting" => unasked = 0

LEMMA ModeStep == TypeOK /\ ModeInv /\ [Next]_vars => ModeInv'
<1> SUFFICES ASSUME TypeOK, ModeInv, [Next]_vars PROVE ModeInv'
  OBVIOUS
<1>1. CASE UNCHANGED <<unasked, action, pc>>
  BY <1>1 DEF ModeInv
<1>2. CASE UNCHANGED <<unasked, action>> /\ pc' # "acting"
  BY <1>2 DEF ModeInv
<1>3. CASE GoAhead
  BY <1>3 DEF GoAhead, ModeInv
<1>4. ASSUME NEW n \in 1..Size(order), Act(n) PROVE ModeInv'
  BY <1>4, SMT DEF Act, Stop, ModeInv, TypeOK
<1>5. ASSUME NEW m \in {"notify", "auto"}, SetAction(m) PROVE ModeInv'
  BY <1>5, SMT DEF SetAction, ModeInv
<1>6. CASE Ask \/ AnswerFails \/ RecordUsage \/ Drop \/ Signal \/ Crash
  <2>1. UNCHANGED <<unasked, action>>
    BY <1>6 DEF Ask, AnswerFails, RecordUsage, Drop, Signal, Crash
  <2>2. pc' # "acting"
    BY <1>6 DEF Ask, AnswerFails, RecordUsage, Drop, Signal, Crash, Stop
  <2> QED
    BY <1>2, <2>1, <2>2
<1>7. ASSUME NEW cost \in Costs, NEW act \in Answers, Answer(cost, act) PROVE ModeInv'
  BY <1>2, <1>7 DEF Answer
<1>8. ASSUME NEW q \in Requests, NEW i \in Ids, Confirm(q, i) PROVE ModeInv'
  BY <1>1, <1>8 DEF Confirm, tick
<1>9. ASSUME NEW q \in Requests, ConfirmFails(q) \/ MarkExecuted(q) PROVE ModeInv'
  BY <1>1, <1>9 DEF ConfirmFails, MarkExecuted, tick
<1>10. ASSUME NEW q \in Requests, NEW n \in 1..Budget, ConfirmFills(q, n) PROVE ModeInv'
  BY <1>1, <1>10 DEF ConfirmFills, tick
<1>11. ASSUME NEW i \in Ids, Dismiss(i) PROVE ModeInv'
  BY <1>1, <1>11 DEF Dismiss, tick
<1>12. ASSUME NEW cost \in Costs, Analyze(cost) PROVE ModeInv'
  BY <1>1, <1>12 DEF Analyze, tick
<1>13. ASSUME NEW cost \in Costs, NEW act \in Answers, Backtest(cost, act) PROVE ModeInv'
  BY <1>1, <1>13 DEF Backtest, tick
<1>14. CASE UNCHANGED vars
  BY <1>1, <1>14 DEF vars, tick
<1> QED
  BY <1>3, <1>4, <1>5, <1>6, <1>7, <1>8, <1>9, <1>10, <1>11, <1>12, <1>13, <1>14
  DEF Next, Turn, Request

\* After the switch to notify, the order that had already read the mode is the only
\* one still executed unasked.
THEOREM NotifyKept == Spec => []NotifyHolds
<1>1. Init => ModeInv
  BY SMT DEF Init, ModeInv
<1>2. TypeOK /\ ModeInv /\ [Next]_vars => ModeInv'
  BY ModeStep
<1>3. ModeInv => NotifyHolds
  BY DEF ModeInv, NotifyHolds
<1> QED
  BY <1>1, <1>2, <1>3, TypeCorrect, PTL DEF Spec

----------------------------------------------------------------------------
\* The daily cap.

\* What the tick recorded is part of the spend; it asks below the cap, and what it
\* adds then is the price of one call, or nothing.
SpendInv ==
  /\ ticked <= spent
  /\ last.cost = 0 \/ last.cost \in Costs
  /\ Cap > 0 /\ pc \in {"asking", "answered"} => ticked < Cap
  /\ StrategiesPauseAtCap

LEMMA SpendStep == TypeOK /\ SpendInv /\ [Next]_vars => SpendInv'
<1> SUFFICES ASSUME TypeOK, SpendInv, [Next]_vars PROVE SpendInv'
  OBVIOUS
<1> USE CostAssumption
<1>1. CASE UNCHANGED <<ticked, spent, last>> /\ (pc' = pc \/ pc' \notin {"asking", "answered"})
  BY <1>1 DEF SpendInv, StrategiesPauseAtCap
<1>2. CASE Ask
  BY <1>2, SMT DEF Ask, CapReached, NoAnswer, costs, SpendInv, StrategiesPauseAtCap, TypeOK
<1>3. CASE AnswerFails
  BY <1>3, SMT DEF AnswerFails, costs, SpendInv, StrategiesPauseAtCap
<1>4. ASSUME NEW cost \in Costs, NEW act \in Answers, Answer(cost, act) PROVE SpendInv'
  BY <1>4, SMT DEF Answer, costs, SpendInv, StrategiesPauseAtCap
<1>5. CASE RecordUsage
  <2>1. /\ ticked' = ticked + last.cost /\ spent' = spent + last.cost
        /\ last' = last /\ pc = "answered" /\ pc' \in {"idle", "sized"}
    BY <1>5 DEF RecordUsage, Stop
  <2>2. last.cost \in Nat /\ ticked \in Nat /\ spent \in Nat
    BY DEF TypeOK
  <2>3. Cap > 0 => \E cost \in Costs : ticked' < Cap + cost
    <3>1. CASE last.cost = 0
      BY <2>1, <2>2, <3>1, SMT DEF SpendInv, StrategiesPauseAtCap
    <3>2. CASE last.cost \in Costs
      BY <2>1, <2>2, <3>2, SMT DEF SpendInv
    <3> QED
      BY <3>1, <3>2 DEF SpendInv
  <2> QED
    BY <2>1, <2>2, <2>3, SMT DEF SpendInv, StrategiesPauseAtCap
<1>6. ASSUME NEW cost \in Costs, Analyze(cost) PROVE SpendInv'
  BY <1>6, SMT DEF Analyze, tick, SpendInv, StrategiesPauseAtCap, TypeOK
<1>7. ASSUME NEW cost \in Costs, NEW act \in Answers, Backtest(cost, act) PROVE SpendInv'
  <2>1. last'.cost = 0 \/ last'.cost \in Costs
    BY <1>7, SMT DEF Backtest, NoAnswer
  <2> QED
    BY <1>7, <2>1 DEF Backtest, tick, costs, SpendInv, StrategiesPauseAtCap
<1>8. CASE Crash
  BY <1>8, SMT DEF Crash, Stop, NoAnswer, costs, SpendInv, StrategiesPauseAtCap
<1>9. CASE Drop \/ Signal \/ GoAhead
  BY <1>1, <1>9 DEF Drop, Signal, GoAhead, Stop, costs
<1>10. ASSUME NEW n \in 1..Size(order), Act(n) PROVE SpendInv'
  BY <1>1, <1>10 DEF Act, Stop, costs
<1>11. ASSUME NEW q \in Requests, NEW i \in Ids, Confirm(q, i) PROVE SpendInv'
  BY <1>1, <1>11 DEF Confirm, tick, costs
<1>12. ASSUME NEW q \in Requests, ConfirmFails(q) \/ MarkExecuted(q) PROVE SpendInv'
  BY <1>1, <1>12 DEF ConfirmFails, MarkExecuted, tick, costs
<1>13. ASSUME NEW q \in Requests, NEW n \in 1..Budget, ConfirmFills(q, n) PROVE SpendInv'
  BY <1>1, <1>13 DEF ConfirmFills, tick, costs
<1>14. ASSUME NEW i \in Ids, Dismiss(i) PROVE SpendInv'
  BY <1>1, <1>14 DEF Dismiss, tick, costs
<1>15. ASSUME NEW m \in {"notify", "auto"}, SetAction(m) PROVE SpendInv'
  BY <1>1, <1>15 DEF SetAction, tick, costs
<1>16. CASE UNCHANGED vars
  BY <1>1, <1>16 DEF vars, tick, costs
<1> QED
  BY <1>2, <1>3, <1>4, <1>5, <1>6, <1>7, <1>8, <1>9, <1>10, <1>11, <1>12, <1>13,
     <1>14, <1>15, <1>16
  DEF Next, Turn, Request

\* The tick's recorded spend passes the cap by less than one call.
THEOREM CapHolds == Spec => []StrategiesPauseAtCap
<1>1. Init => SpendInv
  <2>1. PICK cost \in Costs : TRUE
    BY CostAssumption
  <2>2. cost \in Nat \ {0} /\ Cap \in Nat
    BY CostAssumption, <2>1
  <2>3. 0 < Cap + cost
    BY <2>2, SMT
  <2> QED
    BY <2>1, <2>2, <2>3, SMT DEF Init, NoAnswer, SpendInv, StrategiesPauseAtCap
<1>2. TypeOK /\ SpendInv /\ [Next]_vars => SpendInv'
  BY SpendStep
<1>3. SpendInv => StrategiesPauseAtCap
  BY DEF SpendInv
<1> QED
  BY <1>1, <1>2, <1>3, TypeCorrect, PTL DEF Spec

----------------------------------------------------------------------------
\* Signals and the orders they were made of.

\* In a turn no backtest has touched, the decision kept on the strategy object has
\* the side of the order, which is not empty once it is sized.
SignalInv ==
  /\ SignalIsItsOrder
  /\ ~mixed /\ pc \in {"answered", "sized"} =>
       (order > 0 => last.act = "buy") /\ (order < 0 => last.act = "sell")
  /\ pc = "sized" => order # 0

\* The size cap never turns an order round.
LEMMA ClipKeepsSide ==
  ASSUME TypeOK, NEW n \in Int
  PROVE  (Clip(n) > 0 => n > 0) /\ (Clip(n) < 0 => n < 0)
BY BudgetAssumption, SMT DEF TypeOK, Clip, Size

LEMMA SignalStep == TypeOK /\ SignalInv /\ [Next]_vars => SignalInv'
<1> SUFFICES ASSUME TypeOK, SignalInv, [Next]_vars PROVE SignalInv'
  OBVIOUS
<1> USE BudgetAssumption
<1> DEFINE Rows == signal' = signal /\ ordered' = ordered /\ mixed' = mixed
<1>1. CASE Rows /\ UNCHANGED <<pc, order, last>>
  BY <1>1 DEF SignalInv, SignalIsItsOrder
<1>2. CASE Rows /\ pc' \notin {"answered", "sized"}
  BY <1>2 DEF SignalInv, SignalIsItsOrder
<1>3. CASE Ask \/ Drop \/ GoAhead \/ Crash
  BY <1>2, <1>3 DEF Ask, Drop, GoAhead, Crash, Stop, signals
<1>4. CASE AnswerFails
  BY <1>4, SMT DEF AnswerFails, signals, SignalInv, SignalIsItsOrder
<1>5. ASSUME NEW cost \in Costs, NEW act \in Answers, Answer(cost, act) PROVE SignalInv'
  <2>1. last'.act = act /\ order' = OrderOf(act) /\ pc' = "answered" /\ Rows
    BY <1>5 DEF Answer, signals
  <2>2. (OrderOf(act) > 0 => act = "buy") /\ (OrderOf(act) < 0 => act = "sell")
    BY SMT DEF OrderOf, TypeOK
  <2> QED
    BY <2>1, <2>2 DEF SignalInv, SignalIsItsOrder
<1>6. CASE RecordUsage
  <2>1. CASE Clip(order) = 0
    BY <1>2, <1>6, <2>1 DEF RecordUsage, Stop, signals
  <2>2. CASE Clip(order) # 0
    <3>1. order' = Clip(order) /\ last' = last /\ pc = "answered" /\ Rows
      BY <1>6, <2>2 DEF RecordUsage, signals
    <3>2. order \in Int /\ (Clip(order) > 0 => order > 0) /\ (Clip(order) < 0 => order < 0)
      BY ClipKeepsSide DEF TypeOK
    <3> QED
      BY <2>2, <3>1, <3>2 DEF SignalInv, SignalIsItsOrder
  <2> QED
    BY <2>1, <2>2
<1>7. CASE Signal
  <2>1. /\ pc = "sized" /\ pc' = "idle" /\ mixed' = mixed
        /\ order # 0 /\ order \in Int
    BY <1>7 DEF Signal, Stop, TypeOK, SignalInv
  <2>2. \A i \in Ids : signal'[i] = IF i = issued + 1
               THEN [status |-> "pending", act |-> last.act, qty |-> Size(order)]
               ELSE signal[i]
    BY <1>7, SMT DEF Signal, TypeOK
  <2>3. \A i \in Ids : ordered'[i] = IF i = issued + 1 THEN order ELSE ordered[i]
    BY <1>7, SMT DEF Signal, TypeOK
  <2>4. ~mixed => last.act # "hold" /\ order = Signed(last.act, Size(order))
    BY <2>1, SMT DEF SignalInv, Signed, Size
  <2>5. SignalIsItsOrder'
    BY <2>1, <2>2, <2>3, <2>4, SMT DEF SignalInv, SignalIsItsOrder
  <2> QED
    BY <2>1, <2>5 DEF SignalInv
<1>8. ASSUME NEW q \in Requests, MarkExecuted(q) PROVE SignalInv'
  <2>1. doing[q].id \in Ids /\ signal[doing[q].id].status # "none"
    BY <1>8, SMT DEF MarkExecuted, TypeOK, Ids
  <2>2. \A i \in Ids :
          /\ signal'[i].act = signal[i].act /\ signal'[i].qty = signal[i].qty
          /\ signal'[i].status # "none" => signal[i].status # "none"
    BY <1>8, <2>1, SMT DEF MarkExecuted, TypeOK
  <2>3. UNCHANGED <<ordered, mixed, pc, order, last>>
    BY <1>8 DEF MarkExecuted, tick
  <2> QED
    BY <2>2, <2>3 DEF SignalInv, SignalIsItsOrder
<1>9. ASSUME NEW j \in Ids, Dismiss(j) PROVE SignalInv'
  <2>1. \A i \in Ids :
          /\ signal'[i].act = signal[i].act /\ signal'[i].qty = signal[i].qty
          /\ signal'[i].status # "none" => signal[i].status # "none"
    BY <1>9, SMT DEF Dismiss, TypeOK
  <2>2. UNCHANGED <<ordered, mixed, pc, order, last>>
    BY <1>9 DEF Dismiss, tick
  <2> QED
    BY <2>1, <2>2 DEF SignalInv, SignalIsItsOrder
<1>10. ASSUME NEW cost \in Costs, NEW act \in Answers, Backtest(cost, act) PROVE SignalInv'
  <2>1. UNCHANGED <<signal, ordered, pc, order>> /\ (mixed' <=> mixed \/ pc # "idle")
    BY <1>10 DEF Backtest, signals, tick
  <2> QED
    BY <2>1 DEF SignalInv, SignalIsItsOrder
<1>11. ASSUME NEW n \in 1..Size(order), Act(n) PROVE SignalInv'
  BY <1>2, <1>11 DEF Act, Stop, signals
<1>12. ASSUME NEW q \in Requests, NEW i \in Ids, Confirm(q, i) PROVE SignalInv'
  BY <1>1, <1>12 DEF Confirm, tick, signals
<1>13. ASSUME NEW q \in Requests, ConfirmFails(q) PROVE SignalInv'
  BY <1>1, <1>13 DEF ConfirmFails, tick, signals
<1>14. ASSUME NEW q \in Requests, NEW n \in 1..Budget, ConfirmFills(q, n) PROVE SignalInv'
  BY <1>1, <1>14 DEF ConfirmFills, tick, signals
<1>15. ASSUME NEW m \in {"notify", "auto"}, SetAction(m) PROVE SignalInv'
  BY <1>1, <1>15 DEF SetAction, tick, signals
<1>16. ASSUME NEW cost \in Costs, Analyze(cost) PROVE SignalInv'
  BY <1>1, <1>16 DEF Analyze, tick, signals
<1>17. CASE UNCHANGED vars
  BY <1>1, <1>17 DEF vars, tick, signals
<1> QED
  BY <1>3, <1>4, <1>5, <1>6, <1>7, <1>8, <1>9, <1>10, <1>11, <1>12, <1>13, <1>14,
     <1>15, <1>16, <1>17
  DEF Next, Turn, Request

\* A signal is the order it was made of, unless a backtest used the strategy object
\* in the middle of a turn.
THEOREM SignalTellsOrder == Spec => []SignalIsItsOrder
<1>1. Init => SignalInv
  BY SMT DEF Init, SignalInv, SignalIsItsOrder, NoSignal
<1>2. TypeOK /\ SignalInv /\ [Next]_vars => SignalInv'
  BY SignalStep
<1>3. SignalInv => SignalIsItsOrder
  BY DEF SignalInv
<1> QED
  BY <1>1, <1>2, <1>3, TypeCorrect, PTL DEF Spec
=============================================================================

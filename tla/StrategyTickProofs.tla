------------------------- MODULE StrategyTickProofs -------------------------
(***************************************************************************)
(* Theorems about StrategyTick for every set of prices and budgets, every  *)
(* lot step and every setting of the risk limits.                          *)
(***************************************************************************)
EXTENDS StrategyTick, TLAPS

----------------------------------------------------------------------------
\* Lemmas about sizing and rounding.

\* An allocation buys a whole, non-negative number of units.
LEMMA CapNat ==
  ASSUME NEW amount \in Nat, NEW at \in Nat \ {0}
  PROVE  CapUnits(amount, at) \in Nat
BY DEF CapUnits

\* Resizing keeps the side of the order and gives it the size.
LEMMA ResizeFacts ==
  ASSUME NEW n \in Int, NEW k \in Nat
  PROVE  /\ Resize(n, k) \in Int
         /\ Size(Resize(n, k)) = k
         /\ n < 0 => Resize(n, k) <= 0
         /\ n >= 0 => Resize(n, k) >= 0
BY DEF Resize, Size

\* A part of an order leaves the position no larger than the larger of what
\* it was and what the whole order would make it.
LEMMA PartialFill ==
  ASSUME NEW p \in Int, NEW n \in Int, NEW m \in Int,
         Size(m) <= Size(n), n > 0 => m >= 0, n < 0 => m <= 0
  PROVE  Size(p + m) <= Larger(Size(p), Size(p + n))
BY DEF Size, Larger

\* A clipped order keeps the position within the cap or no larger than it was.
LEMMA EnforceBounds ==
  ASSUME NEW p \in Int, NEW amount \in Nat, NEW at \in Nat \ {0}, NEW n \in Int, n # 0
  PROVE  LET m == EnforceAllocation(p, amount, n, at)
         IN  /\ m \in Int /\ Size(m) <= Size(n)
             /\ n > 0 => m >= 0
             /\ n < 0 => m <= 0
             /\ Size(p + m) <= Larger(Size(p), CapUnits(amount, at))
<1> DEFINE cap == CapUnits(amount, at)
<1>1. cap \in Nat
  BY CapNat
<1> HIDE DEF cap
<1>2. QED
  BY <1>1 DEF EnforceAllocation, Headroom, Resize, Smaller, Larger, Size, NoOrder, cap

\* Capping an order only shortens it.
LEMMA CapShortens ==
  ASSUME NEW n \in Int, NEW at \in Nat \ {0}
  PROVE  LET m == CapOrderSize(n, at)
         IN  /\ m \in Int /\ Size(m) <= Size(n)
             /\ n > 0 => m >= 0
             /\ n < 0 => m <= 0
<1> DEFINE most == MaxNotional \div at
<1>1. most \in Nat
  BY LimitsAssumption
<1> HIDE DEF most
<1>2. CapOrderSize(n, at) = IF MaxNotional = 0 THEN n ELSE Resize(n, Smaller(Size(n), most))
  BY DEF CapOrderSize, most
<1>3. QED
  BY <1>1, <1>2 DEF Resize, Smaller, Size

\* Rounding to the lot step only shortens an order.
LEMMA RoundShortens ==
  ASSUME NEW n \in Int
  PROVE  RoundQuantity(n) \in Int /\ Size(RoundQuantity(n)) <= Size(n)
<1> DEFINE k == Size(n)
           lots == k \div Step
<1>1. k \in Nat /\ Step \in Nat \ {0}
  BY LimitsAssumption DEF Size
<1>2. lots \in Nat /\ lots * Step <= k /\ lots * Step \in Nat
  BY <1>1
<1> HIDE DEF k, lots
<1>3. RoundQuantity(n) = Resize(n, lots * Step)
  BY DEF RoundQuantity, lots, k
<1>4. QED
  BY <1>2, <1>3, ResizeFacts DEF k

----------------------------------------------------------------------------
\* The invariant of a turn.

\* An order in execution closes the position (a stop) or keeps it within what
\* the allocation buys: nothing but the fill moves the position meanwhile.
OrderInv ==
  pc = "executing" =>
    /\ quote \in Prices
    /\ \/ want = -position
       \/ Size(position + want) <= Larger(Size(position), CapUnits(budget, quote))

\* An order in execution that was sized while the switch was tripped, or that
\* runs while the strategy has been disabled through a whole turn, does not
\* grow the position.
HaltInv ==
  /\ ~tripped => grown["tripped"] = 0
  /\ enabled => grown["disabled"] = 0
  /\ SafeguardsHaltGrowth
  /\ grown["tripped"] = 1 /\ pc = "executing" => Size(position + want) <= Size(position)
  /\ grown["disabled"] = 1 => pc # "evaluating"
  /\ grown["disabled"] = 1 /\ pc = "executing" => want = -position

TickInv ==
  /\ TypeOK
  /\ pc = "evaluating" => quote \in Prices
  /\ OrderInv
  /\ HaltInv

\* What the review lets through, whichever of its outcomes is taken.
LEMMA SubmitFacts ==
  ASSUME TickInv, NEW n \in (-MaxOrder..MaxOrder) \ {0}, Submit(n)
  PROVE  /\ TypeOK' /\ UNCHANGED <<market, settings, position, entry, grown>>
         /\ \/ pc' = "idle"
            \/ /\ pc' = "executing" /\ quote' = quote /\ budget' = budget
               /\ quote \in Prices
               /\ Size(position + want') <= Larger(Size(position), CapUnits(budget, quote))
               /\ tripped => Size(position + want') <= Size(position)
<1> DEFINE clipped == EnforceAllocation(position, budget, n, quote)
           sized == CapOrderSize(clipped, quote)
<1>1. /\ n \in Int /\ n # 0 /\ position \in Int /\ budget \in Nat
      /\ quote \in Prices /\ quote \in Nat \ {0}
  BY PricesAssumption, LimitsAssumption DEF TickInv, TypeOK, Submit
<1>2. /\ clipped \in Int
      /\ Size(position + clipped) <= Larger(Size(position), CapUnits(budget, quote))
  BY <1>1, EnforceBounds
<1> HIDE DEF clipped
<1>3. /\ sized \in Int /\ Size(sized) <= Size(clipped)
      /\ clipped > 0 => sized >= 0
      /\ clipped < 0 => sized <= 0
  BY <1>1, <1>2, CapShortens
<1> HIDE DEF sized
<1>4. Size(position + sized) <= Larger(Size(position), Size(position + clipped))
  BY <1>1, <1>2, <1>3, PartialFill
<1>5. CapUnits(budget, quote) \in Nat
  BY <1>1, CapNat
<1>6. Size(position + sized) <= Larger(Size(position), CapUnits(budget, quote))
  BY <1>1, <1>2, <1>3, <1>4, <1>5 DEF Larger, Size
<1>7. \/ EndTurn
      \/ /\ ~(IncreasesExposure(position, sized) /\ tripped)
         /\ pc' = "executing" /\ want' = sized /\ UNCHANGED <<quote, budget>>
  BY DEF Submit, sized, clipped
<1>8. UNCHANGED <<market, settings, position, entry, grown>>
  BY DEF Submit
<1>9. CASE EndTurn
  BY <1>8, <1>9 DEF EndTurn, TickInv, TypeOK, NoOrder, market, settings
<1>10. CASE /\ ~(IncreasesExposure(position, sized) /\ tripped)
            /\ pc' = "executing" /\ want' = sized /\ UNCHANGED <<quote, budget>>
  <2>1. TypeOK'
    BY <1>3, <1>8, <1>10 DEF TickInv, TypeOK, market, settings
  <2>2. tripped => Size(position + sized) <= Size(position)
    BY <1>1, <1>3, <1>10 DEF IncreasesExposure, Size
  <2>3. QED
    BY <1>1, <1>6, <1>8, <1>10, <2>1, <2>2
<1>11. QED
  BY <1>7, <1>9, <1>10

\* What a fill does to the position: a part of the order, rounded to lots.
LEMMA ExecuteFacts ==
  ASSUME TickInv, NEW n \in Fills(want), Execute(n)
  PROVE  /\ TypeOK' /\ pc = "executing" /\ pc' = "idle"
         /\ UNCHANGED <<market, settings>>
         /\ quote \in Prices
         /\ Size(position') <= Larger(Size(position), Size(position + want))
         /\ want = -position => Size(position') <= Size(position)
         /\ \A h \in Halts : grown'[h] =
              IF Size(position') > Size(position) /\ Halted(h)
                THEN grown[h] + 1 ELSE grown[h]
<1>1. /\ position \in Int /\ want \in Int /\ entry \in Nat
      /\ grown \in [Halts -> Nat]
      /\ pc = "executing" /\ quote \in Prices /\ quote \in Nat
  BY PricesAssumption DEF TickInv, TypeOK, OrderInv, Execute
<1>2. n \in Int
  BY <1>1 DEF Fills
<1>3. Size(n) <= Size(want) /\ (want > 0 => n >= 0) /\ (want < 0 => n <= 0)
  <2>1. RoundQuantity(want) \in Int /\ Size(RoundQuantity(want)) <= Size(want)
    BY <1>1, RoundShortens
  <2>2. Size(n) <= Size(RoundQuantity(want)) /\ (n > 0) = (want > 0)
    BY DEF Execute
  <2>3. Size(n) \in Int /\ Size(want) \in Int /\ Size(RoundQuantity(want)) \in Int
    BY <1>1, <1>2, <2>1 DEF Size
  <2>4. QED
    BY <1>1, <1>2, <2>1, <2>2, <2>3
<1>4. position' = position + n
  BY DEF Execute
<1>5. Size(position') <= Larger(Size(position), Size(position + want))
  BY <1>1, <1>2, <1>3, <1>4, PartialFill
<1>6. want = -position => Size(position') <= Size(position)
  BY <1>1, <1>5 DEF Size, Larger
<1>7. entry' \in Nat
  BY <1>1 DEF Execute, EntryAfter, Smaller, Larger
<1>8. EndTurn /\ UNCHANGED <<market, settings>>
  BY DEF Execute
<1>9. grown' = [h \in Halts |->
                 IF Size(position + n) > Size(position) /\ Halted(h)
                   THEN grown[h] + 1 ELSE grown[h]]
  BY DEF Execute
<1>10. \A h \in Halts : grown'[h] =
              IF Size(position') > Size(position) /\ Halted(h)
                THEN grown[h] + 1 ELSE grown[h]
  BY <1>4, <1>9
<1>11. grown' \in [Halts -> Nat]
  BY <1>1, <1>9
<1>12. TypeOK'
  BY <1>1, <1>2, <1>4, <1>7, <1>8, <1>11
  DEF TickInv, TypeOK, EndTurn, NoOrder, market, settings
<1>13. pc' = "idle"
  BY <1>8 DEF EndTurn
<1>14. QED
  BY <1>1, <1>5, <1>6, <1>8, <1>10, <1>12, <1>13

\* Every step of the turn and of its surroundings keeps the invariant.
LEMMA TickStep == TickInv /\ [Next]_vars => TickInv'
<1> SUFFICES ASSUME TickInv, [Next]_vars
             PROVE  TickInv'
  OBVIOUS
<1> USE DEF market, settings, turn
<1>1. CASE BeginStop
  <2>1. TypeOK' /\ quote' \in Prices /\ want' = -position' /\ pc' = "executing"
    BY <1>1 DEF TickInv, TypeOK, BeginStop
  <2>2. Size(position' + want') <= Size(position')
    <3>1. position' \in Int
      BY <2>1 DEF TypeOK
    <3>2. position' + want' = 0
      <4> DEFINE p == position'
      <4>1. p \in Int /\ want' = -p
        BY <2>1, <3>1
      <4> HIDE DEF p
      <4>2. p + want' = 0
        BY <4>1
      <4>3. QED
        BY <4>2 DEF p
    <3>3. QED
      BY <3>1, <3>2 DEF Size
  <2>3. OrderInv'
    BY <2>1 DEF OrderInv
  <2>4. HaltInv'
    BY <1>1, <2>1, <2>2 DEF TickInv, HaltInv, SafeguardsHaltGrowth, BeginStop
  <2>5. QED
    BY <2>1, <2>3, <2>4 DEF TickInv
<1>2. CASE BeginEvaluation
  <2>1. TypeOK' /\ quote' \in Prices /\ pc' = "evaluating"
    BY <1>2, BudgetsAssumption DEF TickInv, TypeOK, BeginEvaluation
  <2>2. HaltInv'
    BY <1>2, <2>1 DEF TickInv, HaltInv, SafeguardsHaltGrowth, BeginEvaluation
  <2>3. QED
    BY <2>1, <2>2 DEF TickInv, OrderInv
<1>3. CASE Hold \/ Skip
  <2>1. TypeOK' /\ pc' = "idle"
    BY <1>3 DEF TickInv, TypeOK, Hold, Skip, EndTurn, NoOrder
  <2>2. HaltInv'
    BY <1>3, <2>1 DEF TickInv, HaltInv, SafeguardsHaltGrowth, Hold, Skip
  <2>3. QED
    BY <2>1, <2>2 DEF TickInv, OrderInv
<1>4. ASSUME NEW n \in (-MaxOrder..MaxOrder) \ {0}, Submit(n)
      PROVE  TickInv'
  <2>1. /\ TypeOK' /\ UNCHANGED <<settings, position, grown>>
        /\ \/ pc' = "idle"
           \/ /\ pc' = "executing" /\ quote' = quote /\ budget' = budget
              /\ quote \in Prices
              /\ Size(position + want') <= Larger(Size(position), CapUnits(budget, quote))
              /\ tripped => Size(position + want') <= Size(position)
    BY <1>4, SubmitFacts
  <2>2. OrderInv'
    BY <2>1 DEF OrderInv
  <2>3. pc = "evaluating"
    BY <1>4 DEF Submit
  <2>4. HaltInv'
    BY <2>1, <2>3 DEF TickInv, HaltInv, SafeguardsHaltGrowth
  <2>5. QED
    BY <2>1, <2>2, <2>4 DEF TickInv
<1>5. ASSUME NEW n \in Fills(want), Execute(n)
      PROVE  TickInv'
  <2>1. /\ TypeOK' /\ pc = "executing" /\ pc' = "idle"
        /\ UNCHANGED settings
        /\ Size(position') <= Larger(Size(position), Size(position + want))
        /\ want = -position => Size(position') <= Size(position)
        /\ \A h \in Halts : grown'[h] =
              IF Size(position') > Size(position) /\ Halted(h)
                THEN grown[h] + 1 ELSE grown[h]
    BY <1>5, ExecuteFacts
  <2>2. grown["tripped"] = 1 => ~(Size(position') > Size(position))
    <3>1. SUFFICES ASSUME grown["tripped"] = 1
                   PROVE  ~(Size(position') > Size(position))
      OBVIOUS
    <3>2. Size(position + want) <= Size(position)
      BY <2>1, <3>1 DEF TickInv, HaltInv
    <3>3. /\ Size(position) \in Int /\ Size(position') \in Int
          /\ Size(position + want) \in Int
      BY <2>1 DEF TickInv, TypeOK, Size
    <3>4. QED
      BY <2>1, <3>2, <3>3 DEF Larger
  <2>3. grown["disabled"] = 1 => ~(Size(position') > Size(position))
    <3>1. Size(position) \in Int /\ Size(position') \in Int
      BY <2>1 DEF TickInv, TypeOK, Size
    <3>2. QED
      BY <2>1, <3>1 DEF TickInv, HaltInv
  <2>4. "tripped" \in Halts /\ "disabled" \in Halts /\ grown \in [Halts -> Nat]
    BY DEF Halts, TickInv, TypeOK
  <2>5. /\ ~tripped' => grown'["tripped"] = 0
        /\ enabled' => grown'["disabled"] = 0
    BY <2>1, <2>4 DEF TickInv, HaltInv, Halted
  <2>6. \A h \in Halts : grown[h] <= 1 /\ grown[h] \in Nat
    BY <2>4 DEF TickInv, HaltInv, SafeguardsHaltGrowth
  <2>7. grown'["tripped"] <= 1
    BY <2>1, <2>2, <2>4, <2>6
  <2>8. grown'["disabled"] <= 1
    BY <2>1, <2>3, <2>4, <2>6
  <2>9. SafeguardsHaltGrowth'
    BY <2>7, <2>8 DEF SafeguardsHaltGrowth, Halts
  <2>10. QED
    BY <2>1, <2>5, <2>9 DEF TickInv, HaltInv, OrderInv
<1>6. CASE PriceMoves
  BY <1>6 DEF TickInv, TypeOK, OrderInv, HaltInv, SafeguardsHaltGrowth, PriceMoves
<1>7. CASE FeedChanges
  BY <1>7 DEF TickInv, TypeOK, OrderInv, HaltInv, SafeguardsHaltGrowth, FeedChanges
<1>8. CASE SetAllocation
  BY <1>8 DEF TickInv, TypeOK, OrderInv, HaltInv, SafeguardsHaltGrowth, SetAllocation
<1>9. CASE SetEnabled
  BY <1>9 DEF TickInv, TypeOK, OrderInv, HaltInv, SafeguardsHaltGrowth, SetEnabled, Halts
<1>10. CASE KillSwitch
  BY <1>10 DEF TickInv, TypeOK, OrderInv, HaltInv, SafeguardsHaltGrowth, KillSwitch, Halts
<1>11. CASE UNCHANGED vars
  BY <1>11 DEF TickInv, TypeOK, OrderInv, HaltInv, SafeguardsHaltGrowth, vars
<1>12. QED
  BY <1>1, <1>2, <1>3, <1>4, <1>5, <1>6, <1>7, <1>8, <1>9, <1>10, <1>11 DEF Next, Turn

\* A strategy starts flat and free to trade.
LEMMA TickInit == Init => TickInv
<1> SUFFICES ASSUME Init
             PROVE  TickInv
  OBVIOUS
<1>1. pc = "idle" /\ \A h \in Halts : grown[h] = 0
  BY DEF Init
<1>2. TypeOK
  <2>1. grown \in [Halts -> Nat]
    <3> DEFINE zero == [h \in Halts |-> 0]
    <3>1. zero \in [Halts -> Nat]
      OBVIOUS
    <3>2. grown = zero
      BY DEF Init
    <3> HIDE DEF zero
    <3>3. QED
      BY <3>1, <3>2
  <2>2. /\ fresh = TRUE /\ enabled = TRUE /\ tripped = FALSE
        /\ price \in Prices /\ allocated \in Budgets
        /\ position = 0 /\ entry = 0 /\ quote = 0 /\ budget = 0 /\ want = 0
    BY DEF Init, NoOrder
  <2>3. fresh \in BOOLEAN /\ enabled \in BOOLEAN /\ tripped \in BOOLEAN
    BY <2>2, Zenon
  <2>4. /\ position \in Int /\ want \in Int
        /\ entry \in Nat /\ budget \in Nat /\ quote \in Prices \cup {0}
    BY <2>2, SMT
  <2>5. QED
    BY <1>1, <2>1, <2>2, <2>3, <2>4, Zenon DEF TypeOK
<1>3. HaltInv
  BY <1>1 DEF HaltInv, SafeguardsHaltGrowth, Halts
<1>4. QED
  BY <1>1, <1>2, <1>3 DEF TickInv, OrderInv

\* Type correctness of every reachable state.
THEOREM TickTypeCorrect == Spec => []TypeOK
<1>1. TickInv => TypeOK
  BY DEF TickInv
<1>2. QED
  BY <1>1, TickInit, TickStep, PTL DEF Spec

\* After the kill switch trips or the strategy is disabled, only the one order
\* already past that check can still grow the position.
THEOREM SafeguardsHold == Spec => []SafeguardsHaltGrowth
<1>1. TickInv => SafeguardsHaltGrowth
  BY DEF TickInv, HaltInv
<1>2. QED
  BY <1>1, TickInit, TickStep, PTL DEF Spec

\* No fill of a turn takes the position past what the allocation it read buys
\* at the price it took, unless it was past that already and does not grow.
THEOREM AllocationHolds == Spec => AllocationRespected
<1>1. TickInv /\ [Next]_vars =>
        (position' # position =>
           Size(position') <= Larger(Size(position), CapUnits(budget, quote)))
  <2> SUFFICES ASSUME TickInv, [Next]_vars, position' # position
               PROVE  Size(position') <= Larger(Size(position), CapUnits(budget, quote))
    OBVIOUS
  <2>1. PICK n \in Fills(want) : Execute(n)
    BY DEF Next, Turn, BeginStop, BeginEvaluation, Hold, Skip, Submit, PriceMoves,
           FeedChanges, SetAllocation, SetEnabled, KillSwitch, vars
  <2>2. /\ Size(position') <= Larger(Size(position), Size(position + want))
        /\ want = -position => Size(position') <= Size(position)
        /\ pc = "executing" /\ quote \in Prices /\ TypeOK'
    BY <2>1, ExecuteFacts
  <2>3. \/ want = -position
        \/ Size(position + want) <= Larger(Size(position), CapUnits(budget, quote))
    BY <2>2 DEF TickInv, OrderInv
  <2>4. /\ Size(position) \in Int /\ Size(position') \in Int
        /\ Size(position + want) \in Int
    BY <2>2 DEF TickInv, TypeOK, Size
  <2>5. CapUnits(budget, quote) \in Int
    BY <2>2, CapNat, PricesAssumption DEF TickInv, TypeOK
  <2>6. QED
    BY <2>2, <2>3, <2>4, <2>5 DEF Larger
<1>2. QED
  BY <1>1, TickInit, TickStep, PTL DEF Spec, AllocationRespected
=============================================================================

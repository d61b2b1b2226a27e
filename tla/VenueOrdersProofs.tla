------------------------- MODULE VenueOrdersProofs -------------------------
(***************************************************************************)
(* Proofs about VenueOrders: what the books hold is never ahead of what the *)
(* venue filled, for every set of accounts, kind of answer, lot step and    *)
(* number of orders.                                                        *)
(***************************************************************************)
EXTENDS VenueOrders, TLAPS

\* The domains the argument needs.
VenueDomains ==
  /\ orderAt \in [Accounts -> {"idle", "sent", "working"}]
  /\ size \in [Accounts -> Int] /\ done \in [Accounts -> Nat]
  /\ abandoned \in [Accounts -> Int] /\ venueHas \in [Accounts -> Int]
  /\ booked \in [Accounts -> Int] /\ heard \in [Accounts -> BOOLEAN]

\* An order the venue has not accepted is not filled.
NothingDoneBefore == \A a \in Accounts : orderAt[a] # "working" => done[a] = 0

VenueInv == VenueDomains /\ NothingDoneBefore /\ BooksTrailVenue

LEMMA VenueInvInit == VenueInit => VenueInv
BY SMT DEF VenueInit, VenueInv, VenueDomains, NothingDoneBefore, BooksTrailVenue

\* A rounded quantity is a whole number of lots.
LEMMA RoundedInt ==
  ASSUME NEW a \in Accounts, NEW q \in Int
  PROVE  Rounded(a, q) \in Int
BY AccountsAssumption, SMT DEF Rounded, Step

\* Ending an order gives what is left of it to the abandoned ones.
LEMMA EndOrderEffect ==
  ASSUME NEW a \in Accounts, VenueDomains, EndOrder(a)
  PROVE  /\ orderAt' \in [Accounts -> {"idle", "sent", "working"}]
         /\ size' \in [Accounts -> Int] /\ done' \in [Accounts -> Nat]
         /\ abandoned' \in [Accounts -> Int]
         /\ orderAt'[a] = "idle" /\ done'[a] = 0
         /\ orderAt[a] = "working" => abandoned'[a] = abandoned[a] + (size[a] - done[a])
         /\ orderAt[a] # "working" => abandoned'[a] = abandoned[a]
         /\ \A b \in Accounts \ {a} :
              orderAt'[b] = orderAt[b] /\ done'[b] = done[b] /\ abandoned'[b] = abandoned[b]
<1> DEFINE left == IF orderAt[a] = "working" THEN size[a] - done[a] ELSE 0
<1>1. left \in Int
  BY SMT DEF VenueDomains
<1>2. abandoned' = [abandoned EXCEPT ![a] = abandoned[a] + left]
  BY DEF EndOrder
<1>3. abandoned[a] + left \in Int /\ abandoned \in [Accounts -> Int]
  BY <1>1, SMT DEF VenueDomains
<1> HIDE DEF left
<1>4. abandoned' \in [Accounts -> Int] /\ abandoned'[a] = abandoned[a] + left
      /\ \A b \in Accounts \ {a} : abandoned'[b] = abandoned[b]
  BY <1>2, <1>3
<1>5. abandoned[a] \in Int
  BY DEF VenueDomains
<1> QED
  BY <1>4, <1>5, SMT DEF left, EndOrder, VenueDomains

\* An answer that counts as heard came when its order was over.
LEMMA HeardEffect ==
  ASSUME NEW a \in Accounts, VenueDomains,
         heard' = [heard EXCEPT ![a] = @ /\ done[a] = size[a]]
  PROVE  /\ heard' \in [Accounts -> BOOLEAN]
         /\ heard'[a] => heard[a] /\ done[a] = size[a]
         /\ \A b \in Accounts \ {a} : heard'[b] = heard[b]
BY DEF VenueDomains

LEMMA OrderStepInv ==
  ASSUME NEW a \in Accounts, VenueInv, OrderStep(a)
  PROVE  VenueInv'
<1> USE DEF VenueInv
<1>1. ASSUME NEW answer \in {"read", "default"}, ReadFilters(a, answer) PROVE VenueInv'
  BY <1>1, SMT DEF ReadFilters, order, VenueDomains, NothingDoneBefore, BooksTrailVenue
<1>2. CASE SendOrder(a)
  <2>1. Rounded(a, Target - booked[a]) \in Int
    BY RoundedInt, TargetAssumption, SMT DEF VenueDomains
  <2> QED
    BY <1>2, <2>1, SMT DEF SendOrder, VenueDomains, NothingDoneBefore, BooksTrailVenue
<1>3. CASE OrderRefused(a)
  <2>1. EndOrder(a) /\ orderAt[a] = "sent" /\ UNCHANGED <<venueHas, booked, heard>>
    BY <1>3 DEF OrderRefused
  <2> QED
    BY <2>1, EndOrderEffect, SMT DEF VenueDomains, NothingDoneBefore, BooksTrailVenue
<1>4. CASE OrderAccepted(a)
  BY <1>4, SMT DEF OrderAccepted, VenueDomains, NothingDoneBefore, BooksTrailVenue
<1>5. CASE FillMore(a)
  BY <1>5, SMT DEF FillMore, VenueDomains, NothingDoneBefore, BooksTrailVenue
<1>6. CASE FillAbandoned(a)
  BY <1>6, SMT DEF FillAbandoned, order, VenueDomains, NothingDoneBefore, BooksTrailVenue
<1>7. CASE OrderExpires(a)
  BY <1>7, SMT DEF OrderExpires, VenueDomains, NothingDoneBefore, BooksTrailVenue
<1>8. CASE RecordFill(a)
  <2>1. /\ EndOrder(a) /\ orderAt[a] = "working" /\ venueHas' = venueHas
        /\ booked' = [booked EXCEPT ![a] = @ + done[a]]
        /\ heard' = [heard EXCEPT ![a] = @ /\ done[a] = size[a]]
    BY <1>8 DEF RecordFill, Answered, QuantityFilled
  <2>2. booked' \in [Accounts -> Int]
    BY <2>1, SMT DEF VenueDomains
  <2>3. \A b \in Accounts : booked'[b] = IF b = a THEN booked[a] + done[a] ELSE booked[b]
    BY <2>1, SMT DEF VenueDomains
  <2>4. VenueDomains' /\ NothingDoneBefore'
    BY <2>1, <2>2, EndOrderEffect, HeardEffect DEF VenueDomains, NothingDoneBefore
  <2>5. BooksTrailVenue'
    <3>1. booked'[a] + done'[a] <= venueHas'[a]
      BY <2>1, <2>3, EndOrderEffect, SMT DEF VenueDomains, BooksTrailVenue
    <3>2. ASSUME heard'[a]
          PROVE  booked'[a] + done'[a] = venueHas'[a] /\ abandoned'[a] = 0
      <4>1. heard[a] /\ done[a] = size[a]
        BY <2>1, <3>2, HeardEffect
      <4> QED
        BY <2>1, <2>3, <4>1, EndOrderEffect, SMT DEF VenueDomains, BooksTrailVenue
    <3>3. ASSUME NEW b \in Accounts \ {a}
          PROVE  UNCHANGED <<booked[b], done[b], venueHas[b], heard[b], abandoned[b]>>
      BY <2>1, <2>3, <3>3, EndOrderEffect, HeardEffect
    <3> QED
      BY <3>1, <3>2, <3>3 DEF BooksTrailVenue
  <2> QED
    BY <2>4, <2>5
<1>9. CASE NoFill(a)
  <2>1. /\ EndOrder(a) /\ orderAt[a] = "working" /\ done[a] = 0
        /\ UNCHANGED <<venueHas, booked>>
        /\ heard' = [heard EXCEPT ![a] = @ /\ done[a] = size[a]]
    BY <1>9 DEF NoFill, Answered, QuantityFilled
  <2>2. VenueDomains' /\ NothingDoneBefore'
    BY <2>1, EndOrderEffect, HeardEffect DEF VenueDomains, NothingDoneBefore
  <2>3. BooksTrailVenue'
    <3>1. booked'[a] + done'[a] <= venueHas'[a]
      BY <2>1, EndOrderEffect, SMT DEF VenueDomains, BooksTrailVenue
    <3>2. ASSUME heard'[a]
          PROVE  booked'[a] + done'[a] = venueHas'[a] /\ abandoned'[a] = 0
      <4>1. heard[a] /\ done[a] = size[a]
        BY <2>1, <3>2, HeardEffect
      <4> QED
        BY <2>1, <4>1, EndOrderEffect, SMT DEF VenueDomains, BooksTrailVenue
    <3>3. ASSUME NEW b \in Accounts \ {a}
          PROVE  UNCHANGED <<booked[b], done[b], venueHas[b], heard[b], abandoned[b]>>
      BY <2>1, <3>3, EndOrderEffect, HeardEffect
    <3> QED
      BY <3>1, <3>2, <3>3 DEF BooksTrailVenue
  <2> QED
    BY <2>2, <2>3
<1>10. CASE AnswerLost(a)
  BY <1>10, SMT DEF AnswerLost, EndOrder, VenueDomains, NothingDoneBefore, BooksTrailVenue
<1> QED
  BY <1>1, <1>2, <1>3, <1>4, <1>5, <1>6, <1>7, <1>8, <1>9, <1>10 DEF OrderStep

LEMMA VenueInvStep == VenueInv /\ [VenueNext]_venueVars => VenueInv'
<1>1. ASSUME VenueInv, VenueNext PROVE VenueInv'
  BY <1>1, OrderStepInv DEF VenueNext
<1>2. ASSUME VenueInv, UNCHANGED venueVars PROVE VenueInv'
  BY <1>2 DEF venueVars, order, VenueInv, VenueDomains, NothingDoneBefore, BooksTrailVenue
<1> QED
  BY <1>1, <1>2

\* Over refusals, partial fills, expiries and lost answers the books never hold
\* what the venue has not filled; and they hold all of it, as long as every answer
\* came when its order was over.
THEOREM BooksNeverAhead == VenueSpec => []BooksTrailVenue
<1>1. VenueInv => BooksTrailVenue
  BY DEF VenueInv
<1> QED
  BY <1>1, VenueInvInit, VenueInvStep, PTL DEF VenueSpec
\* The quantities of an order stay within what the engine wanted to hold.
VenueRanges ==
  /\ VenueTypeOK /\ NothingDoneBefore
  /\ DOMAIN done = Accounts /\ DOMAIN abandoned = Accounts /\ DOMAIN venueHas = Accounts
  /\ \A a \in Accounts : size[a] + booked[a] <= Target

LEMMA MultipleOfStep ==
  ASSUME NEW n \in Int, NEW s \in Int, s > 0
  PROVE  (n * s) % s = 0
BY SMT

\* Rounding leaves a whole number of steps, and never more than it was given.
LEMMA RoundedDown ==
  ASSUME NEW a \in Accounts, NEW q \in Int
  PROVE  Rounded(a, q) \in Int /\ Rounded(a, q) <= q /\ Rounded(a, q) % Step(a) = 0
<1> DEFINE s == Step(a)
<1>1. s \in Int /\ s > 0
  BY AccountsAssumption, SMT DEF Step
<1> HIDE DEF s
<1>2. q \div s \in Int /\ (q \div s) * s <= q
  BY <1>1, SMT
<1>3. ((q \div s) * s) % s = 0
  BY <1>1, <1>2, MultipleOfStep
<1>4. (q \div s) * s \in Int
  BY <1>1, <1>2, SMT
<1> QED
  BY <1>2, <1>3, <1>4 DEF Rounded, s

LEMMA EndOrderRanges ==
  ASSUME NEW a \in Accounts, VenueRanges, EndOrder(a), UNCHANGED <<filters, sends, venueHas>>,
         booked' = booked \/ booked' = [booked EXCEPT ![a] = @ + done[a]],
         heard' \in [Accounts -> BOOLEAN]
  PROVE  VenueRanges'
<1> USE TargetAssumption DEF VenueRanges, VenueTypeOK
<1> DEFINE left == IF orderAt[a] = "working" THEN size[a] - done[a] ELSE 0
<1>1. size[a] \in 0..Target /\ done[a] \in 0..size[a] /\ booked[a] \in 0..Target
      /\ size[a] + booked[a] <= Target /\ abandoned[a] \in Nat
  OBVIOUS
<1>2. abandoned[a] + left \in Nat
  BY <1>1, SMT
<1>3. /\ orderAt' = [orderAt EXCEPT ![a] = "idle"]
      /\ size' = [size EXCEPT ![a] = 0] /\ done' = [done EXCEPT ![a] = 0]
      /\ abandoned' = [abandoned EXCEPT ![a] = abandoned[a] + left]
  BY DEF EndOrder
<1> HIDE DEF left
<1>4. 0 \in 0..Target /\ 0 \in 0..0 /\ booked[a] + done[a] \in 0..Target
  BY <1>1, SMT
<1>5. orderAt' \in [Accounts -> {"idle", "sent", "working"}] /\ size' \in [Accounts -> 0..Target]
      /\ booked' \in [Accounts -> 0..Target]
  BY <1>3, <1>4
<1>6. ASSUME NEW b \in Accounts
      PROVE  /\ done'[b] \in 0..size'[b] /\ abandoned'[b] \in Nat /\ venueHas'[b] \in Nat
             /\ orderAt'[b] = "sent" => size'[b] > 0 /\ size'[b] % Step(b)' = 0
             /\ orderAt'[b] # "working" => done'[b] = 0
             /\ size'[b] + booked'[b] <= Target
  <2>1. CASE b = a
    <3>1. done'[b] = 0 /\ size'[b] = 0 /\ orderAt'[b] = "idle" /\ booked'[b] \in 0..Target
      BY <1>3, <1>5, <2>1
    <3>2. 0 + booked'[b] <= Target
      BY <3>1, SMT
    <3> QED
      BY <1>2, <1>3, <1>4, <2>1, <3>1, <3>2
  <2>2. CASE b # a
    <3>1. /\ done'[b] = done[b] /\ size'[b] = size[b] /\ orderAt'[b] = orderAt[b]
          /\ abandoned'[b] = abandoned[b] /\ booked'[b] = booked[b]
      BY <1>3, <2>2
    <3>2. Step(b)' = Step(b)
      BY DEF Step
    <3> QED
      BY <3>1, <3>2 DEF NothingDoneBefore
  <2> QED
    BY <2>1, <2>2
<1> QED
  BY <1>3, <1>5, <1>6 DEF NothingDoneBefore

LEMMA OrderStepRanges ==
  ASSUME NEW a \in Accounts, VenueRanges, OrderStep(a)
  PROVE  VenueRanges'
<1> USE TargetAssumption
<1>1. ASSUME NEW answer \in {"read", "default"}, ReadFilters(a, answer) PROVE VenueRanges'
  <2>1. \A b \in Accounts : orderAt[b] = "sent" => Step(b)' = Step(b)
    BY <1>1 DEF ReadFilters, Step, VenueRanges, VenueTypeOK
  <2> QED
    BY <1>1, <2>1 DEF ReadFilters, order, VenueRanges, VenueTypeOK, NothingDoneBefore
<1>2. CASE SendOrder(a)
  <2> DEFINE q == Rounded(a, Target - booked[a])
  <2>1. booked[a] \in 0..Target /\ Target - booked[a] \in Int
    BY SMT DEF VenueRanges, VenueTypeOK
  <2>2. q \in Int /\ q > 0 /\ q <= Target - booked[a] /\ q % Step(a) = 0
    BY <1>2, <2>1, RoundedDown DEF SendOrder
  <2> HIDE DEF q
  <2>3. q \in 0..Target /\ q + booked[a] <= Target /\ 0 \in 0..q
    BY <2>1, <2>2, SMT
  <2>4. sends[a] + 1 \in 0..MaxSends
    BY <1>2, SMT DEF SendOrder, VenueRanges, VenueTypeOK
  <2>5. /\ orderAt' = [orderAt EXCEPT ![a] = "sent"] /\ size' = [size EXCEPT ![a] = q]
        /\ sends' = [sends EXCEPT ![a] = sends[a] + 1] /\ orderAt[a] = "idle"
        /\ UNCHANGED <<filters, done, abandoned, venueHas, booked, heard>>
    BY <1>2 DEF SendOrder, q
  <2>6. done[a] = 0 /\ \A b \in Accounts : Step(b)' = Step(b)
    BY <2>5 DEF VenueRanges, NothingDoneBefore, Step
  <2> QED
    BY <2>2, <2>3, <2>4, <2>5, <2>6 DEF VenueRanges, VenueTypeOK, NothingDoneBefore
<1>3. CASE OrderRefused(a)
  BY <1>3, EndOrderRanges DEF OrderRefused, VenueRanges, VenueTypeOK
<1>4. CASE OrderAccepted(a)
  BY <1>4 DEF OrderAccepted, VenueRanges, VenueTypeOK, NothingDoneBefore, Step
<1>5. CASE FillMore(a)
  <2>1. done[a] + 1 \in 0..size[a] /\ venueHas[a] + 1 \in Nat
    BY <1>5, SMT DEF FillMore, VenueRanges, VenueTypeOK
  <2> QED
    BY <1>5, <2>1 DEF FillMore, VenueRanges, VenueTypeOK, NothingDoneBefore, Step
<1>6. CASE FillAbandoned(a)
  <2>1. abandoned[a] - 1 \in Nat /\ venueHas[a] + 1 \in Nat
    BY <1>6, SMT DEF FillAbandoned, VenueRanges, VenueTypeOK
  <2> QED
    BY <1>6, <2>1 DEF FillAbandoned, order, VenueRanges, VenueTypeOK, NothingDoneBefore, Step
<1>7. CASE OrderExpires(a)
  <2>1. done[a] \in 0..Target /\ done[a] \in 0..done[a] /\ done[a] + booked[a] <= Target
    BY <1>7, SMT DEF OrderExpires, VenueRanges, VenueTypeOK
  <2> QED
    BY <1>7, <2>1 DEF OrderExpires, VenueRanges, VenueTypeOK, NothingDoneBefore, Step
<1>8. CASE RecordFill(a)
  BY <1>8, EndOrderRanges DEF RecordFill, QuantityFilled, VenueRanges, VenueTypeOK
<1>9. CASE NoFill(a)
  BY <1>9, EndOrderRanges DEF NoFill, VenueRanges, VenueTypeOK
<1>10. CASE AnswerLost(a)
  BY <1>10, EndOrderRanges DEF AnswerLost, VenueRanges, VenueTypeOK
<1> QED
  BY <1>1, <1>2, <1>3, <1>4, <1>5, <1>6, <1>7, <1>8, <1>9, <1>10 DEF OrderStep

\* What is sent is a whole number of the steps the executor knows, and never more than
\* the engine lacks; the books never pass what it wants to hold.
THEOREM VenueTypesHold == VenueSpec => []VenueTypeOK
<1>1. VenueInit => VenueRanges
  BY TargetAssumption, SMT DEF VenueInit, VenueRanges, VenueTypeOK, NothingDoneBefore
<1>2. VenueRanges /\ [VenueNext]_venueVars => VenueRanges'
  <2>1. ASSUME VenueRanges, VenueNext PROVE VenueRanges'
    BY <2>1, OrderStepRanges DEF VenueNext
  <2>2. ASSUME VenueRanges, UNCHANGED venueVars PROVE VenueRanges'
    BY <2>2 DEF venueVars, order, VenueRanges, VenueTypeOK, NothingDoneBefore, Step
  <2> QED
    BY <2>1, <2>2
<1>3. VenueRanges => VenueTypeOK
  BY DEF VenueRanges
<1> QED
  BY <1>1, <1>2, <1>3, PTL DEF VenueSpec
=============================================================================

-------------------------- MODULE SubLedgerProofs --------------------------
(***************************************************************************)
(* Theorems about SubLedger for every set of rows, threads and bounds.     *)
(*                                                                         *)
(* LedgerFolds is about the rows one thread alone writes; for rows with    *)
(* two writers TLC refutes it (run ledger_lost_update).  TradeLog is about *)
(* every fill, whoever writes what.                                        *)
(***************************************************************************)
EXTENDS SubLedger, TLAPS

----------------------------------------------------------------------------
\* Lemmas about the Position row.

\* Writing a signed size into a row and reading it back is the identity, and
\* the row written is flat exactly when it is empty.
LEMMA OfSignedRoundTrip ==
  ASSUME NEW n \in Int
  PROVE  /\ OfSigned(n) \in PositionRow
         /\ Signed(OfSigned(n)) = n
         /\ OfSigned(n).side = "flat" <=> OfSigned(n).qty = 0
BY DEF OfSigned, Signed, PositionRow, Sides, Magnitude

\* A row counts as an integer.
LEMMA SignedInt ==
  ASSUME NEW p \in PositionRow
  PROVE  Signed(p) \in Int
BY DEF Signed, PositionRow, Sides

\* A session whose loaded row is still the committed one writes its result
\* in full, whichever columns the UPDATE names.
LEMMA FreshUpdate ==
  ASSUME NEW p \in PositionRow, NEW q \in PositionRow
  PROVE  Update(p, p, q) = q
BY DEF Update, PositionRow

\* Whatever it loaded, an update leaves a row in the table's domain.
LEMMA UpdateInDomain ==
  ASSUME NEW p \in PositionRow, NEW o \in PositionRow, NEW q \in PositionRow
  PROVE  Update(p, o, q) \in PositionRow
BY DEF Update, PositionRow

----------------------------------------------------------------------------
\* Type correctness.

\* Each thread's operation ends with its session back in the initial state.
LEMMA FinishTypes ==
  ASSUME NEW a \in Actors, TypeOK, Finish(a)
  PROVE  /\ pc' \in [Actors -> Phases] /\ at' \in [Actors -> Rows]
         /\ seen' \in [Actors -> PositionRow] /\ order' \in [Actors -> Int]
         /\ fillId' \in [Actors -> 0..fills]
         /\ \A b \in Actors : Holding(b)' <=> fillId'[b] # 0
<1>1. AnyRow \in Rows
  BY RowsAssumption DEF AnyRow
<1>2. Flat \in PositionRow
  BY DEF Flat, PositionRow, Sides
<1>3. QED
  BY <1>1, <1>2 DEF Finish, TypeOK, Phases, Holding

\* The number of a fill in hand is the number of a fill that happened.
LEMMA HeldNumbered ==
  ASSUME NEW a \in Actors, TypeOK, Holding(a)
  PROVE  fillId[a] \in FillIds
BY DEF TypeOK, FillIds

\* Every variable stays in its domain, for every step of every thread.
LEMMA TypeStep == TypeOK /\ [Next]_vars => TypeOK'
<1> SUFFICES ASSUME TypeOK, [Next]_vars
             PROVE  TypeOK'
  OBVIOUS
<1> USE DEF ledger
<1>1. ASSUME NEW a \in Actors, NEW r \in Rows, Load(a, r)
      PROVE  TypeOK'
  BY <1>1 DEF TypeOK, Load, Phases, FillIds, Holding
<1>2. ASSUME NEW a \in Actors, NEW r \in Rows, Flatten(a, r)
      PROVE  TypeOK'
  <2>1. CloseOf(row[r]) \in Int
    BY DEF CloseOf, TypeOK, PositionRow
  <2>2. QED
    BY <1>2, <2>1 DEF TypeOK, Flatten, Phases, FillIds, Holding
<1>3. ASSUME NEW a \in Actors, Create(a)
      PROVE  TypeOK'
  BY <1>3 DEF TypeOK, Create, Phases, FillIds, Holding
<1>4. ASSUME NEW a \in Actors, CreateConflict(a) \/ Pass(a) \/ Reject(a)
      PROVE  TypeOK'
  <2>1. Finish(a)
    BY <1>4 DEF CreateConflict, Pass, Reject
  <2>2. QED
    BY <1>4, <2>1, FinishTypes DEF TypeOK, CreateConflict, Pass, Reject, FillIds
<1>5. ASSUME NEW a \in Actors, NEW n \in Orders, Decide(a, n)
      PROVE  TypeOK'
  <2>1. n \in Int
    BY BoundsAssumption DEF Orders
  <2>2. seen' \in [Actors -> PositionRow]
    BY <1>5 DEF TypeOK, Decide
  <2>3. QED
    BY <1>5, <2>1, <2>2 DEF TypeOK, Decide, Phases, FillIds, Holding
<1>6. ASSUME NEW a \in Actors, StopOut(a)
      PROVE  TypeOK'
  <2>1. CloseOf(seen[a]) \in Int
    BY DEF CloseOf, TypeOK, PositionRow
  <2>2. QED
    BY <1>6, <2>1 DEF TypeOK, StopOut, Phases, FillIds, Holding
<1>7. ASSUME NEW a \in Actors, NEW q \in 1..Magnitude(order[a]), Fill(a, q)
      PROVE  TypeOK'
  <2>1. Magnitude(order[a]) \in Int /\ q \in Int
    BY DEF Magnitude, TypeOK
  <2>2. FillIds' = 1..(fills + 1) /\ FillIds \subseteq FillIds' /\ fills + 1 \in FillIds'
    BY <1>7 DEF Fill, FillIds, TypeOK
  <2>3. /\ fillId' \in [Actors -> 0..fills'] /\ fills' \in Nat
        /\ \A b \in Actors : Holding(b)' <=> fillId'[b] # 0
    BY <1>7 DEF Fill, TypeOK, Holding
  <2>4. atVenue' \in SUBSET FillIds'
    BY <1>7, <2>2 DEF Fill, TypeOK
  <2>5. QED
    BY <1>7, <2>1, <2>2, <2>3, <2>4 DEF TypeOK, Fill, Phases
<1>8. ASSUME NEW a \in Actors, LoseAnswer(a)
      PROVE  TypeOK'
  <2>1. Finish(a)
    BY <1>8 DEF LoseAnswer
  <2>2. FillIds' = 1..(fills + 1) /\ FillIds \subseteq FillIds' /\ fills + 1 \in FillIds'
    BY <1>8 DEF LoseAnswer, FillIds, TypeOK
  <2>3. fillId' \in [Actors -> 0..fills'] /\ fills' \in Nat
    BY <1>8, <2>1, FinishTypes DEF LoseAnswer, TypeOK
  <2>4. faults' \in 0..MaxFaults
    BY <1>8, BoundsAssumption DEF LoseAnswer, TypeOK
  <2>5. QED
    BY <1>8, <2>1, <2>2, <2>3, <2>4, FinishTypes DEF TypeOK, LoseAnswer
<1>9. ASSUME NEW a \in Actors, BookPosition(a)
      PROVE  TypeOK'
  <2>1. ApplyFill(seen[a], order[a]) \in PositionRow
    BY SignedInt, OfSignedRoundTrip DEF ApplyFill, TypeOK
  <2>2. Update(row[at[a]], seen[a], ApplyFill(seen[a], order[a])) \in PositionRow
    BY <2>1, UpdateInDomain DEF TypeOK
  <2>3. row' \in [Rows -> PositionRow] /\ total' \in [Rows -> Int]
    BY <1>9, <2>2 DEF TypeOK, BookPosition
  <2>4. folded' \in SUBSET FillIds
    <3>1. fillId[a] \in FillIds
      BY <1>9, HeldNumbered DEF BookPosition, Holding
    <3>2. QED
      BY <1>9, <3>1 DEF TypeOK, BookPosition
  <2>5. QED
    BY <1>9, <2>3, <2>4 DEF TypeOK, BookPosition, Phases, FillIds, Holding
<1>10. ASSUME NEW a \in Actors, BookTrade(a)
       PROVE  TypeOK'
  <2>1. traded' \in SUBSET FillIds /\ Finish(a)
    <3>1. fillId[a] \in FillIds
      BY <1>10, HeldNumbered DEF BookTrade, Holding
    <3>2. QED
      BY <1>10, <3>1 DEF TypeOK, BookTrade
  <2>2. QED
    BY <1>10, <2>1, FinishTypes DEF TypeOK, BookTrade, FillIds
<1>11. ASSUME NEW a \in Actors, CommitFails(a)
       PROVE  TypeOK'
  <2>1. dropped' \in SUBSET FillIds /\ Finish(a)
    BY <1>11, HeldNumbered DEF TypeOK, CommitFails
  <2>2. faults' \in 0..MaxFaults
    BY <1>11, BoundsAssumption DEF CommitFails, TypeOK
  <2>3. QED
    BY <1>11, <2>1, <2>2, FinishTypes DEF TypeOK, CommitFails, FillIds
<1>12. CASE Crash
  <2>1. AnyRow \in Rows /\ Flat \in PositionRow
    BY RowsAssumption DEF AnyRow, Flat, PositionRow, Sides
  <2>2. dropped' \in SUBSET FillIds
    BY <1>12, HeldNumbered DEF TypeOK, Crash, Held
  <2>3. faults' \in 0..MaxFaults
    BY <1>12, BoundsAssumption DEF Crash, TypeOK
  <2>4. QED
    BY <1>12, <2>1, <2>2, <2>3 DEF TypeOK, Crash, Phases, FillIds, Holding
<1>13. CASE UNCHANGED vars
  BY <1>13 DEF TypeOK, vars, session, FillIds, Holding
<1>14. QED
  BY <1>1, <1>2, <1>3, <1>4, <1>5, <1>6, <1>7, <1>8, <1>9, <1>10, <1>11, <1>12, <1>13
  DEF Next, Proceed

\* The initial state is in the domain of every variable.
LEMMA TypeInit == Init => TypeOK
<1> SUFFICES ASSUME Init PROVE TypeOK
  OBVIOUS
<1>1. AnyRow \in Rows
  BY RowsAssumption DEF AnyRow
<1>2. Flat \in PositionRow
  BY DEF Flat, PositionRow, Sides
<1>3. faults \in 0..MaxFaults
  BY BoundsAssumption DEF Init
<1>4. QED
  BY <1>1, <1>2, <1>3 DEF Init, TypeOK, Phases, FillIds, Holding

\* Type correctness of every reachable state.
THEOREM TypeCorrect == Spec => []TypeOK
<1>1. QED
  BY TypeInit, TypeStep, PTL DEF Spec

----------------------------------------------------------------------------
\* The Trade table: no hypothesis on who writes what.

\* TradeLogComplete with what makes it inductive: a thread that has committed
\* the position of a fill is holding a fill that is folded.
TradeInv ==
  /\ TypeOK
  /\ TradeLogComplete
  /\ \A a \in Actors : pc[a] = "folded" => fillId[a] \in folded

\* A thread that finishes lets go of at most the fill it held.
LEMMA FinishReleases ==
  ASSUME NEW a \in Actors, TypeOK, Finish(a)
  PROVE  /\ Held \subseteq Held' \cup {fillId[a]}
         /\ ~Holding(a) => Held \subseteq Held'
         /\ \A b \in Actors : pc'[b] = "folded" => pc[b] = "folded" /\ fillId'[b] = fillId[b]
<1>1. \A b \in Actors : b # a => (Holding(b) <=> Holding(b)') /\ fillId'[b] = fillId[b]
  BY DEF Finish, Holding, TypeOK
<1>2. \A b \in Actors : b # a => pc'[b] = pc[b]
  BY DEF Finish, TypeOK
<1>3. pc'[a] = "idle"
  BY DEF Finish, TypeOK
<1>4. QED
  BY <1>1, <1>2, <1>3 DEF Held

\* Threads that keep their fills keep the set of held fills.
LEMMA SameHeld ==
  ASSUME fillId' = fillId, \A a \in Actors : Holding(a) <=> Holding(a)'
  PROVE  Held' = Held
BY DEF Held

\* Every step of every thread keeps the Trade table complete.
LEMMA TradeStep == TradeInv /\ [Next]_vars => TradeInv'
<1> SUFFICES ASSUME TradeInv, [Next]_vars
             PROVE  TradeInv'
  OBVIOUS
<1> TypeOK
  BY DEF TradeInv
<1>0. TypeOK'
  BY TypeStep
<1> USE DEF ledger
<1>1. ASSUME NEW a \in Actors, NEW r \in Rows, Load(a, r) \/ Flatten(a, r)
      PROVE  TradeInv'
  <2>1. \A b \in Actors : Holding(b) <=> Holding(b)'
    BY <1>1 DEF Load, Flatten, Holding, TypeOK
  <2>2. \A b \in Actors : pc'[b] = "folded" => pc[b] = "folded"
    BY <1>1 DEF Load, Flatten, TypeOK
  <2>3. Held' = Held
    BY <1>1, <2>1, SameHeld DEF Load, Flatten
  <2>4. QED
    BY <1>0, <1>1, <2>2, <2>3 DEF TradeInv, TradeLogComplete, Load, Flatten, FillIds
<1>2. ASSUME NEW a \in Actors, Create(a) \/ StopOut(a) \/ \E n \in Orders : Decide(a, n)
      PROVE  TradeInv'
  <2>1. \A b \in Actors : Holding(b) <=> Holding(b)'
    BY <1>2 DEF Create, StopOut, Decide, Holding, TypeOK
  <2>2. \A b \in Actors : pc'[b] = "folded" => pc[b] = "folded"
    BY <1>2 DEF Create, StopOut, Decide, TypeOK
  <2>3. /\ fillId' = fillId
        /\ UNCHANGED <<fills, folded, traded, dropped>>
    BY <1>2 DEF Create, StopOut, Decide
  <2>4. Held' = Held
    BY <2>1, <2>3, SameHeld
  <2>5. QED
    BY <1>0, <2>2, <2>3, <2>4 DEF TradeInv, TradeLogComplete, FillIds
<1>3. ASSUME NEW a \in Actors, CreateConflict(a) \/ Pass(a) \/ Reject(a)
      PROVE  TradeInv'
  <2>1. Finish(a) /\ ~Holding(a)
    BY <1>3 DEF CreateConflict, Pass, Reject, Holding
  <2>2. UNCHANGED <<fills, folded, traded, dropped>>
    BY <1>3 DEF CreateConflict, Pass, Reject
  <2>3. QED
    BY <1>0, <2>1, <2>2, FinishReleases DEF TradeInv, TradeLogComplete, FillIds
<1>4. ASSUME NEW a \in Actors, NEW q \in 1..Magnitude(order[a]), Fill(a, q)
      PROVE  TradeInv'
  <2>1. /\ FillIds' = FillIds \cup {fills + 1}
        /\ UNCHANGED <<folded, traded, dropped>>
    BY <1>4 DEF Fill, FillIds, TypeOK
  <2>2. \A b \in Actors : b # a => fillId'[b] = fillId[b] /\ pc'[b] = pc[b]
    BY <1>4 DEF Fill, TypeOK
  <2>3. pc[a] = "ordered" /\ pc'[a] = "filled" /\ fillId'[a] = fills + 1
    BY <1>4 DEF Fill, TypeOK
  <2>4. Held \cup {fills + 1} \subseteq Held'
    BY <2>2, <2>3 DEF Held, Holding
  <2>5. \A b \in Actors : pc'[b] = "folded" => fillId'[b] \in folded'
    BY <2>1, <2>2, <2>3 DEF TradeInv
  <2>6. QED
    BY <1>0, <2>1, <2>4, <2>5 DEF TradeInv, TradeLogComplete
<1>5. ASSUME NEW a \in Actors, LoseAnswer(a)
      PROVE  TradeInv'
  <2>1. Finish(a) /\ ~Holding(a)
    BY <1>5 DEF LoseAnswer, Holding
  <2>2. /\ FillIds' = FillIds \cup {fills + 1}
        /\ UNCHANGED <<folded, traded>> /\ dropped' = dropped \cup {fills + 1}
    BY <1>5 DEF LoseAnswer, FillIds, TypeOK
  <2>3. QED
    BY <1>0, <2>1, <2>2, FinishReleases DEF TradeInv, TradeLogComplete
<1>6. ASSUME NEW a \in Actors, BookPosition(a)
      PROVE  TradeInv'
  <2>1. \A b \in Actors : Holding(b) <=> Holding(b)'
    BY <1>6 DEF BookPosition, Holding, TypeOK
  <2>2. /\ fillId' = fillId /\ folded' = folded \cup {fillId[a]}
        /\ UNCHANGED <<fills, traded, dropped>>
    BY <1>6 DEF BookPosition
  <2>3. \A b \in Actors : b # a /\ pc'[b] = "folded" => pc[b] = "folded"
    BY <1>6 DEF BookPosition, TypeOK
  <2>4. Held' = Held
    BY <2>1, <2>2, SameHeld
  <2>5. QED
    BY <1>0, <2>2, <2>3, <2>4 DEF TradeInv, TradeLogComplete, FillIds
<1>7. ASSUME NEW a \in Actors, BookTrade(a)
      PROVE  TradeInv'
  <2>1. Finish(a) /\ pc[a] = "folded"
    BY <1>7 DEF BookTrade
  <2>2. /\ traded' = traded \cup {fillId[a]}
        /\ UNCHANGED <<fills, folded, dropped>>
    BY <1>7 DEF BookTrade
  <2>3. QED
    BY <1>0, <2>1, <2>2, FinishReleases DEF TradeInv, TradeLogComplete, FillIds
<1>8. ASSUME NEW a \in Actors, CommitFails(a)
      PROVE  TradeInv'
  <2>1. Finish(a) /\ dropped' = dropped \cup {fillId[a]}
    BY <1>8 DEF CommitFails
  <2>2. UNCHANGED <<fills, folded, traded>>
    BY <1>8 DEF CommitFails
  <2>3. QED
    BY <1>0, <2>1, <2>2, FinishReleases DEF TradeInv, TradeLogComplete, FillIds
<1>9. CASE Crash
  <2>1. dropped' = dropped \cup Held /\ UNCHANGED <<fills, folded, traded>>
    BY <1>9 DEF Crash
  <2>2. \A b \in Actors : pc'[b] = "idle"
    BY <1>9 DEF Crash
  <2>3. QED
    BY <1>0, <2>1, <2>2 DEF TradeInv, TradeLogComplete, FillIds
<1>10. CASE UNCHANGED vars
  <2>1. Held' = Held
    BY <1>10 DEF vars, session, Held, Holding
  <2>2. QED
    BY <1>0, <1>10, <2>1 DEF TradeInv, TradeLogComplete, FillIds, vars, session
<1>11. QED
  BY <1>1, <1>2, <1>3, <1>4, <1>5, <1>6, <1>7, <1>8, <1>9, <1>10 DEF Next, Proceed

\* Whatever threads interleave and whatever fails, every fill is logged, in a
\* thread's hands, or dropped by a fault; and no Trade row precedes its
\* position.
THEOREM TradeLog == Spec => []TradeLogComplete
<1>1. Init => TradeInv
  <2>1. ASSUME Init
        PROVE  TradeInv
    <3>1. TypeOK
      BY <2>1, TypeInit
    <3>2. FillIds = {} /\ traded = {} /\ folded = {}
      BY <2>1 DEF Init, FillIds
    <3>3. \A a \in Actors : pc[a] # "folded"
      BY <2>1 DEF Init
    <3>4. QED
      BY <3>1, <3>2, <3>3 DEF TradeInv, TradeLogComplete
  <2>2. QED
    BY <2>1
<1>2. TradeInv => TradeLogComplete
  BY DEF TradeInv
<1>3. QED
  BY <1>1, <1>2, TradeStep, PTL DEF Spec

----------------------------------------------------------------------------
\* The positions of the rows with one writer.

\* A session between its first read of a row and its commit of that row.
Reading(a) == pc[a] \in {"missing", "loaded", "ordered", "filled"}

\* A row with one writer is exact, and it stays so because the row a session
\* loaded is still the committed one when that session writes it back: its
\* thread is the only one to operate on that row.
LedgerInv ==
  /\ TypeOK
  /\ PositionFoldsEveryFill
  /\ RowConsistent
  /\ \A a \in Actors : pc[a] # "idle" => at[a] \in Handles[a]
  /\ \A a \in Actors : Reading(a) /\ at[a] \in SoleRows => seen[a] = row[at[a]]

\* A step that writes no row keeps the invariant when each thread keeps its
\* operation, begins one on a row it handles, or ends it.
LEMMA QuietStep ==
  ASSUME LedgerInv, TypeOK', UNCHANGED <<row, total>>,
         \A a \in Actors :
           \/ pc'[a] = "idle"
           \/ /\ at'[a] \in Handles[a]
              /\ Reading(a)' /\ at'[a] \in SoleRows => seen'[a] = row[at'[a]]
  PROVE  LedgerInv'
<1>1. PositionFoldsEveryFill' /\ RowConsistent'
  BY DEF LedgerInv, PositionFoldsEveryFill, RowConsistent
<1>2. \A a \in Actors : pc'[a] = "idle" => ~Reading(a)'
  BY DEF Reading
<1>3. QED
  BY <1>1, <1>2 DEF LedgerInv

\* Every step keeps the rows with one writer exact.
LEMMA LedgerStep == LedgerInv /\ [Next]_vars => LedgerInv'
<1> SUFFICES ASSUME LedgerInv, [Next]_vars
             PROVE  LedgerInv'
  OBVIOUS
<1> TypeOK
  BY DEF LedgerInv
<1>0. TypeOK'
  BY TypeStep
<1> USE DEF ledger
<1>1. ASSUME NEW a \in Actors, NEW r \in Rows, Load(a, r) \/ Flatten(a, r)
      PROVE  LedgerInv'
  <2>1. UNCHANGED <<row, total>>
    BY <1>1 DEF Load, Flatten
  <2>2. at'[a] = r /\ seen'[a] = row[r] /\ r \in Handles[a]
    BY <1>1 DEF Load, Flatten, TypeOK
  <2>3. \A b \in Actors : b # a => pc'[b] = pc[b] /\ at'[b] = at[b] /\ seen'[b] = seen[b]
    BY <1>1 DEF Load, Flatten, TypeOK
  <2>4. QED
    BY <1>0, <2>1, <2>2, <2>3, QuietStep DEF LedgerInv, Reading
<1>2. ASSUME NEW a \in Actors, Create(a) \/ StopOut(a) \/ \E n \in Orders : Decide(a, n)
      PROVE  LedgerInv'
  <2>1. UNCHANGED <<row, total, at>>
    BY <1>2 DEF Create, StopOut, Decide
  <2>2. pc[a] \in {"missing", "loaded"}
    BY <1>2 DEF Create, StopOut, Decide
  <2>3. seen'[a] \in {seen[a], row[at[a]]}
    BY <1>2 DEF Create, StopOut, Decide, TypeOK
  <2>4. \A b \in Actors : b # a => pc'[b] = pc[b] /\ seen'[b] = seen[b]
    BY <1>2 DEF Create, StopOut, Decide, TypeOK
  <2>5. QED
    BY <1>0, <2>1, <2>2, <2>3, <2>4, QuietStep DEF LedgerInv, Reading
<1>3. ASSUME NEW a \in Actors,
             \/ CreateConflict(a) \/ Pass(a) \/ Reject(a)
             \/ LoseAnswer(a) \/ BookTrade(a) \/ CommitFails(a)
      PROVE  LedgerInv'
  <2>1. Finish(a) /\ UNCHANGED <<row, total>>
    BY <1>3 DEF CreateConflict, Pass, Reject, LoseAnswer, BookTrade, CommitFails
  <2>2. pc'[a] = "idle"
    BY <2>1 DEF Finish, TypeOK
  <2>3. \A b \in Actors : b # a => pc'[b] = pc[b] /\ at'[b] = at[b] /\ seen'[b] = seen[b]
    BY <2>1 DEF Finish, TypeOK
  <2>4. QED
    BY <1>0, <2>1, <2>2, <2>3, QuietStep DEF LedgerInv, Reading
<1>4. ASSUME NEW a \in Actors, NEW q \in 1..Magnitude(order[a]), Fill(a, q)
      PROVE  LedgerInv'
  <2>1. UNCHANGED <<row, total, at, seen>> /\ pc[a] = "ordered"
    BY <1>4 DEF Fill
  <2>2. \A b \in Actors : b # a => pc'[b] = pc[b]
    BY <1>4 DEF Fill, TypeOK
  <2>3. QED
    BY <1>0, <2>1, <2>2, QuietStep DEF LedgerInv, Reading
<1>5. ASSUME NEW a \in Actors, BookPosition(a)
      PROVE  LedgerInv'
  <2> DEFINE r == at[a]
             new == ApplyFill(seen[a], order[a])
  <2>1. r \in Rows /\ r \in Handles[a] /\ pc[a] = "filled"
    BY <1>5 DEF BookPosition, LedgerInv, TypeOK
  <2>2. /\ row' = [row EXCEPT ![r] = Update(row[r], seen[a], new)]
        /\ total' = [total EXCEPT ![r] = @ + order[a]]
    BY <1>5 DEF BookPosition
  <2>3. ASSUME r \in SoleRows
        PROVE  /\ Signed(row'[r]) = total'[r]
               /\ row'[r].side = "flat" <=> row'[r].qty = 0
    <3>1. seen[a] = row[r]
      BY <2>1, <2>3 DEF LedgerInv, Reading
    <3>2. Signed(row[r]) = total[r] /\ total[r] \in Int /\ order[a] \in Int
      BY <2>1, <2>3 DEF LedgerInv, PositionFoldsEveryFill, TypeOK
    <3>3. new = OfSigned(total[r] + order[a])
      BY <3>1, <3>2 DEF ApplyFill
    <3>4. /\ new \in PositionRow
          /\ Signed(new) = total[r] + order[a]
          /\ new.side = "flat" <=> new.qty = 0
      BY <3>2, <3>3, OfSignedRoundTrip
    <3>5. Update(row[r], seen[a], new) = new
      BY <2>1, <3>1, <3>4, FreshUpdate DEF TypeOK
    <3>6. row'[r] = new /\ total'[r] = total[r] + order[a]
      BY <2>1, <2>2, <3>5 DEF TypeOK
    <3>7. QED
      BY <3>4, <3>6
  <2>4. \A s \in Rows : s # r => row'[s] = row[s] /\ total'[s] = total[s]
    BY <2>2 DEF TypeOK
  <2>5. SoleRows \subseteq Rows
    BY DEF SoleRows
  <2>6. PositionFoldsEveryFill'
    <3>1. ASSUME NEW s \in SoleRows
          PROVE  Signed(row'[s]) = total'[s]
      <4>1. CASE s = r
        BY <2>3, <4>1
      <4>2. CASE s # r
        BY <2>4, <2>5, <4>2 DEF LedgerInv, PositionFoldsEveryFill
      <4>3. QED
        BY <4>1, <4>2
    <3>2. QED
      BY <3>1 DEF PositionFoldsEveryFill, SoleRows
  <2>7. RowConsistent'
    <3>1. ASSUME NEW s \in SoleRows
          PROVE  row'[s].side = "flat" <=> row'[s].qty = 0
      <4>1. CASE s = r
        BY <2>3, <4>1
      <4>2. CASE s # r
        BY <2>4, <2>5, <4>2 DEF LedgerInv, RowConsistent
      <4>3. QED
        BY <4>1, <4>2
    <3>2. QED
      BY <3>1 DEF RowConsistent, SoleRows
  <2>9. UNCHANGED <<at, seen>> /\ pc' = [pc EXCEPT ![a] = "folded"]
    BY <1>5 DEF BookPosition
  <2>10. \A b \in Actors : pc'[b] # "idle" => at'[b] \in Handles[b]
    BY <2>1, <2>9 DEF LedgerInv, TypeOK
  <2>11. \A b \in Actors : Reading(b)' /\ at'[b] \in SoleRows => seen'[b] = row'[at'[b]]
    <3>1. SUFFICES ASSUME NEW b \in Actors, Reading(b)', at'[b] \in SoleRows
                   PROVE  seen'[b] = row'[at'[b]]
      OBVIOUS
    <3>2. b # a /\ Reading(b)
      BY <2>9, <3>1 DEF Reading, TypeOK
    <3>3. at[b] \in SoleRows /\ at[b] \in Handles[b] /\ seen[b] = row[at[b]]
      BY <2>9, <3>1, <3>2 DEF LedgerInv, Reading
    <3>4. at[b] # r
      BY <2>1, <3>2, <3>3 DEF SoleRows
    <3>5. QED
      BY <2>4, <2>5, <2>9, <3>3, <3>4
  <2>12. QED
    BY <1>0, <2>6, <2>7, <2>10, <2>11 DEF LedgerInv
<1>6. CASE Crash
  <2>1. UNCHANGED <<row, total>> /\ \A b \in Actors : pc'[b] = "idle"
    BY <1>6 DEF Crash
  <2>2. QED
    BY <1>0, <2>1, QuietStep
<1>7. CASE UNCHANGED vars
  <2>1. UNCHANGED <<row, total, pc, at, seen>>
    BY <1>7 DEF vars, session
  <2>2. QED
    BY <1>0, <2>1, QuietStep DEF LedgerInv, Reading
<1>8. QED
  BY <1>1, <1>2, <1>3, <1>4, <1>5, <1>6, <1>7 DEF Next, Proceed

\* No session is open and every row is empty at first.
LEMMA LedgerInit == Init => LedgerInv
<1>1. ASSUME Init
      PROVE  LedgerInv
  <2>1. TypeOK
    BY <1>1, TypeInit
  <2>2. \A r \in Rows : row[r] = [side |-> "flat", qty |-> 0] /\ total[r] = 0
    BY <1>1 DEF Init, Flat
  <2>3. PositionFoldsEveryFill /\ RowConsistent
    BY <2>2 DEF PositionFoldsEveryFill, RowConsistent, SoleRows, Signed
  <2>4. \A a \in Actors : pc[a] = "idle"
    BY <1>1 DEF Init
  <2>5. QED
    BY <2>1, <2>3, <2>4 DEF LedgerInv, Reading
<1>2. QED
  BY <1>1

\* A position with one writer is the sum of the fills committed for it and is
\* flat exactly when empty, through every crash, failed commit and lost answer,
\* and whatever other threads do to other rows.
THEOREM LedgerFolds == Spec => [](PositionFoldsEveryFill /\ RowConsistent)
<1>1. Init => LedgerInv
  BY LedgerInit
<1>2. LedgerInv => PositionFoldsEveryFill /\ RowConsistent
  BY DEF LedgerInv
<1>3. LedgerInv /\ [Next]_vars => LedgerInv'
  BY LedgerStep
<1>4. QED
  BY <1>1, <1>2, <1>3, PTL DEF Spec

\* A row with one writer is flat exactly when it is empty.
THEOREM RowsConsistent == Spec => []RowConsistent
<1>1. PositionFoldsEveryFill /\ RowConsistent => RowConsistent
  OBVIOUS
<1>2. QED
  BY <1>1, LedgerFolds, PTL

----------------------------------------------------------------------------
\* SubLedger implements Ledger.

\* No two threads hold one fill.
IdsApart ==
  \A a, b \in Actors : Holding(a) /\ fillId[a] = fillId[b] => a = b

\* A step after which threads hold nothing new keeps their fills apart.
LEMMA FillsKept ==
  ASSUME TypeOK', IdsApart,
         \A b \in Actors : Holding(b)' => Holding(b) /\ fillId'[b] = fillId[b]
  PROVE  IdsApart'
<1>1. SUFFICES ASSUME NEW a \in Actors, NEW b \in Actors,
                      Holding(a)', fillId'[a] = fillId'[b]
               PROVE  a = b
  BY DEF IdsApart
<1>2. fillId'[b] # 0 /\ Holding(b)'
  BY <1>1 DEF TypeOK
<1>3. Holding(a) /\ fillId[a] = fillId[b]
  BY <1>1, <1>2
<1>4. QED
  BY <1>3 DEF IdsApart

\* Every step but an execution leaves the threads with fills they held.
LEMMA OldFills ==
  ASSUME TypeOK, [Next]_vars,
         ~ \E a \in Actors : \E q \in 1..Magnitude(order[a]) : Fill(a, q)
  PROVE  \A b \in Actors : Holding(b)' => Holding(b) /\ fillId'[b] = fillId[b]
<1>1. ASSUME NEW a \in Actors,
             \/ \E r \in Rows : Load(a, r) \/ Flatten(a, r)
             \/ Create(a) \/ StopOut(a) \/ (\E n \in Orders : Decide(a, n))
      PROVE  \A b \in Actors : Holding(b)' => Holding(b) /\ fillId'[b] = fillId[b]
  BY <1>1 DEF Load, Flatten, Create, StopOut, Decide, Holding, TypeOK
<1>2. ASSUME NEW a \in Actors, BookPosition(a)
      PROVE  \A b \in Actors : Holding(b)' => Holding(b) /\ fillId'[b] = fillId[b]
  BY <1>2 DEF BookPosition, Holding, TypeOK
<1>3. ASSUME NEW a \in Actors, Finish(a)
      PROVE  \A b \in Actors : Holding(b)' => Holding(b) /\ fillId'[b] = fillId[b]
  BY <1>3 DEF Finish, Holding, TypeOK
<1>4. CASE Crash
  BY <1>4 DEF Crash, Holding
<1>5. CASE UNCHANGED vars
  BY <1>5 DEF vars, session, Holding
<1>6. QED
  BY <1>1, <1>2, <1>3, <1>4, <1>5
  DEF Next, Proceed, CreateConflict, Pass, Reject, BookTrade, LoseAnswer, CommitFails

\* The number of an execution is one no thread holds, so fills stay apart.
LEMMA IdsStep == TypeOK /\ IdsApart /\ [Next]_vars => IdsApart'
<1> SUFFICES ASSUME TypeOK, IdsApart, [Next]_vars
             PROVE  IdsApart'
  OBVIOUS
<1>0. TypeOK'
  BY TypeStep
<1>1. ASSUME NEW a \in Actors, NEW q \in 1..Magnitude(order[a]), Fill(a, q)
      PROVE  IdsApart'
  <2>1. \A b \in Actors : fillId[b] \in 0..fills
    BY DEF TypeOK
  <2>2. fillId' = [fillId EXCEPT ![a] = fills + 1] /\ pc' = [pc EXCEPT ![a] = "filled"]
    BY <1>1 DEF Fill
  <2>3. \A b \in Actors : b # a => /\ fillId'[b] = fillId[b] /\ fillId'[b] # fillId'[a]
                                   /\ Holding(b)' <=> Holding(b)
    BY <2>1, <2>2 DEF TypeOK, Holding
  <2>4. QED
    BY <2>3 DEF IdsApart
<1>2. QED
  BY <1>0, <1>1, FillsKept, OldFills

\* Where a step leaves rows, numbers and trades alone and threads hold nothing new,
\* the promise sees at most fills forgotten.
LEMMA ForgetStep ==
  ASSUME UNCHANGED <<row, fills, traded>>, InHand' \subseteq InHand, Booked' \subseteq Booked
  PROVE  Promise!LedgerNext
BY DEF Promise!LedgerNext, Promise!Forget, Positions

\* Threads that keep or drop their fills leave nothing new in hand or booked.
LEMMA NothingNew ==
  ASSUME \A b \in Actors :
           pc'[b] \in {"filled", "folded"} =>
             pc'[b] = pc[b] /\ fillId'[b] = fillId[b] /\ at'[b] = at[b] /\ order'[b] = order[b]
  PROVE  InHand' \subseteq InHand /\ Booked' \subseteq Booked
BY DEF InHand, Booked, FillOf

\* Every step of SubLedger is a step of Ledger.
LEMMA PromiseStep ==
  LedgerInv /\ IdsApart /\ [Next]_vars => [Promise!LedgerNext]_(Promise!ledgerVars)
<1> SUFFICES ASSUME LedgerInv, IdsApart, [Next]_vars
             PROVE  Promise!LedgerNext
  OBVIOUS
<1> TypeOK
  BY DEF LedgerInv
<1> USE DEF ledger
<1>1. ASSUME NEW a \in Actors,
             \/ \E r \in Rows : Load(a, r) \/ Flatten(a, r)
             \/ Create(a) \/ StopOut(a) \/ (\E n \in Orders : Decide(a, n))
      PROVE  Promise!LedgerNext
  <2>1. UNCHANGED <<row, fills, traded>>
    BY <1>1 DEF Load, Flatten, Create, StopOut, Decide
  <2>2. \A b \in Actors : pc'[b] \in {"filled", "folded"} =>
          pc'[b] = pc[b] /\ fillId'[b] = fillId[b] /\ at'[b] = at[b] /\ order'[b] = order[b]
    BY <1>1 DEF Load, Flatten, Create, StopOut, Decide, TypeOK
  <2>3. QED
    BY <2>1, <2>2, NothingNew, ForgetStep
<1>2. ASSUME NEW a \in Actors, CreateConflict(a) \/ Pass(a) \/ Reject(a) \/ CommitFails(a)
      PROVE  Promise!LedgerNext
  <2>1. UNCHANGED <<row, fills, traded>> /\ Finish(a)
    BY <1>2 DEF CreateConflict, Pass, Reject, CommitFails
  <2>2. \A b \in Actors : pc'[b] \in {"filled", "folded"} =>
          pc'[b] = pc[b] /\ fillId'[b] = fillId[b] /\ at'[b] = at[b] /\ order'[b] = order[b]
    BY <2>1 DEF Finish, TypeOK
  <2>3. QED
    BY <2>1, <2>2, NothingNew, ForgetStep
<1>3. ASSUME NEW a \in Actors, NEW q \in 1..Magnitude(order[a]), Fill(a, q)
      PROVE  Promise!LedgerNext
  <2>1. UNCHANGED <<row, traded, at>> /\ fills' = fills + 1
    BY <1>3 DEF Fill
  <2>2. pc[a] = "ordered" /\ pc'[a] = "filled" /\ fillId'[a] = fills'
    BY <1>3 DEF Fill, TypeOK
  <2>3. \A b \in Actors : b # a => pc'[b] = pc[b] /\ fillId'[b] = fillId[b]
                                   /\ at'[b] = at[b] /\ order'[b] = order[b]
    BY <1>3 DEF Fill, TypeOK
  <2>4. InHand' = InHand \cup {FillOf(a)'}
    <3>1. \A b \in Actors : b # a => FillOf(b)' = FillOf(b)
      BY <2>3 DEF FillOf
    <3>2. QED
      BY <2>2, <2>3, <3>1 DEF InHand
  <2>5. Booked' = Booked
    BY <2>2, <2>3 DEF Booked
  <2>6. /\ FillOf(a)' \in InHand' /\ FillOf(a)'.id = fills' /\ FillOf(a)'.key \in Rows
    BY <2>1, <2>2, <2>4 DEF FillOf, TypeOK
  <2>7. Positions' = Positions
    BY <2>1 DEF Positions
  <2>8. Promise!Execute
    BY <2>1, <2>4, <2>5, <2>6, <2>7 DEF Promise!Execute
  <2>9. QED
    BY <2>8 DEF Promise!LedgerNext
<1>4. ASSUME NEW a \in Actors, LoseAnswer(a)
      PROVE  Promise!LedgerNext
  <2>1. UNCHANGED <<row, traded>> /\ fills' = fills + 1 /\ Finish(a) /\ pc[a] = "ordered"
    BY <1>4 DEF LoseAnswer
  <2>2. pc'[a] = "idle" /\ \A b \in Actors : b # a => pc'[b] = pc[b] /\ FillOf(b)' = FillOf(b)
                                                       /\ fillId'[b] = fillId[b]
    BY <2>1 DEF Finish, FillOf, TypeOK
  <2>3. InHand' = InHand /\ Booked' = Booked /\ Positions' = Positions
    BY <2>1, <2>2 DEF InHand, Booked, Positions
  <2>4. QED
    BY <2>1, <2>3 DEF Promise!LedgerNext, Promise!ExecuteUnheard
<1>5. ASSUME NEW a \in Actors, BookPosition(a)
      PROVE  Promise!LedgerNext
  <2>1. UNCHANGED <<fills, traded, at, order, fillId>> /\ pc[a] = "filled" /\ pc'[a] = "folded"
    BY <1>5 DEF BookPosition, TypeOK
  <2>2. \A b \in Actors : FillOf(b)' = FillOf(b) /\ (b # a => pc'[b] = pc[b])
    BY <1>5 DEF BookPosition, FillOf, TypeOK
  <2>3. \A b \in Actors : pc[b] = "filled" /\ b # a => FillOf(b) # FillOf(a)
    <3>1. \A b \in Actors : FillOf(b).id = fillId[b]
      BY DEF FillOf
    <3>2. QED
      BY <2>1, <3>1 DEF IdsApart, Holding
  <2>4. FillOf(a) \in InHand /\ InHand' = InHand \ {FillOf(a)}
    BY <2>1, <2>2, <2>3 DEF InHand
  <2>5. Booked' = Booked \cup {FillOf(a).id}
    BY <2>1, <2>2 DEF Booked, FillOf
  <2>6. Positions' = [k \in SoleRows |-> IF k = FillOf(a).key
                                           THEN Positions[k] + FillOf(a).lots ELSE Positions[k]]
    <3>1. LedgerInv'
      BY LedgerStep
    <3>2. \A k \in SoleRows : Signed(row'[k]) = total'[k] /\ Signed(row[k]) = total[k]
      BY <3>1 DEF LedgerInv, PositionFoldsEveryFill
    <3>3. \A k \in SoleRows : total'[k] = IF k = at[a] THEN total[k] + order[a] ELSE total[k]
      BY <1>5 DEF BookPosition, TypeOK, SoleRows
    <3>4. QED
      BY <3>2, <3>3 DEF Positions, FillOf
  <2>7. Promise!Book(FillOf(a))
    BY <2>1, <2>4, <2>5, <2>6 DEF Promise!Book
  <2>8. QED
    BY <2>4, <2>7 DEF Promise!LedgerNext
<1>6. ASSUME NEW a \in Actors, BookTrade(a)
      PROVE  Promise!LedgerNext
  <2>1. UNCHANGED <<row, fills>> /\ pc[a] = "folded" /\ traded' = traded \cup {fillId[a]} /\ Finish(a)
    BY <1>6 DEF BookTrade
  <2>2. pc'[a] = "idle" /\ \A b \in Actors : b # a => pc'[b] = pc[b] /\ FillOf(b)' = FillOf(b)
                                                       /\ fillId'[b] = fillId[b]
    BY <2>1 DEF Finish, FillOf, TypeOK
  <2>3. \A b \in Actors : b # a => fillId[b] # fillId[a]
    BY <2>1 DEF IdsApart, Holding
  <2>4. InHand' = InHand /\ Positions' = Positions
    BY <2>1, <2>2 DEF InHand, Positions
  <2>5. fillId[a] \in Booked /\ Booked' = Booked \ {fillId[a]}
    BY <2>1, <2>2, <2>3 DEF Booked
  <2>6. Promise!Journal(fillId[a])
    BY <2>1, <2>4, <2>5 DEF Promise!Journal
  <2>7. QED
    BY <2>5, <2>6 DEF Promise!LedgerNext
<1>7. CASE Crash
  <2>1. UNCHANGED <<row, fills, traded>> /\ \A b \in Actors : pc'[b] = "idle"
    BY <1>7 DEF Crash
  <2>2. QED
    BY <2>1, NothingNew, ForgetStep
<1>8. CASE UNCHANGED vars
  <2>1. UNCHANGED <<row, fills, traded, pc, at, order, fillId>>
    BY <1>8 DEF vars, session
  <2>2. QED
    BY <2>1, NothingNew, ForgetStep
<1>9. QED
  BY <1>1, <1>2, <1>3, <1>4, <1>5, <1>6, <1>7, <1>8 DEF Next, Proceed

\* On the rows with one writer, every behaviour of sessions, commits, crashes and
\* lost answers is one of the ledger portfolio.py promises: each fill booked at
\* most once, whole, and journalled only after that.
THEOREM LedgerRefined == Spec => KeepsPromise
<1>1. Init => LedgerInv /\ IdsApart /\ Promise!LedgerInit
  <2>1. ASSUME Init
        PROVE  LedgerInv /\ IdsApart /\ Promise!LedgerInit
    <3>1. LedgerInv
      BY <2>1, LedgerInit
    <3>2. \A a \in Actors : pc[a] = "idle"
      BY <2>1 DEF Init
    <3>3. IdsApart /\ InHand = {} /\ Booked = {}
      BY <3>2 DEF IdsApart, Holding, InHand, Booked
    <3>4. Positions = [k \in SoleRows |-> 0] /\ fills = 0 /\ traded = {}
      BY <2>1 DEF Init, Positions, SoleRows, Signed, Flat
    <3>5. QED
      BY <3>1, <3>3, <3>4 DEF Promise!LedgerInit
  <2>2. QED
    BY <2>1
<1>2. LedgerInv /\ IdsApart /\ [Next]_vars => (LedgerInv /\ IdsApart)'
  BY LedgerStep, IdsStep DEF LedgerInv
<1>3. QED
  BY <1>1, <1>2, PromiseStep, PTL DEF Spec, KeepsPromise, Promise!LedgerSpec
=============================================================================

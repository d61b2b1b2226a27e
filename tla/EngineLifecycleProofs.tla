----------------------- MODULE EngineLifecycleProofs -----------------------
(***************************************************************************)
(* Proofs about EngineLifecycle: its type invariant and its four safety     *)
(* properties, for every set of strategies and markets and every number of  *)
(* restarts.                                                                *)
(***************************************************************************)
EXTENDS EngineLifecycle, TLAPS

----------------------------------------------------------------------------
\* The type invariant.

\* Only an AI strategy waits for its flag.
SeedOrder == budgetSet \in AIKind \cup {NoStrategy}

TypeInv == LifeTypeOK /\ SeedOrder

LEMMA LifeTypeInit == LifeInit => TypeInv
<1> SUFFICES ASSUME LifeInit PROVE TypeInv
  OBVIOUS
<1>1. restarts \in 0..MaxRestarts
  BY RestartsAssumption, SMT DEF LifeInit
<1>2. venueLots \in [Markets -> Int] /\ bookLots \in [Markets -> 0..1]
  BY SMT DEF LifeInit
<1> QED
  BY <1>1, <1>2 DEF LifeInit, TypeInv, LifeTypeOK, SeedOrder

LEMMA BootTypes == TypeInv /\ BootStep => TypeInv'
<1> SUFFICES ASSUME TypeInv, BootStep PROVE TypeInv'
  OBVIOUS
<1> USE StrategiesAssumption DEF TypeInv, SeedOrder
<1>1. CASE StartProcess
  BY <1>1 DEF StartProcess, LifeTypeOK, seedVars, tickVars, lotVars, bootVars, beatVars
<1>2. CASE Recover
  BY <1>2 DEF Recover, Drift, LifeTypeOK, tickVars, lotVars, beatVars
<1>3. CASE RecoveryFails
  BY <1>3 DEF RecoveryFails, LifeTypeOK, tickVars, lotVars, bootVars, beatVars
<1>4. ASSUME NEW s \in Strategies, SeedBudget(s) PROVE TypeInv'
  BY <1>4 DEF SeedBudget, LifeTypeOK, tickVars, lotVars, bootVars, beatVars
<1>5. CASE SeedDisabled
  BY <1>5 DEF SeedDisabled, LifeTypeOK, tickVars, lotVars, bootVars, beatVars
<1>6. CASE SeedingFails
  BY <1>6 DEF SeedingFails, HalfSeeded, LifeTypeOK, tickVars, lotVars, bootVars, beatVars
<1>7. CASE StartEngine
  BY <1>7 DEF StartEngine, LifeTypeOK, seedVars, tickVars, lotVars, beatVars
<1> QED
  BY <1>1, <1>2, <1>3, <1>4, <1>5, <1>6, <1>7 DEF BootStep

LEMMA TurnTypes == TypeInv /\ (BeginTick \/ TurnStep) => TypeInv'
<1> SUFFICES ASSUME TypeInv, BeginTick \/ TurnStep PROVE TypeInv'
  OBVIOUS
<1> USE StrategiesAssumption DEF TypeInv, SeedOrder
<1>1. CASE BeginTick
  BY <1>1 DEF BeginTick, LifeTypeOK, seedVars, lotVars, bootVars, beatVars
<1>2. ASSUME NEW s \in Strategies, NEW asks \in BOOLEAN, Hold(s, asks) PROVE TypeInv'
  BY <1>2 DEF Hold, LifeTypeOK, seedVars, lotVars, bootVars, beatVars
<1>3. ASSUME NEW s \in Strategies, NEW asks \in BOOLEAN, Order(s, asks) PROVE TypeInv'
  <2>1. /\ inFlight' = s /\ s \in left /\ UNCHANGED <<bookLots, left>>
        /\ \E d \in {1, -1} : venueLots' = [venueLots EXCEPT ![MarketOf[s]] = @ + d]
    BY <1>3 DEF Order, FillLot
  <2>2. venueLots' \in [Markets -> Int]
    BY <2>1, SMT DEF LifeTypeOK
  <2>3. consulted' \subseteq AIKind
    BY <1>3 DEF Order, LifeTypeOK
  <2> QED
    BY <1>3, <2>1, <2>2, <2>3 DEF Order, LifeTypeOK, seedVars, bootVars, beatVars
<1>4. CASE RecordLot
  <2>1. bookLots' \in [Markets -> 0..1]
    BY <1>4, SMT DEF RecordLot, LifeTypeOK
  <2> QED
    BY <1>4, <2>1 DEF RecordLot, LifeTypeOK, seedVars, bootVars, beatVars
<1>5. CASE EndTurns
  BY <1>5 DEF EndTurns, LifeTypeOK, seedVars, lotVars, bootVars, beatVars
<1>6. CASE Account
  BY <1>6 DEF Account, LifeTypeOK, seedVars, lotVars, bootVars
<1>7. CASE AccountingFails
  BY <1>7 DEF AccountingFails, LifeTypeOK, seedVars, lotVars, bootVars, beatVars
<1> QED
  BY <1>1, <1>2, <1>3, <1>4, <1>5, <1>6, <1>7 DEF TurnStep

LEMMA LifeTypeStep == TypeInv /\ [LifeNext]_lifeVars => TypeInv'
<1> SUFFICES ASSUME TypeInv, [LifeNext]_lifeVars PROVE TypeInv'
  OBVIOUS
<1> USE StrategiesAssumption, RestartsAssumption DEF TypeInv, SeedOrder
<1>1. ASSUME NEW s \in Strategies, NEW on \in BOOLEAN, SetEnabled(s, on) PROVE TypeInv'
  BY <1>1 DEF SetEnabled, LifeTypeOK, tickVars, lotVars, bootVars, beatVars
<1>2. ASSUME NEW s \in Strategies, ZeroBudget(s) PROVE TypeInv'
  BY <1>2 DEF ZeroBudget, LifeTypeOK, tickVars, lotVars, bootVars, beatVars
<1>3. CASE AnswerLost
  BY <1>3 DEF AnswerLost, LifeTypeOK, seedVars, bootVars, beatVars
<1>4. CASE Shutdown
  <2>1. restarts' \in 0..MaxRestarts
    BY <1>4, SMT DEF Shutdown, LifeTypeOK
  <2> QED
    BY <1>4, <2>1 DEF Shutdown, LifeTypeOK, seedVars, tickVars, lotVars, bootVars, beatVars
<1>5. CASE Drained
  BY <1>5 DEF Drained, LifeTypeOK, seedVars, tickVars, lotVars, bootVars, beatVars
<1>6. CASE LifeCrash
  <2>1. restarts' \in 0..MaxRestarts
    BY <1>6, SMT DEF LifeCrash, LifeTypeOK
  <2> QED
    BY <1>6, <2>1 DEF LifeCrash, HalfSeeded, LifeTypeOK, beatVars
<1>7. CASE TimePasses
  BY <1>7 DEF TimePasses, LifeTypeOK, seedVars, tickVars, lotVars, bootVars
<1>8. CASE UNCHANGED lifeVars
  BY <1>8 DEF lifeVars, LifeTypeOK, seedVars, tickVars, lotVars, bootVars, beatVars
<1> QED
  BY <1>1, <1>2, <1>3, <1>4, <1>5, <1>6, <1>7, <1>8, BootTypes, TurnTypes DEF LifeNext

\* Every variable stays in its domain; orders are in flight in a tick only.
THEOREM LifeTypeCorrect == LifeSpec => []LifeTypeOK
<1>1. TypeInv => LifeTypeOK
  BY DEF TypeInv
<1> QED
  BY <1>1, LifeTypeInit, LifeTypeStep, PTL DEF LifeSpec

----------------------------------------------------------------------------
\* Which AI strategies are enabled.

\* s was enabled by the operator, or its seeding was cut short.
Excused(s) == s \in optedIn \cup unseeded

\* Out of the boot, an enabled AI strategy is excused; before it, so is one with a
\* budget; in it, also one that seeding has still to come to.
OptInInv ==
  \A s \in AIKind : enabled[s] =>
    CASE phase \in {"running", "draining"} -> Excused(s)
      [] phase = "seeding" -> Excused(s) \/ s \in HalfSeeded
      [] OTHER -> Excused(s) \/ s \notin budgeted

LEMMA OptInStep == TypeInv /\ OptInInv /\ [LifeNext]_lifeVars => OptInInv'
<1> SUFFICES ASSUME TypeInv, OptInInv, [LifeNext]_lifeVars PROVE OptInInv'
  OBVIOUS
<1> USE StrategiesAssumption DEF TypeInv, SeedOrder, Excused, HalfSeeded
<1>1. CASE UNCHANGED <<phase, seedVars>>
  BY <1>1 DEF OptInInv, seedVars
<1>2. CASE StartProcess
  BY <1>2 DEF StartProcess, OptInInv, seedVars
<1>3. CASE Recover \/ RecoveryFails
  BY <1>3 DEF Recover, RecoveryFails, OptInInv
<1>4. ASSUME NEW s \in Strategies, SeedBudget(s) PROVE OptInInv'
  BY <1>4 DEF SeedBudget, OptInInv
<1>5. CASE SeedDisabled
  BY <1>5 DEF SeedDisabled, OptInInv, LifeTypeOK
<1>6. CASE SeedingFails
  BY <1>6 DEF SeedingFails, OptInInv
<1>7. CASE StartEngine
  BY <1>7 DEF StartEngine, seedVars, OptInInv
<1>8. ASSUME NEW s \in Strategies, NEW on \in BOOLEAN, SetEnabled(s, on) PROVE OptInInv'
  BY <1>8 DEF SetEnabled, OptInInv, LifeTypeOK
<1>9. ASSUME NEW s \in Strategies, ZeroBudget(s) PROVE OptInInv'
  BY <1>9 DEF ZeroBudget, OptInInv
<1>10. CASE Shutdown
  BY <1>10 DEF Shutdown, seedVars, OptInInv
<1>11. CASE Drained
  BY <1>11 DEF Drained, seedVars, OptInInv
<1>12. CASE LifeCrash
  BY <1>12 DEF LifeCrash, OptInInv
<1>13. CASE BeginTick \/ AnswerLost \/ TimePasses \/ RecordLot \/ EndTurns \/ Account
            \/ AccountingFails
  BY <1>1, <1>13
  DEF BeginTick, AnswerLost, TimePasses, RecordLot, EndTurns, Account, AccountingFails
<1>14. ASSUME NEW s \in Strategies, NEW asks \in BOOLEAN, Hold(s, asks) \/ Order(s, asks)
       PROVE  OptInInv'
  BY <1>1, <1>14 DEF Hold, Order
<1>15. CASE UNCHANGED lifeVars
  BY <1>1, <1>15 DEF lifeVars
<1> QED
  BY <1>2, <1>3, <1>4, <1>5, <1>6, <1>7, <1>8, <1>9, <1>10, <1>11, <1>12, <1>13, <1>14, <1>15
  DEF LifeNext, BootStep, TurnStep

\* Who is asked by a step.
ConsultsExcused == \A s \in consulted' \ consulted : Excused(s)

LEMMA ConsultStep == TypeInv /\ OptInInv /\ LifeNext => ConsultsExcused
<1> SUFFICES ASSUME TypeInv, OptInInv, LifeNext PROVE ConsultsExcused
  OBVIOUS
<1>1. CASE consulted' \subseteq consulted
  BY <1>1 DEF ConsultsExcused
<1>2. ASSUME NEW s \in Strategies, NEW asks \in BOOLEAN, Hold(s, asks) \/ Order(s, asks)
      PROVE  ConsultsExcused
  <2>1. consulted' = (IF asks THEN consulted \cup {s} ELSE consulted) /\ tickPc = "turns"
        /\ (asks => s \in AIKind /\ enabled[s])
    BY <1>2 DEF Hold, Order
  <2>2. phase \in {"running", "draining"}
    BY <2>1 DEF TypeInv, LifeTypeOK
  <2> QED
    BY <2>1, <2>2 DEF OptInInv, ConsultsExcused
<1>3. CASE BootStep
  BY <1>1, <1>3
  DEF BootStep, StartProcess, Recover, RecoveryFails, SeedBudget, SeedDisabled, SeedingFails,
      StartEngine, tickVars
<1>4. CASE BeginTick \/ AnswerLost \/ TimePasses \/ RecordLot \/ EndTurns \/ Account
           \/ AccountingFails \/ Shutdown \/ Drained \/ LifeCrash
  BY <1>1, <1>4
  DEF BeginTick, AnswerLost, TimePasses, RecordLot, EndTurns, Account, AccountingFails,
      Shutdown, Drained, LifeCrash, tickVars
<1>5. ASSUME NEW s \in Strategies, NEW on \in BOOLEAN, SetEnabled(s, on) PROVE ConsultsExcused
  BY <1>1, <1>5 DEF SetEnabled, tickVars
<1>6. ASSUME NEW s \in Strategies, ZeroBudget(s) PROVE ConsultsExcused
  BY <1>1, <1>6 DEF ZeroBudget, tickVars
<1> QED
  BY <1>2, <1>3, <1>4, <1>5, <1>6 DEF LifeNext, TurnStep

\* Through budgets set to zero, flags, restarts and crashes, no model is paid for a
\* strategy nobody enabled, unless its seeding was cut short.
THEOREM AINeedsOptIn == LifeSpec => AIRunsOnlyWhenOptedIn
<1>1. LifeInit => OptInInv
  BY DEF LifeInit, OptInInv, Excused
<1>2. TypeInv /\ OptInInv /\ [LifeNext]_lifeVars => [ConsultsExcused]_lifeVars
  BY ConsultStep
<1>3. LifeSpec => [][ConsultsExcused]_lifeVars
  BY <1>1, <1>2, LifeTypeInit, LifeTypeStep, OptInStep, PTL DEF LifeSpec
<1> QED
  BY <1>3 DEF AIRunsOnlyWhenOptedIn, ConsultsExcused, Excused

----------------------------------------------------------------------------
\* What the venue holds and what the rows say.

\* While no answer was lost, the venue is ahead of the rows by the order in flight.
LotsInv ==
  lossless =>
    \A m \in Markets :
      venueLots[m] = IF inFlight # NoStrategy /\ MarketOf[inFlight] = m
                       THEN 1 - bookLots[m] ELSE bookLots[m]

LEMMA LotsStep == TypeInv /\ LotsInv /\ [LifeNext]_lifeVars => LotsInv'
<1> SUFFICES ASSUME TypeInv, LotsInv, [LifeNext]_lifeVars PROVE LotsInv'
  OBVIOUS
<1> USE StrategiesAssumption DEF TypeInv
<1>1. CASE lotVars' = lotVars /\ lossless' = lossless
  BY <1>1 DEF LotsInv, lotVars
<1>2. ASSUME NEW s \in Strategies, NEW asks \in BOOLEAN, Order(s, asks) PROVE LotsInv'
  <2> DEFINE m == MarketOf[s]
  <2>1. m \in Markets /\ inFlight = NoStrategy /\ inFlight' = s /\ s # NoStrategy
        /\ bookLots' = bookLots /\ lossless' = lossless
    BY <1>2 DEF Order, FillLot
  <2>2. \/ bookLots[m] = 0 /\ venueLots' = [venueLots EXCEPT ![m] = @ + 1]
        \/ bookLots[m] = 1 /\ venueLots' = [venueLots EXCEPT ![m] = @ + (-1)]
    BY <1>2 DEF Order, FillLot
  <2>3. \A n \in Markets : n # m => venueLots'[n] = venueLots[n]
    BY <2>2 DEF LifeTypeOK
  <2>4. lossless => venueLots[m] = bookLots[m]
    BY <2>1 DEF LotsInv
  <2>5. lossless => venueLots'[m] = 1 - bookLots[m]
    BY <2>1, <2>2, <2>4, SMT DEF LifeTypeOK
  <2> QED
    BY <2>1, <2>3, <2>5 DEF LotsInv
<1>3. CASE RecordLot
  <2> DEFINE m == MarketOf[inFlight]
  <2>1. inFlight \in Strategies /\ m \in Markets
    BY <1>3 DEF RecordLot, LifeTypeOK
  <2>2. /\ inFlight # NoStrategy /\ inFlight' = NoStrategy
        /\ venueLots' = venueLots /\ lossless' = lossless
        /\ bookLots' = [bookLots EXCEPT ![m] = 1 - @]
    BY <1>3 DEF RecordLot
  <2>3. bookLots'[m] = 1 - bookLots[m] /\ \A n \in Markets : n # m => bookLots'[n] = bookLots[n]
    BY <2>1, <2>2 DEF LifeTypeOK
  <2> QED
    BY <2>1, <2>2, <2>3 DEF LotsInv
<1>4. CASE AnswerLost \/ LifeCrash
  BY <1>4 DEF AnswerLost, LifeCrash, LotsInv
<1>5. CASE BootStep
  BY <1>1, <1>5
  DEF BootStep, StartProcess, Recover, RecoveryFails, SeedBudget, SeedDisabled, SeedingFails,
      StartEngine
<1>6. CASE BeginTick \/ TimePasses \/ EndTurns \/ Account \/ AccountingFails \/ Shutdown
           \/ Drained
  BY <1>1, <1>6 DEF BeginTick, TimePasses, EndTurns, Account, AccountingFails, Shutdown, Drained
<1>7. ASSUME NEW s \in Strategies, NEW asks \in BOOLEAN, Hold(s, asks) PROVE LotsInv'
  BY <1>1, <1>7 DEF Hold
<1>8. ASSUME NEW s \in Strategies, NEW on \in BOOLEAN, SetEnabled(s, on) PROVE LotsInv'
  BY <1>1, <1>8 DEF SetEnabled
<1>9. ASSUME NEW s \in Strategies, ZeroBudget(s) PROVE LotsInv'
  BY <1>1, <1>9 DEF ZeroBudget
<1>10. CASE UNCHANGED lifeVars
  BY <1>1, <1>10 DEF lifeVars
<1> QED
  BY <1>2, <1>3, <1>4, <1>5, <1>6, <1>7, <1>8, <1>9, <1>10 DEF LifeNext, TurnStep

\* A process that is down has no order in flight.
LEMMA DownIsQuiet == TypeInv /\ phase = "down" => inFlight = NoStrategy
BY DEF TypeInv, LifeTypeOK

\* After any number of shutdowns, and while no crash and no lost answer came, the
\* rows of a stopped engine say what the venue holds.
THEOREM ShutdownDrains == LifeSpec => []StopDrains
<1>1. LifeInit => LotsInv
  BY DEF LifeInit, LotsInv
<1>2. TypeInv /\ LotsInv => StopDrains
  <2> SUFFICES ASSUME TypeInv, LotsInv, phase = "down", lossless PROVE venueLots = bookLots
    BY DEF StopDrains
  <2>1. \A m \in Markets : venueLots[m] = bookLots[m]
    BY DownIsQuiet DEF LotsInv
  <2> QED
    BY <2>1 DEF TypeInv, LifeTypeOK
<1> QED
  BY <1>1, <1>2, LifeTypeInit, LifeTypeStep, LotsStep, PTL DEF LifeSpec

----------------------------------------------------------------------------
\* The boot's comparison and the heartbeat.

\* Nothing trades between the comparison and the start of the engine.
DriftInv ==
  phase = "seeding" /\ compared => (venueLots[Futures] # bookLots[Futures] <=> Futures \in report)

\* A process that was down too long has an old heartbeat until a tick completes.
BeatInv == outage => beat = "stale"

BootInv == DriftInv /\ BeatInv

LEMMA BootInvStep == TypeInv /\ BootInv /\ [LifeNext]_lifeVars => BootInv'
<1> SUFFICES ASSUME TypeInv, BootInv, [LifeNext]_lifeVars PROVE BootInv'
  OBVIOUS
<1> USE StrategiesAssumption DEF TypeInv, BootInv
<1>1. CASE UNCHANGED <<venueLots, bookLots, bootVars, beatVars>> /\ (phase' = "seeding" => phase = "seeding")
  BY <1>1 DEF DriftInv, BeatInv, bootVars, beatVars
<1>2. CASE phase' # "seeding" /\ beatVars' = beatVars
  BY <1>2 DEF DriftInv, BeatInv, beatVars
<1>3. CASE Recover
  BY <1>3 DEF Recover, Drift, VenueSays, DriftInv, BeatInv, lotVars, beatVars
<1>4. CASE RecoveryFails
  BY <1>4 DEF RecoveryFails, DriftInv, BeatInv, bootVars, beatVars, LifeTypeOK
<1>5. ASSUME NEW s \in Strategies, SeedBudget(s) PROVE BootInv'
  BY <1>1, <1>5 DEF SeedBudget, lotVars
<1>6. CASE SeedDisabled \/ SeedingFails
  BY <1>1, <1>6 DEF SeedDisabled, SeedingFails, lotVars
<1>7. CASE StartProcess \/ StartEngine \/ Drained \/ LifeCrash \/ Shutdown
  BY <1>2, <1>7 DEF StartProcess, StartEngine, Drained, LifeCrash, Shutdown
<1>8. CASE TimePasses
  BY <1>8 DEF TimePasses, DriftInv, BeatInv, lotVars, bootVars
<1>9. CASE Account
  BY <1>9 DEF Account, DriftInv, BeatInv, LifeTypeOK
<1>10. CASE BeginTick \/ EndTurns \/ AccountingFails
  BY <1>1, <1>10 DEF BeginTick, EndTurns, AccountingFails, lotVars
<1>11. CASE RecordLot \/ AnswerLost
  <2>1. phase' # "seeding"
    BY <1>11 DEF RecordLot, AnswerLost, LifeTypeOK
  <2> QED
    BY <1>2, <1>11, <2>1 DEF RecordLot, AnswerLost
<1>12. ASSUME NEW s \in Strategies, NEW asks \in BOOLEAN, Hold(s, asks) \/ Order(s, asks)
       PROVE  BootInv'
  <2>1. phase' # "seeding" /\ beatVars' = beatVars
    BY <1>12 DEF Hold, Order, LifeTypeOK
  <2> QED
    BY <1>2, <2>1
<1>13. ASSUME NEW s \in Strategies, NEW on \in BOOLEAN, SetEnabled(s, on) PROVE BootInv'
  BY <1>2, <1>13 DEF SetEnabled
<1>14. ASSUME NEW s \in Strategies, ZeroBudget(s) PROVE BootInv'
  BY <1>2, <1>14 DEF ZeroBudget
<1>15. CASE UNCHANGED lifeVars
  BY <1>1, <1>15 DEF lifeVars, lotVars
<1> QED
  BY <1>3, <1>4, <1>5, <1>6, <1>7, <1>8, <1>9, <1>10, <1>11, <1>12, <1>13, <1>14, <1>15
  DEF LifeNext, BootStep, TurnStep

LEMMA BootInvInit == LifeInit => BootInv
BY DEF LifeInit, BootInv, DriftInv, BeatInv

\* A check after a restart can still tell that the engine was down while holding
\* risk, until a tick completes.
THEOREM OutageTold == LifeSpec => []OutageIsTold
<1>1. BootInv => OutageIsTold
  BY DEF BootInv, BeatInv, OutageIsTold, Alert
<1> QED
  BY <1>1, BootInvInit, LifeTypeInit, LifeTypeStep, BootInvStep, PTL DEF LifeSpec

\* What a step that starts the trading has reported.
ReportsDrift ==
  phase # "running" /\ phase' = "running" /\ compared
    => (venueLots[Futures] # bookLots[Futures] => Futures \in report)

LEMMA StartStep == TypeInv /\ BootInv /\ LifeNext => ReportsDrift
<1> SUFFICES ASSUME TypeInv, BootInv, LifeNext, phase # "running", phase' = "running",
                    compared
             PROVE  venueLots[Futures] # bookLots[Futures] => Futures \in report
  BY DEF ReportsDrift
<1>1. phase = "seeding"
  BY DEF TypeInv, LifeTypeOK
<1> QED
  BY <1>1 DEF BootInv, DriftInv

\* Trading starts with every futures drift reported, whatever crashes and lost
\* answers caused it, if the venue answered.
THEOREM StartsReconciled == LifeSpec => TradingStartsReconciled
<1>1. TypeInv /\ BootInv /\ [LifeNext]_lifeVars => [ReportsDrift]_lifeVars
  BY StartStep
<1>2. LifeSpec => [][ReportsDrift]_lifeVars
  BY <1>1, BootInvInit, LifeTypeInit, LifeTypeStep, BootInvStep, PTL DEF LifeSpec
<1> QED
  BY <1>2 DEF TradingStartsReconciled, ReportsDrift
=============================================================================

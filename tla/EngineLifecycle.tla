--------------------------- MODULE EngineLifecycle ---------------------------
(***************************************************************************)
(* The process of the engine from boot to shutdown, and the rows that      *)
(* outlive it.                                                             *)
(*                                                                         *)
(* lifespan() compares the sub-ledger with the venue, seeds budgets and    *)
(* flags, starts the scheduler, serves requests, and at the end drains the *)
(* tick in flight.  Every hook before the scheduler is allowed to fail.    *)
(* The process may die at any point; the supervisor starts it again        *)
(* ("restart: unless-stopped").                                            *)
(*                                                                         *)
(* Quantities are net lots of a market; a trade opens or closes one lot.   *)
(* The mode is a real one and the keys are stored: in Sim mode, or without *)
(* keys, boot recovery does nothing.                                       *)
(***************************************************************************)
EXTENDS Integers, FiniteSets

CONSTANTS
  Strategies,     \* the registered strategies
  AIKind,         \* those of kind "AI"
  Markets,        \* markets positions are held in
  Futures,        \* the one market whose positions the venue reports
  MarketOf,       \* MarketOf[s]: the market strategy s trades
  NoStrategy,     \* none of them
  MaxRestarts     \* bound: crashes and shutdowns

ASSUME StrategiesAssumption ==
  /\ AIKind \subseteq Strategies /\ NoStrategy \notin Strategies
  /\ Futures \in Markets /\ MarketOf \in [Strategies -> Markets]
ASSUME RestartsAssumption == MaxRestarts \in Nat

VARIABLES
  phase,      \* "down", "recovering", "seeding", "running" or "draining"
  todo,       \* strategies seed_allocations has not come to
  budgetSet,  \* the strategy whose budget it committed, its flag still to come
  budgeted,   \* strategies with an allocation above zero
  enabled,    \* enabled[s]: what is_enabled answers
  tickPc,     \* the scheduler's worker: "idle", "turns" or "accounting"
  left,       \* strategies the tick has not come to
  inFlight,   \* the strategy whose order is filled and not recorded
  venueLots,  \* venueLots[m]: what the venue holds of market m
  bookLots,   \* bookLots[m]: what the Position rows of market m say
  report,     \* markets boot recovery reported drift for
  compared,   \* boot recovery reached the venue
  beat,       \* age of the persisted heartbeat: "never", "fresh" or "stale"
  outage,     \* the process was down too long and has not ticked since: history
  optedIn,    \* AI strategies the operator enabled, since they were seeded: history
  unseeded,   \* AI strategies a crash or an error left half seeded: history
  consulted,  \* AI strategies whose model this tick has called
  lossless,   \* no crash and no lost answer so far: history
  restarts    \* crashes and shutdowns so far

seedVars == <<todo, budgetSet, budgeted, enabled, optedIn, unseeded>>
tickVars == <<tickPc, left, consulted>>
lotVars == <<inFlight, venueLots, bookLots>>
bootVars == <<report, compared>>
beatVars == <<beat, outage>>
lifeVars == <<phase, seedVars, tickVars, lotVars, bootVars, beatVars, lossless, restarts>>

LifeInit ==
  /\ phase = "down" /\ tickPc = "idle"
  /\ todo = {} /\ left = {} /\ inFlight = NoStrategy /\ budgetSet = NoStrategy
  /\ budgeted = {} /\ enabled = [s \in Strategies |-> TRUE]
  /\ venueLots = [m \in Markets |-> 0] /\ bookLots = [m \in Markets |-> 0]
  /\ report = {} /\ compared = FALSE
  /\ beat = "never" /\ outage = FALSE
  /\ optedIn = {} /\ unseeded = {} /\ consulted = {}
  /\ lossless = TRUE /\ restarts = 0

----------------------------------------------------------------------------
\* Boot.

StartsAlive ==
  /\ phase = "down"
  /\ phase' = "recovering" /\ beat' = "fresh"
  /\ UNCHANGED <<seedVars, tickVars, lotVars, bootVars, outage, lossless, restarts>>

\* lifespan begins; the hooks that seed the administrator and the connections
\* graph have no effect here, failed or not.
StartProcess ==
  /\ phase = "down"
  /\ phase' = "recovering"
  /\ UNCHANGED <<seedVars, tickVars, lotVars, bootVars, beatVars, lossless, restarts>>

\* BinanceVenue.positions answers for futures; engine_positions sums the rows of
\* every market.
VenueSays(m) == IF m = Futures THEN venueLots[m] ELSE 0

\* reconcile_positions: the markets whose sum of rows is not what the venue says.
Drift == {m \in Markets : bookLots[m] # VenueSays(m)}

RecoverOpenRows ==
  /\ phase = "recovering"
  /\ phase' = "seeding" /\ todo' = Strategies
  /\ report' = {m \in Markets : bookLots[m] # 0 /\ bookLots[m] # VenueSays(m)} /\ compared' = TRUE
  /\ UNCHANGED <<budgetSet, budgeted, enabled, optedIn, unseeded>>
  /\ UNCHANGED <<tickVars, lotVars, beatVars, lossless, restarts>>

\* recover_on_boot, reconcile_with_venue.
Recover ==
  /\ phase = "recovering"
  /\ phase' = "seeding" /\ todo' = Strategies
  /\ report' = Drift /\ compared' = TRUE
  /\ UNCHANGED <<budgetSet, budgeted, enabled, optedIn, unseeded>>
  /\ UNCHANGED <<tickVars, lotVars, beatVars, lossless, restarts>>

RecoveryRaises ==
  /\ phase = "recovering"
  /\ phase' = "down"
  /\ UNCHANGED <<seedVars, tickVars, lotVars, bootVars, beatVars, lossless, restarts>>

\* The venue does not answer: logged, and boot goes on.
RecoveryFails ==
  /\ phase = "recovering"
  /\ phase' = "seeding" /\ todo' = Strategies
  /\ UNCHANGED <<budgetSet, budgeted, enabled, optedIn, unseeded>>
  /\ UNCHANGED <<tickVars, lotVars, bootVars, beatVars, lossless, restarts>>

SeedBudgetOnly(s) ==
  /\ phase = "seeding" /\ budgetSet = NoStrategy /\ s \in todo
  /\ budgeted' = budgeted \cup {s} /\ todo' = todo \ {s}
  /\ UNCHANGED <<phase, budgetSet, enabled, optedIn, unseeded>>
  /\ UNCHANGED <<tickVars, lotVars, bootVars, beatVars, lossless, restarts>>

\* seed_allocations, one strategy: a budget of zero is set to the default and
\* committed.
SeedBudget(s) ==
  /\ phase = "seeding" /\ budgetSet = NoStrategy /\ s \in todo
  /\ budgeted' = budgeted \cup {s}
  /\ IF s \in AIKind \ budgeted
       THEN budgetSet' = s /\ todo' = todo
       ELSE budgetSet' = NoStrategy /\ todo' = todo \ {s}
  /\ UNCHANGED <<phase, enabled, optedIn, unseeded>>
  /\ UNCHANGED <<tickVars, lotVars, bootVars, beatVars, lossless, restarts>>

\* In a second commit an AI strategy is disabled.
SeedDisabled ==
  /\ budgetSet # NoStrategy
  /\ enabled' = [enabled EXCEPT ![budgetSet] = FALSE]
  /\ optedIn' = optedIn \ {budgetSet} /\ unseeded' = unseeded \ {budgetSet}
  /\ todo' = todo \ {budgetSet} /\ budgetSet' = NoStrategy
  /\ UNCHANGED <<phase, budgeted>>
  /\ UNCHANGED <<tickVars, lotVars, bootVars, beatVars, lossless, restarts>>

\* The AI strategies among those seeding did not finish and that were to be.
HalfSeeded == {s \in AIKind \cap todo : s \notin budgeted \/ s = budgetSet}

\* A commit raises: "seeding skipped", and the engine starts as it is.
SeedingFails ==
  /\ phase = "seeding" /\ todo # {}
  /\ unseeded' = unseeded \cup HalfSeeded
  /\ todo' = {} /\ budgetSet' = NoStrategy
  /\ UNCHANGED <<phase, budgeted, enabled, optedIn>>
  /\ UNCHANGED <<tickVars, lotVars, bootVars, beatVars, lossless, restarts>>

\* TradingEngine.start; what recovery found was logged, nothing keeps it.  From
\* here on requests are served too.
StartEngine ==
  /\ phase = "seeding" /\ todo = {}
  /\ phase' = "running"
  /\ report' = {} /\ compared' = FALSE
  /\ UNCHANGED <<seedVars, tickVars, lotVars, beatVars, lossless, restarts>>

BootStep ==
  \/ StartProcess \/ Recover \/ RecoveryFails
  \/ \E s \in Strategies : SeedBudget(s)
  \/ SeedDisabled \/ SeedingFails \/ StartEngine

----------------------------------------------------------------------------
\* The tick and the requests.

\* The scheduler fires tick, one at a time; with _stopping set it does nothing.
BeginTick ==
  /\ phase = "running" /\ tickPc = "idle"
  /\ tickPc' = "turns" /\ left' = Strategies
  /\ UNCHANGED <<phase, seedVars, consulted, lotVars, bootVars, beatVars, lossless, restarts>>

\* A turn that trades nothing, or raises and is isolated.  An enabled AI strategy
\* has asked its model by then, unless it stopped before that.
Hold(s, asks) ==
  /\ tickPc = "turns" /\ s \in left /\ inFlight = NoStrategy
  /\ asks => s \in AIKind /\ enabled[s]
  /\ left' = left \ {s}
  /\ consulted' = IF asks THEN consulted \cup {s} ELSE consulted
  /\ UNCHANGED <<phase, seedVars, tickPc, lotVars, bootVars, beatVars, lossless, restarts>>

\* The order of s is filled by the venue: one lot more, or one closed.
FillLot(s, d) ==
  /\ inFlight' = s
  /\ venueLots' = [venueLots EXCEPT ![MarketOf[s]] = @ + d]
  /\ UNCHANGED bookLots

\* A turn that trades: it opens with a budget and the flag, and closes by its own
\* decision or, whatever the flag, by a stop.
Order(s, asks) ==
  /\ tickPc = "turns" /\ s \in left /\ inFlight = NoStrategy
  /\ asks => s \in AIKind /\ enabled[s]
  /\ \/ /\ enabled[s] /\ s \in budgeted /\ (s \in AIKind => asks)
        /\ bookLots[MarketOf[s]] = 0 /\ FillLot(s, 1)
     \/ bookLots[MarketOf[s]] = 1 /\ FillLot(s, -1)
  /\ consulted' = IF asks THEN consulted \cup {s} ELSE consulted
  /\ UNCHANGED <<phase, seedVars, tickPc, left, bootVars, beatVars, lossless, restarts>>

\* record_fill: the rows say what the order did.
RecordLot ==
  /\ inFlight # NoStrategy
  /\ bookLots' = [bookLots EXCEPT ![MarketOf[inFlight]] = 1 - @]
  /\ left' = left \ {inFlight} /\ inFlight' = NoStrategy
  /\ UNCHANGED <<phase, seedVars, tickPc, consulted, venueLots>>
  /\ UNCHANGED <<bootVars, beatVars, lossless, restarts>>

\* The venue's answer is lost: nothing is recorded.
AnswerLost ==
  /\ inFlight # NoStrategy /\ lossless
  /\ left' = left \ {inFlight} /\ inFlight' = NoStrategy
  /\ lossless' = FALSE
  /\ UNCHANGED <<phase, seedVars, tickPc, consulted, venueLots, bookLots>>
  /\ UNCHANGED <<bootVars, beatVars, restarts>>

EndTurns ==
  /\ tickPc = "turns" /\ left = {}
  /\ tickPc' = "accounting" /\ consulted' = {}
  /\ UNCHANGED <<phase, seedVars, left, lotVars, bootVars, beatVars, lossless, restarts>>

\* The equity snapshot, and the heartbeat after it.
Account ==
  /\ tickPc = "accounting"
  /\ tickPc' = "idle"
  /\ beat' = "fresh" /\ outage' = FALSE
  /\ UNCHANGED <<phase, seedVars, left, consulted, lotVars, bootVars, lossless, restarts>>

\* The snapshot raises: there is no heartbeat either.
AccountingFails ==
  /\ tickPc = "accounting"
  /\ tickPc' = "idle"
  /\ UNCHANGED <<phase, seedVars, left, consulted, lotVars, bootVars, beatVars, lossless, restarts>>

TurnStep ==
  \/ \E s \in Strategies, asks \in BOOLEAN : Hold(s, asks) \/ Order(s, asks)
  \/ RecordLot \/ EndTurns \/ Account \/ AccountingFails

\* update_enabled.
SetEnabled(s, on) ==
  /\ phase = "running" /\ enabled[s] # on
  /\ enabled' = [enabled EXCEPT ![s] = on]
  /\ optedIn' = IF on THEN optedIn \cup ({s} \cap AIKind) ELSE optedIn
  /\ UNCHANGED <<phase, todo, budgetSet, budgeted, unseeded>>
  /\ UNCHANGED <<tickVars, lotVars, bootVars, beatVars, lossless, restarts>>

\* update_allocation to zero.
ZeroBudget(s) ==
  /\ phase = "running" /\ s \in budgeted
  /\ budgeted' = budgeted \ {s}
  /\ UNCHANGED <<phase, todo, budgetSet, enabled, optedIn, unseeded>>
  /\ UNCHANGED <<tickVars, lotVars, bootVars, beatVars, lossless, restarts>>

----------------------------------------------------------------------------
\* The end of the process.

\* TradingEngine.stop sets _stopping and waits for the tick in flight.
Shutdown ==
  /\ phase = "running" /\ restarts < MaxRestarts
  /\ phase' = "draining" /\ restarts' = restarts + 1
  /\ UNCHANGED <<seedVars, tickVars, lotVars, bootVars, beatVars, lossless>>

StoppedAtOnce ==
  /\ phase = "draining"
  /\ phase' = "down" /\ tickPc' = "idle" /\ left' = {} /\ consulted' = {} /\ inFlight' = NoStrategy
  /\ UNCHANGED <<seedVars, venueLots, bookLots, bootVars, beatVars, lossless, restarts>>

Drained ==
  /\ phase = "draining" /\ tickPc = "idle"
  /\ phase' = "down"
  /\ UNCHANGED <<seedVars, tickVars, lotVars, bootVars, beatVars, lossless, restarts>>

LifeCrash ==
  /\ phase # "down" /\ restarts < MaxRestarts
  /\ phase' = "down" /\ restarts' = restarts + 1
  /\ tickPc' = "idle" /\ left' = {} /\ consulted' = {} /\ inFlight' = NoStrategy
  /\ report' = {} /\ compared' = FALSE
  /\ unseeded' = unseeded \cup HalfSeeded
  /\ todo' = {} /\ budgetSet' = NoStrategy
  /\ lossless' = FALSE
  /\ UNCHANGED <<budgeted, enabled, optedIn, venueLots, bookLots, beatVars>>

\* Longer than DEFAULT_MAX_AGE_SECONDS passes without a heartbeat.
TimePasses ==
  /\ beat = "fresh"
  /\ beat' = "stale" /\ outage' = (outage \/ phase = "down")
  /\ UNCHANGED <<phase, seedVars, tickVars, lotVars, bootVars, lossless, restarts>>

LifeNext ==
  \/ BootStep \/ BeginTick \/ TurnStep
  \/ \E s \in Strategies, on \in BOOLEAN : SetEnabled(s, on)
  \/ \E s \in Strategies : ZeroBudget(s)
  \/ AnswerLost \/ Shutdown \/ Drained \/ LifeCrash \/ TimePasses

LifeSpec == LifeInit /\ [][LifeNext]_lifeVars

\* The supervisor restarts the process, boot and turns run to their end, and the
\* interval trigger fires.
LifeStep == BootStep \/ BeginTick \/ TurnStep \/ Drained

----------------------------------------------------------------------------
\* watchdog_status(...).alert
OpenLots == \E m \in Markets : bookLots[m] # 0
Alert == beat = "stale" /\ OpenLots

\* Every variable stays in its domain; orders are in flight in a tick only.
LifeTypeOK ==
  /\ phase \in {"down", "recovering", "seeding", "running", "draining"}
  /\ todo \subseteq Strategies /\ left \subseteq Strategies /\ inFlight \in left \cup {NoStrategy}
  /\ budgetSet \in todo \cup {NoStrategy} /\ budgeted \subseteq Strategies
  /\ enabled \in [Strategies -> BOOLEAN]
  /\ tickPc \in {"idle", "turns", "accounting"}
  /\ left # {} => tickPc = "turns"
  /\ tickPc # "idle" => phase \in {"running", "draining"}
  /\ todo # {} => phase = "seeding"
  /\ compared => phase = "seeding"
  /\ venueLots \in [Markets -> Int] /\ bookLots \in [Markets -> 0..1]
  /\ report \subseteq Markets /\ compared \in BOOLEAN
  /\ beat \in {"never", "fresh", "stale"} /\ outage \in BOOLEAN
  /\ optedIn \subseteq AIKind /\ unseeded \subseteq AIKind
  /\ consulted \subseteq AIKind
  /\ lossless \in BOOLEAN /\ restarts \in 0..MaxRestarts

\* "Seed them disabled so the operator opts in" (builtin.py): through budgets set
\* to zero, flags, restarts and crashes, no model is paid for a strategy nobody
\* enabled, unless its seeding was cut between its two commits or never came to it.
AIRunsOnlyWhenOptedIn == [][\A s \in consulted' \ consulted : s \in optedIn \cup unseeded]_lifeVars

\* "A SIGTERM from a redeploy never interrupts an order mid-flight" (engine.py):
\* after any number of shutdowns, and while no crash and no lost answer came, the
\* rows of a stopped engine say what the venue holds.
StopDrains == phase = "down" /\ lossless => venueLots = bookLots

\* "The engine reconciles and surfaces any drift so the operator is not trading on
\* stale state" (recovery.py): trading starts with every futures drift reported,
\* whatever crashes and lost answers caused it, if the venue answered.
TradingStartsReconciled ==
  [][phase # "running" /\ phase' = "running" /\ compared
       => (venueLots[Futures] # bookLots[Futures] => Futures \in report)]_lifeVars

\* "A check after a restart can still tell that the engine was down while holding
\* risk" (watchdog.py): until a tick completes.
OutageIsTold == phase # "down" /\ outage /\ OpenLots => Alert

\* "Recovery must not block startup", "never let seeding crash startup" (main.py):
\* whatever hook fails and however the process ends, the engine ticks again.
EngineKeepsTicking == []<>(tickPc = "turns")
=============================================================================

--------------------------- MODULE MCOperations ---------------------------
(***************************************************************************)
(* Small instances of the components an operator runs the system with: the  *)
(* life of the engine process, the accounts, the drawdown kill-switch, the  *)
(* API's access gate, its login limiter, the connections graph and the      *)
(* settings store.  No two of them share a variable, so a behaviour of this *)
(* module is one of any of the seven, the others standing still: their      *)
(* states are added and not multiplied.                                     *)
(***************************************************************************)
EXTENDS EngineLifecycle, Accounting, DrawdownHalt, Access, LoginLimiter,
  Connections, AppSettings

VARIABLE focus  \* the component that moves

operationsVars ==
  <<lifeVars, moneyVars, haltVars, accessVars, loginVars,
    graphVars, settingsVars, focus>>

MCGrain == [k \in 0..FillBound |-> 2 ^ k]
MCMarketOf == [s \in Strategies |-> IF s = "ai" THEN "spot" ELSE "fut"]
MCEnds ==
  [e \in Relations |->
     CASE e = "supplies" -> {"nvda", "chip"}
       [] e = "uses" -> {"chip", "ai"}
       [] OTHER -> {"nvda", "ai"}]

OperationsInit ==
  /\ LifeInit /\ AccountsInit /\ HaltInit /\ AccessInit /\ LoginInit
  /\ GraphInit /\ SettingsInit
  /\ focus \in {"lifecycle", "accounts", "drawdown", "access", "logins", "graph",
               "settings"}
  /\ focus # "accounts" => budget = 8
  /\ focus # "drawdown" => netPnl = 0 /\ allocated = 2

OperationsNext ==
  /\ \/ /\ focus = "lifecycle" /\ LifeNext
        /\ UNCHANGED <<moneyVars, haltVars, accessVars, loginVars, graphVars, settingsVars>>
     \/ /\ focus = "accounts" /\ AccountsNext
        /\ UNCHANGED <<lifeVars, haltVars, accessVars, loginVars, graphVars, settingsVars>>
     \/ /\ focus = "drawdown" /\ HaltNext
        /\ UNCHANGED <<lifeVars, moneyVars, accessVars, loginVars, graphVars, settingsVars>>
     \/ /\ focus = "access" /\ AccessNext
        /\ UNCHANGED <<lifeVars, moneyVars, haltVars, loginVars, graphVars, settingsVars>>
     \/ /\ focus = "logins" /\ LoginNext
        /\ UNCHANGED <<lifeVars, moneyVars, haltVars, accessVars, graphVars, settingsVars>>
     \/ /\ focus = "graph" /\ GraphNext
        /\ UNCHANGED <<lifeVars, moneyVars, haltVars, accessVars, loginVars, settingsVars>>
     \/ /\ focus = "settings" /\ SettingsNext
        /\ UNCHANGED <<lifeVars, moneyVars, haltVars, accessVars, loginVars, graphVars>>
  /\ UNCHANGED focus

\* Boot, turns and restarts go on: see LifeStep.
OperationsSpec ==
  OperationsInit /\ [][OperationsNext]_operationsVars
    /\ WF_lifeVars(focus = "lifecycle" /\ LifeStep)

\* The type invariants of the seven modules.
OperationsTypeOK ==
  /\ LifeTypeOK /\ AccountsTypeOK /\ HaltTypeOK
  /\ AccessTypeOK /\ LoginTypeOK /\ GraphTypeOK /\ SettingsTypeOK

\* EngineKeepsTicking, where the engine's life moves: whatever hook fails and
\* however the process ends, it ticks again.
EngineTicksOn == focus = "lifecycle" => EngineKeepsTicking
=============================================================================

SPECIFICATION Spec
CONSTANTS
  Budget = 2
  Cap = 1
  Costs <- MCCosts
  Requests <- MCTwoRequests
  Backtests = TRUE
  MaxSignals = 1
  MaxSpent = 2
  MaxFaults = 1
INVARIANTS
  TypeOK
  StatusTellsOutcome
  AutonomousWithinBudget
  NotifyHolds
  StrategiesPauseAtCap
  SignalIsItsOrder

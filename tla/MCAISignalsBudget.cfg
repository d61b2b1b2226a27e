SPECIFICATION Spec
CONSTANTS
  Budget = 1
  Cap = 0
  Costs <- MCCosts
  Requests <- MCOneRequest
  Backtests = FALSE
  MaxSignals = 2
  MaxSpent = 2
  MaxFaults = 0
PROPERTY ConfirmationWithinBudget

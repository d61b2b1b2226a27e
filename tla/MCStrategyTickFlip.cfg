SPECIFICATION Spec
CONSTANTS
  Prices <- MCTwoPrices
  Budgets <- MCOneBudget
  MaxOrder = 4
  Step = 1
  MinNotional = 0
  MaxNotional = 0
  StopLoss = 0
  TakeProfit = 0
  Live = FALSE
  OperatorActs = TRUE
PROPERTY KillSwitchOpensNothing

SPECIFICATION FairSpec
CONSTANTS
  Prices <- MCThreePrices
  Budgets <- MCBudgets
  MaxOrder = 3
  Step = 1
  MinNotional = 0
  MaxNotional = 0
  StopLoss = 30
  TakeProfit = 30
  Live = FALSE
  OperatorActs = TRUE
PROPERTY StopCloses

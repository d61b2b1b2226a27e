SPECIFICATION Spec
CONSTANTS
  Prices <- MCTwoPrices
  Budgets <- MCBudgets
  MaxOrder = 7
  Step = 2
  MinNotional = 5
  MaxNotional = 10
  StopLoss = 30
  TakeProfit = 40
  Live = TRUE
  OperatorActs = TRUE
INVARIANTS
  TypeOK
  SafeguardsHaltGrowth
PROPERTY AllocationRespected

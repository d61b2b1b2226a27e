SPECIFICATION OperationsSpec
CONSTANTS
  Strategies = {"ai", "plug"}
  AIKind = {"ai"}
  Markets = {"spot", "fut"}
  Futures = "fut"
  MarketOf <- MCMarketOf
  NoStrategy = "none"
  MaxRestarts = 1
  Prices = {8, 16}
  Grain <- MCGrain
  Budgets = {8, 32}
  Fee = 1
  DailyLimit = 8
  LotBound = 2
  FillBound = 3
  DayBound = 1
  NetRange = {0, 1, 2}
  Allocations = {2, 4}
  MaxDrawdown = 25
  KeepDays = 1
  SnapBound = 3
  DateBound = 2
  Operators = {"root", "op"}
  Admin = "root"
  ApiTokens = {"tok"}
  Requests = {"r1", "r2"}
  Patches = {{"on"}, {"off"}, {"user"}, {"on", "admin"}, {"password"}}
  MaxTokens = 2
  LoginNames = {"root", "op"}
  Logins = {"l1", "l2"}
  MaxAttempts = 2
  MaxCount = 3
  Relations = {"supplies", "uses", "drives"}
  SeedEdges = {"supplies"}
  EndsOf <- MCEnds
  MaxAsks = 2
  Providers = {"claude", "openai"}
  DefaultProvider = "claude"
  Blank = ""
  MaxSaves = 3
INVARIANTS
  OperationsTypeOK
  StopDrains
  OutageIsTold
  EquityIsCashPlusPosition
  TradesExplainPositions
  GraphKeepsOperatorsWord
  RunsAsPinned
PROPERTIES
  AIRunsOnlyWhenOptedIn
  TradingStartsReconciled
  EngineTicksOn
  HaltOutlivesLosses
  RequestsFollowTheTable
CHECK_DEADLOCK FALSE

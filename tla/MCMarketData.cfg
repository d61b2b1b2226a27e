SPECIFICATION MarketSpec
CONSTANTS
  Ticker = "tick"
  Viewers = {"req"}
  Limit = 2
  Keep = 1
  MaxBar = 2
  MaxMoves = 1
  Links = {"spot", "fut"}
  FirstDelay = 1
  MaxDelay = 4
  MaxQuotes = 2
  Accounts = {"spot", "futures", "alpaca", "poly"}
  Kind <- MCOrderKind
  LotStep <- MCLotStep
  Target = 4
  MaxSends = 3
  Kinds = {"ma", "macd", "rsi", "bollinger"}
  Closes = {972, 1944, 2916}
  Unit = 972
  Fast = 1
  Slow = 2
  Signal = 2
  Period = 3
  Oversold = 30
  Overbought = 70
  Deviations = 1
  Window = 4
  MaxBars = 6
  Urls = {"a", "b"}
  Feeds = {"x", "y"}
  Job = "job"
  Refreshers = {"job", "admin"}
INVARIANTS
  MarketTypeOK
  ReadsHaveNoGap
  BooksTrailVenue
  ConvergesToReplay
PROPERTIES
  TickTradesAgain
  NewsArrives
  SnapshotsHeal
CHECK_DEADLOCK FALSE

SPECIFICATION CacheSpec
CONSTANTS
  Ticker = "tick"
  Viewers = {}
  Limit = 2
  Keep = 0
  MaxBar = 1
  MaxMoves = 1
INVARIANTS
  ClosedCandlesAreFinal
CHECK_DEADLOCK FALSE

SPECIFICATION FairSpec
CONSTANTS
  Rows <- MCRows
  Tick = "tick"
  Requests <- MCOneRequest
  Handles <- HandlesMixed
  AIRows <- MCAIRow
  ManualRows <- MCManual
  Live = TRUE
  MaxLots = 2
  MaxFills = 2
  MaxFaults = 1
INVARIANTS
  TypeOK
  PositionFoldsEveryFill
  RowConsistent
  TradeLogComplete
PROPERTIES
  FillEventuallyLogged
  KeepsPromise

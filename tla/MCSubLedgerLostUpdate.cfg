SPECIFICATION Spec
CONSTANTS
  Rows <- MCAIRow
  Tick = "tick"
  Requests <- MCOneRequest
  Handles <- HandlesShared
  AIRows <- MCAIRow
  ManualRows <- MCNone
  Live = FALSE
  MaxLots = 2
  MaxFills = 3
  MaxFaults = 0
INVARIANT EveryRowFolds

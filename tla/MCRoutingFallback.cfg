SPECIFICATION Spec
CONSTANTS
  Venues <- MCVenues
  Sandboxed <- MCSandboxed
  Placing <- MCPlacing
  Fields <- MCFields
  StoredKeys <- MCNoKeys
  Rows <- MCOneRow
  Tick = "tick"
  Requests <- MCOneRequest
  Admins <- MCOneAdmin
INVARIANT SerialBooksNeverMix

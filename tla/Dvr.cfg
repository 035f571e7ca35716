SPECIFICATION DvrSpec
CONSTANTS
  MaxSessions = 2
  NoRow = NoRow
  Budget = 3
  ShotSizes = {1, 2}
  ShotCap = 1
  RingCap = 2
  TimelineCap = 2
  MaxEvents = 3
  MaxTxs = 3
  DvrScopes <- EventsOrSessions
CHECK_DEADLOCK FALSE
INVARIANTS
  WithinBounds
PROPERTIES
  StoredStays
  Saved

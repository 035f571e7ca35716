SPECIFICATION Spec
CONSTANTS
  MaxClicks = 2
  Probe = Probe
  NoClick = NoClick
  MaxHits = 1
  MaxJobs = 2
  Scopes <- TheScopes
CHECK_DEADLOCK FALSE
INVARIANTS
  ClicksAccountedFor
  OpenedInOrder
PROPERTIES
  NothingWaitsForever

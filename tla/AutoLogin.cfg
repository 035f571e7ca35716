SPECIFICATION Spec
CONSTANTS
  MaxLaunches = 2
  Scopes <- TheScopes
CHECK_DEADLOCK FALSE
INVARIANTS
  TicketsPayOnce
  CredentialsAreReal
  PageTellsTheTruth
PROPERTIES
  EndsInSight

SPECIFICATION StreamSpec
CONSTANTS
  MaxViewers = 2
  NoRun = NoRun
  MaxRestarts = 2
  ChanCap = 2
  PipeCap = 1
  EncQueue = 2
  Scopes <- TakeoversOrFaults
CHECK_DEADLOCK FALSE
INVARIANTS
  OneCapture
PROPERTIES
  TornDown
  StreamGoesOn

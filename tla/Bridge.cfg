CONSTANTS
  s1 = s1
  s2 = s2
  Sockets <- TwoSockets
  Rest = Rest
  NoSocket = NoSocket
  IdleTicks = 1
  LifeTicks = 2
  MaxFaults = 1
  MaxScanAge = 1
  Ladder = 1
  MaxResets = 1
SPECIFICATION FairSpec
INVARIANTS TypeOK BannerIsTrue
PROPERTIES NobodyIsStranded

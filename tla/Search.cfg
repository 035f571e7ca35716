CONSTANTS
  c1 = c1
  c2 = c2
  served = served
  unserved = unserved
  Calls <- TwoCalls
  Adapters = {served, unserved}
  Served = {served}
  PageSize = 1
  MaxRows = 2
  MaxGen = 2
  MaxRestarts = 1
SPECIFICATION FairSpec
INVARIANTS TypeOK PageIsCurrent
PROPERTIES PageIsTold

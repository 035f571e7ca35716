CONSTANTS
  f1 = f1
  f2 = f2
  p1 = p1
  p2 = p2
  p3 = p3
  Features <- TwoFeatures
  Patches <- ThreePatches
  Feature <- FeatureOf
  Value <- ValueOf
  MaxRowsKept = 3
  MaxDeliveries = 2
  MaxRollbacks = 2
  MaxOperator = 1
  MaxReloads = 1
  StorageMayFail = TRUE
SPECIFICATION Spec
INVARIANTS TypeOK LogTellsTheTruth
PROPERTIES PastIsRespected

CONSTANTS
  f1 = f1
  f2 = f2
  Files <- TwoFiles
  MaxAttempts = 2
  MaxJobs = 2
  MaxOps = 1
  MaxFaults = 1
SPECIFICATION FairSpec
INVARIANTS TypeOK UploadedIsReal PromisesKept
PROPERTIES JobsSettle
CHECK_DEADLOCK FALSE

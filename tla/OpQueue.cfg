CONSTANTS
  l1 = l1
  l2 = l2
  Loops <- TwoLoops
  QUEUE_LIMIT = 2
  MaxAttempts = 2
  MaxOps = 2
  MaxJobs = 3
  MaxExtra = 1
  MaxReloads = 1
  StorageMayFail = FALSE
SPECIFICATION FairSpec
PROPERTIES PendingSettles DecisionsAreKept ImplementsSerialExecutor
INVARIANTS TypeOK DrainedByOne AckedInOrder BoundedAttempts

CONSTANTS
  f1 = f1
  f2 = f2
  Files <- TwoFiles
  MaxAttempts = 2
  MaxJobs = 2
  MaxOps = 0
  MaxFaults = 0
SPECIFICATION Spec
INVARIANTS AcceptedKept
CHECK_DEADLOCK FALSE

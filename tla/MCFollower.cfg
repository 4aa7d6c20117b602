CONSTANTS
  a = a
  b = b
  Ops <- MCOps
  Ours = Ours
  Theirs = Theirs
  Torn = Torn
  Overlap = 1
  DiskFails = TRUE
  MaxLog = 3
  MaxVersions = 1
  MaxFaults = 2
SPECIFICATION FairSpec
INVARIANTS CopyOfPrimary WellFormed
PROPERTY CatchesUp
CHECK_DEADLOCK FALSE

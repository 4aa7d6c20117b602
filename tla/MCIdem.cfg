CONSTANTS
  w1 = w1
  w2 = w2
  ing = ing
  fb = fb
  None = None
  Workers <- TwoWorkers
  Requests <- Both
  Feedbacks <- JustFeedback
  MaxAttempts = 2
  DiskFails = TRUE
  Crashes = TRUE
  Outlives = TRUE
SPECIFICATION FairSpec
INVARIANTS TypeOK AckedOnDisk OneHandlerPerKey RefusedMeansUntouched OnceUnlessExcused
PROPERTY MarkersReleased
CHECK_DEADLOCK FALSE

CONSTANTS
  Cap = 1
  MaxLines = 1
  DiskFails = TRUE
  MaxEdges = 2
  MaxRetrievals = 2
SPECIFICATION Spec
INVARIANTS CreditLands CreditKept TracesOnDisk WellFormed

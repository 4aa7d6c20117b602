CONSTANTS
  main = main
  other = other
  Requests <- MCRequests
  w1 = w1
  w2 = w2
  e1 = e1
  e2 = e2
  e3 = e3
  None = None
  Dbs <- MCDbs
  Default = main
  Workers <- MCWorkers
  Engines <- MCEngines
  MaxOpens <- OneOrTwo
  BatchSize = 2
  MaxMem = 1
  Quota = 1
  Crashes = TRUE
  MaxWrites = 1
SPECIFICATION Spec
SYMMETRY Symmetry
INVARIANTS TypeOK InUseIsOpen NothingLost ReopensUnlessExposed
CHECK_DEADLOCK FALSE

CONSTANTS
  k1 = k1
  k2 = k2
  k3 = k3
  Keys <- MCKeys
  Cap = 2
  Window = 1
  Factor = 1
  MinLines = 3
  WritesFail = TRUE
  MaxTime = 2
  MaxPuts = 5
  MaxFaults = 2
SPECIFICATION StoreSpec
SYMMETRY Sym
INVARIANTS StoreTypeOK RetriesAnswered
CHECK_DEADLOCK FALSE

CONSTANTS
  p1 = p1
  p2 = p2
  f1 = f1
  f2 = f2
  NoProc = NoProc
  Procs <- TwoProcs
  Facts <- MCFacts
  MaxInode = 4
SPECIFICATION Spec
SYMMETRY SwapSymmetry
INVARIANTS TypeOK SafeUnlessExposed WriterOwnsLog
CHECK_DEADLOCK FALSE

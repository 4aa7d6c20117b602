CONSTANTS
  o1 = o1
  big = big
  w1 = w1
  w2 = w2
  w3 = w3
  NoOp = NoOp
  NoText = NoText
  NoWorker = NoWorker
  Ops <- MCOps
  BigOps <- MCBigOps
  BufCap = 2
  MaxLog = 3
  Workers <- ThreeWorkers
SPECIFICATION DbSpec
SYMMETRY WorkerSymmetry
INVARIANTS WedgeHolds

CONSTANTS
  o1 = o1
  o2 = o2
  big = big
  NoOp = NoOp
  NoText = NoText
  Ops <- MCOps
  BigOps <- MCBigOps
  BufCap = 2
  MaxLog = 4
SPECIFICATION Spec
INVARIANTS TypeOK AckedDurable Openable ReplayIsGraph
PROPERTY Abstract

SPECIFICATION Spec
CONSTANTS
  rel = rel
  serves = serves
  clean = clean
  evil = evil
  Nodes <- MCNodes
  EdgeTable <- MCEdges
  One = 16
  Full = 256
  FanN = 9
  FanD = 10
  Epsilon = 0
  Depth = 2
  TopK = 2
  GammaN = 1
  GammaD = 2
  Kinds <- MCKinds
  Origins = {evil}
  Functional = {serves}
  Configs <- MCConfigs
  FirstConfig <- MCFirstConfig
  W0 = 8
  Theta = 2
  NormTarget = 16
  RClip = 4
  Floor = 1
  Penalty = 1
  SleepN = 1
  SleepD = 2
  SleepTheta = 3
  ProtectN = 1
  ProtectD = 2
  ScaleMax = 2
  IntegralMax = 1
  SeedSets <- MCSeedSets
  Credits <- MCCredits
  Rewards <- MCRewards
  First = 2
  Times = {0, 2}
  DiskFails = TRUE
  MaxSteps = 4
INVARIANTS TypeOK DerivedIsCurrent FiresAsAllowed CreditFollowsPaths
PROPERTIES ForgottenStays ConflictsEnd SleepSpares
CHECK_DEADLOCK FALSE

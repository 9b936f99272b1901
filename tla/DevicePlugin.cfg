SPECIFICATION FairSpec
CONSTANTS
  p1 = p1
  p2 = p2
  Chip <- Base
  CoresSettings <- Settings
  Pods <- TwoPods
  Wants <- OneAndTwo
  Budget <- NodeBudget
INVARIANTS
  TypeOK
  CommittedCoresFit
PROPERTIES
  HealthTold
  DownReported
  UpReported
CHECK_DEADLOCK FALSE

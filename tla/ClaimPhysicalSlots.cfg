SPECIFICATION Spec
CONSTANTS
  p1 = p1
  p2 = p2
  Chip <- Base
  CoresSettings <- Settings
  Pods <- TwoPods
  Wants <- OneAndTwo
  Budget <- NodeBudget
INVARIANT
  SlotsArePhysical
CHECK_DEADLOCK FALSE

SPECIFICATION FairSpec
CONSTANTS
  p1 = p1
  p2 = p2
  Pods <- TwoPods
  SelfSet <- OneSelfSet
  Dummy = FALSE
  Budget <- InjectionBudget
INVARIANTS
  TypeOK
PROPERTIES
  DeadStaysDead
  PathRecovers
  AdmittedRuns
  HealthTells

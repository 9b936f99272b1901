SPECIFICATION FairSpec
CONSTANTS
  p1 = p1
  p2 = p2
  Pods <- TwoPods
  SelfSet <- OneSelfSet
  Dummy = TRUE
  Budget <- InjectionBudget
PROPERTIES
  ListensIndefinitely

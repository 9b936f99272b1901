SPECIFICATION FairSpec
CONSTANTS
  n1 = n1
  n2 = n2
  Nodes <- TwoNodes
  Readings <- FourReadings
  Slots <- TwelveAndEleven
  PluginPods <- PodPhases
  Budget = 2
INVARIANTS
  TypeOK
  ScoresOrdered
PROPERTIES
  UnfitNodeAvoided
  FitNodeServes

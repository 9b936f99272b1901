SPECIFICATION Spec
CONSTANTS
  Clusters = {"a"}
  NoCluster = "none"
  Pipeline <- TunedPipeline
  HelmManaged <- None
  Deletable <- None
  UserSpecs <- TwoSpecs
  Budgets <- SingleBudget
INVARIANTS
  TypeOK
  InFlightOwnerAlive
  ObservedMeansApplied
  NoLostEdit
PROPERTIES
  NoIdleWrites
  FinalizerHonoured
  ObservedNeverGoesBack
CHECK_DEADLOCK FALSE

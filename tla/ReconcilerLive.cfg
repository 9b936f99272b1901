SPECIFICATION FairSpec
CONSTANTS
  Clusters = {"a"}
  NoCluster = "none"
  Pipeline <- ExtenderPipeline
  HelmManaged <- Extender
  Deletable <- Extender
  UserSpecs <- PlainSpecs
  Budgets <- LiveBudget
INVARIANTS
  NoLostWakeup
PROPERTIES
  Converges
  Quiesces
  DeletionCompletes
CHECK_DEADLOCK FALSE

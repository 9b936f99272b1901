SPECIFICATION Spec
CONSTANTS
  Clusters = {a, b}
  NoCluster = NoCluster
  Pipeline <- PairPipeline
  HelmManaged <- None
  Deletable <- Plugin
  UserSpecs <- OneSpec
  Budgets <- ContentionBudgets
INVARIANTS
  OneController
PROPERTIES
  LeaseKept
SYMMETRY SameClusters
CHECK_DEADLOCK FALSE

SPECIFICATION Spec
CONSTANTS
  Clusters = {"a"}
  NoCluster = "none"
  Pipeline <- FullPipeline
  HelmManaged <- None
  Deletable <- None
  UserSpecs <- TwoSpecs
  Budgets <- ClaimBudget
INVARIANT
  UserCoresKept
CHECK_DEADLOCK FALSE

SPECIFICATION FairSpec
CONSTANTS
  MaxQueues = 2
  Capacity = 2
  Compute = {c1, c2, c3}
  Plain = {m1}
  Bad <- None
  Health = Health
  Nobody = Nobody
  Budget <- Undisturbed
PROPERTY
  JobsReturn
CHECK_DEADLOCK FALSE

SPECIFICATION FairSpec
CONSTANTS
  MaxQueues = 2
  Capacity = 2
  Compute = {c1}
  Plain = {m1, m2}
  Bad = {x1}
  Health = Health
  Nobody = Nobody
  Budget <- OneOfEach
INVARIANTS
  TypeOK
  NeverStuck
  NothingStranded
  SpreadEvenly
PROPERTIES
  Answered
  HealthGoesOn
CHECK_DEADLOCK FALSE

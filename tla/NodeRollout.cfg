SPECIFICATION FairSpec
CONSTANTS
  Nodes = {n1, n2}
  Budget = 3
INVARIANT
  TypeOK
PROPERTIES
  LeftForGood
  CountsCatchUp
  LabelledServes
  UnlabelledLeaves

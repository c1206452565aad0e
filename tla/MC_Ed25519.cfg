CONSTANTS
  s1 = s1
  s2 = s2
  m1 = m1
  Z = Z
  Bad = Bad
  Nil = Nil
  Foreign = Foreign
  Seeds <- MCSeeds
  Msgs <- MCMsgs
  Inputs <- MCInputs
  MaxArrays = 9
  MaxPubs = 1
SPECIFICATION Spec
INVARIANTS TypeOK NoSharedArrays
PROPERTY PrivateKeyOwnership

CONSTANTS
  n1 = n1
  n2 = n2
  n3 = n3
  n4 = n4
  None = None
  ConsensusSize = 4
  ElectionDistance = 3
  RoundValIndexSize = 2
  Elected <- MCElected
  Index <- MCIndex
  MaxNumber = 6
  LastView = 1
  MaxCrash = 1
SPECIFICATION Spec
INVARIANT NoUnknownEpoch
CHECK_DEADLOCK FALSE

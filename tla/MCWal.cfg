CONSTANTS
  t1 = t1
  t2 = t2
  Tx <- MCTx
  None = None
  N = 2
  Me = 1
  Amount = 2
  MaxNumber = 4
  MaxView = 1
  MaxCrash = 1
SPECIFICATION Spec
SYMMETRY TxSymmetry
INVARIANTS
  EveryCommitReachesChain
  RecoversView
  RecoversMessages
  SignsOnce
  RestartSucceeds
CHECK_DEADLOCK FALSE

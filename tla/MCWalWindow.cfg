CONSTANTS
  t1 = t1
  t2 = t2
  Tx <- MCTx
  None = None
  N = 2
  Me = 1
  Amount = 2
  MaxNumber = 4
  MaxView = 2
  MaxCrash = 1
SPECIFICATION Spec
SYMMETRY TxSymmetry
INVARIANTS
  NoViewRegress
CHECK_DEADLOCK FALSE

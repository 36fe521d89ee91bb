SPECIFICATION Spec
CONSTANTS
  Accounts <- MCAccounts
  Epochs <- MCEpochs
  Amounts = {1, 2}
  Plans <- MCPlans
  BlocksPerEpoch = 1
  InitialBalance <- MCBalance
  Nodes = {n1}
  StakeThresholds <- MCRaised
  OperatingThreshold = 1
  UnStakeFreezeDuration = 2
  ZeroProduceFreezeDuration = 1
  UnDelegateFreezeDuration = 1
  MaxEvidenceAge = 1
  SlashBlocksReward = 0
  SlashFractionDuplicateSign = 10000
  DuplicateSignReportReward = 50
  EndVoteEpoch = 0
  EvidenceBlocks <- MCEvidence
  MaxBlock = 6
  MaxTxs = 5
  Senders = {"delegator"}
INVARIANT NeverFails
CHECK_DEADLOCK FALSE

SPECIFICATION Spec
CONSTANTS
  Accounts <- MCAccounts
  Epochs <- MCEpochs
  Amounts = {1, 2}
  Plans <- MCPlans
  BlocksPerEpoch = 1
  InitialBalance <- MCBalance
  Nodes = {n1}
  StakeThresholds <- MCThresholds
  OperatingThreshold = 1
  UnStakeFreezeDuration = 2
  ZeroProduceFreezeDuration = 1
  UnDelegateFreezeDuration = 2
  MaxEvidenceAge = 1
  SlashBlocksReward = 1
  SlashFractionDuplicateSign = 10000
  DuplicateSignReportReward = 50
  EndVoteEpoch = 0
  EvidenceBlocks <- MCEvidence
  MaxBlock = 6
  MaxTxs = 5
  Senders = {"delegator"}
INVARIANTS OwedOnlyWhenAdvanced NothingStuck Solvent AdvanceMatchesStakes NeverFails SharesMatchStakes DelegateTotalsMatch EveryExitIsScheduled
CHECK_DEADLOCK FALSE

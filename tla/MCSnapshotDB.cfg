SPECIFICATION Spec
CONSTANTS
    Block <- MCBlock
    Genesis = 0
    Parent <- MCParent
    Number <- MCNumber
    Final <- MCFinal
    Touch <- MCTouch
    Wipe <- MCWipe
    Key = {1, 2, 3}
    Own = {3}
    ZeroHash = 99
    kvLIMIT = 2
    MaxBlockCompaction = 2
    MaxBlockNotCompactionSync = 2
    MaxBlockTriggerCompaction = 3
    UnBlockNeedClean = 1
    WalChan = 1
    Lag = 1
    Reads <- MCReads
    Ranks <- MCRanks
    ReadCrash = 0
    MaxCrash = 1
INVARIANTS
    ReadsOwnChain
    GetAnswers
    RankingMatches
    CrashSafe
PROPERTIES
    ReplayEnds
    CommitsLogged
CHECK_DEADLOCK FALSE

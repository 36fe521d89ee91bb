SPECIFICATION Spec
CONSTANTS
    Block <- MCBlock
    Genesis <- MCGenesis
    Parent <- MCParent
    Number <- MCNumber
    Epoch <- MCEpoch
    ViewNumber <- MCViewNumber
    BlockIndex <- MCBlockIndex
    None <- MCNone
    Ready <- MCReady
    N = 4
    Me = 0
    Amount = 1
    EpochSize = 2
    MaxView = 1
    Views = 4
    EpochView = 2
    Outcomes <- MCOutcomes
INVARIANTS
    EpochKnown
    VotesExecuted
    NoMissedViewChange
CHECK_DEADLOCK FALSE

SPECIFICATION Spec
CONSTANTS
    Block <- MCBlock
    Genesis <- MCGenesis
    Parent <- MCParent
    Number <- MCNumber
    Epoch <- MCEpoch
    ViewNumber <- MCViewNumber
    BlockIndex <- MCBlockIndex
    None <- MCNone
    Ready <- MCReady
    N = 2
    Me = 1
    Amount = 2
    EpochSize = 10
    MaxView = 1
    Views = 2
    EpochView = 2
    Outcomes <- MCOutcomes
INVARIANTS
    LookupsHold
    NoWorkLeft
PROPERTIES
    ImplementsVoter
    ViewMonotonic
    SealsOnBase
CHECK_DEADLOCK FALSE

SPECIFICATION Spec
CONSTANTS
    Views = 5
    EpochView = 3
    Block <- MCBlock
    Genesis <- MCGenesis
    Parent <- MCParent
    Number <- MCNumber
    Epoch <- MCEpoch
    ViewNumber <- MCViewNumber
INVARIANTS Rooted ThreeLevels HighestInTree NoPanic
PROPERTIES CommitsThreeChain HighestMonotonic
CHECK_DEADLOCK FALSE

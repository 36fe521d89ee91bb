SPECIFICATION Spec
CONSTANTS
    Block <- MCBlock
    Genesis <- MCGenesis
    Parent <- MCParent
    Number <- MCNumber
    Epoch <- MCEpoch
    ViewNumber <- MCViewNumber
    BlockIndex <- MCBlockIndex
    Chain <- MCChain
    Validator = {n1, n2, n3}
    Quorum <- MCQuorum
    Amount = 2
    ChangeView = {1}
SYMMETRY Sym
INVARIANTS
    OneCertificate
    Finality
CHECK_DEADLOCK FALSE

SPECIFICATION Spec
CONSTANTS
    Workers = {w1, w2}
    Clients = {c1, c2}
    N = 13
    C1Sizes <- MCC1Sizes
    C2Sizes <- MCC2Sizes
    WrongAt <- MCWrongAt
    WrongBytes <- MCWrongBytes
    Keeping = {}
    Nobody = Nobody
SYMMETRY Symmetry
INVARIANTS
    TypeOK
    OwnBytesBack
PROPERTIES
    HonestCompletes
    WrongRefused
CHECK_DEADLOCK FALSE

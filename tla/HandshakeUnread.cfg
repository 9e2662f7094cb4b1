SPECIFICATION Spec
CONSTANTS
    Workers = {w1}
    Clients = {c1, c2}
    N = 13
    C1Sizes <- MCC1Sizes
    C2Sizes <- MCC2SizesFailing
    WrongAt <- MCWrongAt
    WrongBytes <- MCWrongBytes
    Keeping = {w1}
    Nobody = Nobody
INVARIANTS
    CompletedMeansReturned
CHECK_DEADLOCK FALSE

SPECIFICATION Spec
CONSTANTS
    Cells = {c1, c2, c3, c4}
    NoCell = NoCell
    Local = Local
    Calls <- MCCalls
SYMMETRY Symmetric
INVARIANTS
    TypeOK
    OwnMemory
    NothingLost
    AllOrNothing
CHECK_DEADLOCK FALSE

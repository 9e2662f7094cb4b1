SPECIFICATION ThreadSpec
CONSTANTS
    Workers = {w1, w2}
    FDs = {f1, f2, f3}
    NoFD = NoFD
    MaxQueue = 1
    MaxSpurious = 1
INVARIANTS
    TypeOK
    OneOwner
    WakeupsBacked
PROPERTIES
    HandOffSpec
    HeadServed
    SilentHoldOwnWorker
CHECK_DEADLOCK FALSE

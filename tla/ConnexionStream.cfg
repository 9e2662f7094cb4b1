SPECIFICATION FairSpec
CONSTANTS
    Streams <- MCStreams
    BufSize = 8
    MaxMessages = 2
INVARIANTS
    TypeOK
    ClosedOnce
    InStep
    NoConnectMissed
    RepliesEarned
    AckSent
PROPERTIES
    ConnexionEnds
CHECK_DEADLOCK FALSE

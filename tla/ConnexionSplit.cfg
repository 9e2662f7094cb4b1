SPECIFICATION Spec
CONSTANTS
    Streams <- MCStreams
    BufSize = 8
    MaxMessages = 2
INVARIANTS
    EveryByteProcessed
CHECK_DEADLOCK FALSE

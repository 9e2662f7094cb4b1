SPECIFICATION Spec
CONSTANTS
    ChunkStreams <- MCChunkStreams
    Timestamps <- MCTimestamps
    Lengths <- MCLengths
    TypeIds <- MCTypeIds
    StreamIds <- MCStreamIds
    Bodies <- MCBodies
    Stacks <- MCStacks
INVARIANTS
    TypeOK
    ClientHeaderRead
    ServerHeaderRead
CHECK_DEADLOCK FALSE

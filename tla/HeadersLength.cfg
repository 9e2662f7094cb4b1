SPECIFICATION Spec
CONSTANTS
    ChunkStreams <- MCChunkStreams
    Timestamps <- MCTimestamps
    Lengths <- MCLengths
    TypeIds <- MCTypeIds
    StreamIds <- MCStreamIds
    Bodies <- MCBodies
    Stacks <- MCStacks
INVARIANTS
    LengthAnnounced
CHECK_DEADLOCK FALSE

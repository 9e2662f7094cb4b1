SPECIFICATION FairSpec
CONSTANTS
    Packets <- MCPackets
    Cuts <- MCCuts
    Behind <- MCBehind
    MaxValues = 3
    MaxCut = 24
INVARIANTS
    TypeOK
    Faithful
    HeadersCounted
    CommandKept
PROPERTIES
    DecoderEnds
CHECK_DEADLOCK FALSE

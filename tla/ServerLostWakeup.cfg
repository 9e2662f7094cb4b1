SPECIFICATION FairSpec
CONSTANTS
    Workers = {w1}
    FDs = {f1, f2}
    NoFD = NoFD
    MaxQueue = 1
    MaxSpurious = 0
PROPERTIES
    EveryRequestTaken
CHECK_DEADLOCK FALSE

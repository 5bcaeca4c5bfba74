SPECIFICATION FairSpec
CHECK_DEADLOCK FALSE
CONSTANTS
    h1 = h1
    h2 = h2
    Kind <- Audio
    Frames = 3
    Buffer = 2
    Handlers = {h1}
    Ranges <- MCRanges
    MaxRequests = 2
PROPERTIES
    PauseHalts

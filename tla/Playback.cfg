SPECIFICATION FairSpec
CHECK_DEADLOCK FALSE
CONSTANTS
    h1 = h1
    h2 = h2
    Kind <- VideoAndAudio
    Frames = 3
    Buffer = 2
    Handlers = {h1, h2}
    Ranges <- MCRanges
    MaxRequests = 3
INVARIANTS
    TypeOK
    TracksAgree
    AnsweredRange
    OneFrameBehindEnd
PROPERTIES
    TickEnds
    PlayingStops

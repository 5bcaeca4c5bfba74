SPECIFICATION Spec
CHECK_DEADLOCK FALSE
CONSTANTS
    c1 = c1
    c2 = c2
    s1 = s1
    s2 = s2
    Clients = {c1, c2}
    Sessions = {s1, s2}
    EvenPorts <- TwoPorts
    Sdp <- SampleSdp
    MaxTracks = 2
    NoSession = NoSession
    Urls <- MCUrls
    Transports <- MCTransports
SYMMETRY Symmetry
INVARIANTS
    TypeOK
    PortExclusive
    NoPortForgotten
    PairsAnnounced
    NoServiceAfterTeardown
    NoTrackUnnamed

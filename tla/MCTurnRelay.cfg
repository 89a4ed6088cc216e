SPECIFICATION Spec
CONSTANTS
    pa = pa
    pb = pb
    None = None
    Count = 2
    Streams = {1}
    Conns = {1, 2}
    Peers = {pa, pb}
    Signalled = {pa}
    MinChannel = 1
    MaxChannel = 1
    Width = 3
    RelayAllowed = TRUE
    Probing = TRUE
    MaxRestarts = 1
    MaxQueue = 2
INVARIANTS
    TypeOK
    NoTimerLost
    RelayUsable
    ChannelsAgree
PROPERTIES
    AllocationKept
    WalkEnds

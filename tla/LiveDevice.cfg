SPECIFICATION FairSpec
CONSTANTS
    d1 = d1
    d2 = d2
    c1 = c1
    c2 = c2
    Devices = {d1, d2}
    Channels = {c1, c2}
    Tp <- MCTp
    Streamers = {1, 2}
    Priorities = {0, 5}
    Local = {3}
    First <- MCFirst
    None = None
    MaxTunes = 2
    FirstLive <- MCLive
    MaxEvents = 1
INVARIANTS
    AtItsDevice
PROPERTIES
    LostEnds
CHECK_DEADLOCK FALSE

SPECIFICATION PidsFairSpec
CONSTANTS
    MaxPids = 5
    Pids = {1, 2, 3, 4, 5, 6}
    PmtPids = {6, 7}
    Garbage = {0, 1}
    Types = {"TS", "TSPIDS"}
    Ppid = 3
    Versions = 2
    MaxChange = 3
    ChannelPids <- MCChannelPids
    SiPids <- MCSiPids
    Contents <- MCContents
INVARIANTS
    AskedReceived
PROPERTIES
    FollowsPmt

CONSTANTS
    Pkt = 2
    RecvSize = 12
    RemuxSize = 10
    SiSize = 6
    Dgram = FALSE
    DgramPkts = 1
    MaxIdle = 1
    MaxStall = 1
    MaxRecv = 5
    MaxSi = 1
    MaxReattach = 1
    Prebuffer = TRUE
SPECIFICATION FairSpec
INVARIANTS
    BlockValid
    InOrder
PROPERTIES
    ImplementsFifo
    ThreadsEnd
    EverythingFlows
CHECK_DEADLOCK FALSE

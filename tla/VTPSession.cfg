CONSTANTS
    main = main
    device = device
    Threads <- MCThreads
    Calls <- MCCalls
    Channels = {1, 2}
    Priorities = {5}
    MaxOps = 4
    MaxConns = 2
    MaxFaults = 2
    MaxEvents = 5
SPECIFICATION FairSpec
INVARIANTS
    AnswersMatch
    RightChannel
PROPERTY CallsReturn
\* So many calls are made; CallsReturn says that none stops half way.
CHECK_DEADLOCK FALSE

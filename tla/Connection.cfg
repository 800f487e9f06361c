SPECIFICATION FairSpec
CONSTANTS
    Size = 8
    OutSize = 6
    Clients <- MCWellBehaved
    ListLen = 3
    MaxLines = 3
INVARIANTS
    CommandsAreLines
    AnswersInOrder
    DeferredCloseFlushes
PROPERTIES
    LinesAnswered

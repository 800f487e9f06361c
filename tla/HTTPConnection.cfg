CONSTANTS
    Requests <- MCRequests
    Lists <- MCLists
    Offset = 3
    MaxChanges = 1
SPECIFICATION HTTPFairSpec
INVARIANTS
    WellNested
    PageExact
    StreamAfterHeader
    StartsAsAsked
PROPERTY AnswerEnds

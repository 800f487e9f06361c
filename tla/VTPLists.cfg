SPECIFICATION ListsFairSpec
CONSTANTS
    Objects = {1, 2, 3}
    NamedSets = {{1, 3}}
    Recs = {1, 2}
    Epgs <- MCEpgs
    Now = 2
    Ends = {0, 2}
    MaxTimers = 2
    MaxCmds = 2
    MaxChanges = 1
INVARIANTS
    OneAnswer
    ListingExact
    UndefinedOnlyIf
    ReferencesKept
PROPERTIES
    ListEnds

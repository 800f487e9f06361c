CONSTANTS
    one = one
    two = two
    only = only
    both = both
    Tables <- MCTables
    Keys <- MCKeys
    Matches <- MCMatches
    Sizes <- MCSizes
    Full = 2
    RingSize = 1
    WireSize = 1
    BufSize = 6
    PipeSize = 5
    MaxSections = 3
    MaxFilters = 2
    MaxSet = 2
    MaxFaults = 1
SPECIFICATION Spec
INVARIANTS
    SectionsWhole
    FiltersServed

SPECIFICATION FairSpec
CONSTANTS
    MaxSegments = 3
    MaxLength = 3
    MaxAmount = 3
    BufSize = 2
    MaxAsk = 4
INVARIANTS
    BytesRight
    RangesRight
PROPERTIES
    Complete

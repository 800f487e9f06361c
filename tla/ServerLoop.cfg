SPECIFICATION FairSpec
CONSTANTS
    Conns = {c1, c2}
    MaxClients = 1
    MaxDisconnects = 1
    None = None
INVARIANTS
    DeletedQuiet
    ServedWithin
PROPERTIES
    AllReleased

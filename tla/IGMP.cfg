SPECIFICATION FairSpec
CONSTANTS
    Groups = {g1}
    Streamable = {g1}
    Hosts = {h1}
    Conns = {c1, c2}
    None = None
INVARIANTS
    OneStream
    StreamHasGroup
    DeletedQuiet
PROPERTIES
    StreamsEnd

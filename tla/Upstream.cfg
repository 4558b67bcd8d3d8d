SPECIFICATION LiveSpec
CONSTANTS
    u1 = u1
    u2 = u2
    Addrs <- MCAddrs
    NoSource = NoSource
INVARIANTS
    QueryConsistent
PROPERTIES
    NothingLeft
    Returns

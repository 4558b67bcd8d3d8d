SPECIFICATION LiveSpec
CONSTANTS
    a = a
    b = b
    Queries <- MCQueries
    NoQuery = NoQuery
    MaxConns = 2
    IdSpace = 1
INVARIANTS
    Consistent
    OwnAnswer
PROPERTIES
    ReleasedWithConnection
    CloseEnds

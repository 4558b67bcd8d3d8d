SPECIFICATION Spec
CONSTANTS
    p = p
    q = q
    r1 = r1
    r2 = r2
    direct = direct
    hk = hk
    NoClient = NoClient
    NoRules = NoRules
    Down = Down
    Clients <- MCClients
    RuleSets <- MCRuleSets
    Exits <- MCExits
    Direct = direct
    TerminalCap = 1
    MaxVersions = 2
    MaxRows = 3
    MaxFaults = 1
    MaxCrashes = 0
    MayStall = FALSE
SYMMETRY MCSymmetry
INVARIANTS
    StoreConsistent
    PlanesAgree
    NothingLeaks
PROPERTIES
    CommitAfterHealth
    NoLostUpdate

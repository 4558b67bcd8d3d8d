SPECIFICATION Spec
CONSTANTS
    p = p
    q = q
    r1 = r1
    r2 = r2
    direct = direct
    hk = hk
    NoClient = NoClient
    NoRules = NoRules
    Down = Down
    Clients <- MCOneClient
    RuleSets <- MCRuleSets
    Exits <- MCExits
    Direct = direct
    TerminalCap = 1
    MaxVersions = 2
    MaxRows = 2
    MaxFaults = 2
    MaxCrashes = 1
    MayStall = TRUE
INVARIANTS
    ReferencesHold
    SubmittedIsExplained
PROPERTIES
    ImplementsConfigChange

SPECIFICATION LiveSpec
CONSTANTS
    p = p
    q = q
    r1 = r1
    r2 = r2
    direct = direct
    hk = hk
    NoClient = NoClient
    NoRules = NoRules
    Down = Down
    Clients <- MCOneClient
    RuleSets <- MCOneRuleSet
    Exits <- MCExits
    Direct = direct
    TerminalCap = 1
    MaxVersions = 1
    MaxRows = 1
    MaxFaults = 0
    MaxCrashes = 1
    MayStall = FALSE
PROPERTIES
    EveryApplyReported

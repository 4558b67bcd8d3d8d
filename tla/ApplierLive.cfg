SPECIFICATION LiveSpec
CONSTANTS
    p = p
    q = q
    r1 = r1
    r2 = r2
    direct = direct
    hk = hk
    NoClient = NoClient
    NoRules = NoRules
    Down = Down
    Clients <- MCClients
    RuleSets <- MCOneRuleSet
    Exits <- MCExits
    Direct = direct
    TerminalCap = 1
    MaxVersions = 1
    MaxRows = 2
    MaxFaults = 1
    MaxCrashes = 0
    MayStall = FALSE
PROPERTIES
    VariationEnds
    EveryApplyReported

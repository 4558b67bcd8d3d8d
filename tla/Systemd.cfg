SPECIFICATION Spec
CONSTANTS
    c1 = c1
    c2 = c2
    Configs <- MCConfigs
    BootConfig = c1
    Down = Down
INVARIANTS
    OrchTypeOK
    RolledBackRestores
    OkIsInForce
PROPERTIES
    LastGoodIsProven
    LifecycleEnds

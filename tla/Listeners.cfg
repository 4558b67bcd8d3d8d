SPECIFICATION ListenersLiveSpec
CONSTANTS
    MaxRestartsPerWindow = 2
    Confs <- MCConfs
CHECK_DEADLOCK FALSE
INVARIANTS
    FrontdoorConsistent
    PanelReachable
PROPERTIES
    PlainRecovers

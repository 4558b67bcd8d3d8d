SPECIFICATION LiveSpec
CONSTANTS
    Urls = {"u1", "u2"}
    Dated = {"u2"}
    Syncs = {"run", "asked"}
    MaxEdits = 4
    Bodies <- MCBodies
    Starts <- MCStarts
    Expansion <- MCExpansion
    Asked <- MCAsked
    ExitIds = {"direct"}
    RingCap = 2
    MaxApplies = 3
CHECK_DEADLOCK FALSE
INVARIANTS
    RulesConsistent
    TrackedTruthfully
PROPERTIES
    SyncConverges

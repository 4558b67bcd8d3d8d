SPECIFICATION Spec
CONSTANTS
    r1 = r1
    r2 = r2
    m1 = m1
    m2 = m2
    ReqSlots = {r1, r2}
    MtgSlots = {m1, m2}
    ProxyPatches <- MCProxyPatches
    GatePatches <- MCGatePatches
    Faces = {"plain", "shared"}
    Stores <- MCStores
    Questions <- MCQuestions
    MtgUpdates <- MCMtgUpdates
    Domains = {"d1", "d2"}
    Clients = {"lan"}
    MaxSecrets = 2
    MaxPublishes = 1
    MaxRequests = 3
    MaxCrashes = 1
SYMMETRY MCSymmetry
CHECK_DEADLOCK FALSE
INVARIANTS
    PanelConsistent
    AnswerExplained
    MtgConsistent

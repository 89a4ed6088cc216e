SPECIFICATION Spec
CONSTANTS
    h = h
    g = g
    sx = sx
    rl = rl
    a = a
    b = b
    c = c
    d = d
    NoNom = NoNom
    Locals = {h}
    Endpoints = {a}
    RelayLocals = {}
    RelayEnds = {}
    Pairable <- MCPairable
    Foundation <- MCFoundation
    Order <- MCOrder
    FamilyOf <- MCFamily
    LocalOrder <- MCLocalOrder
    Predicted <- NoPrediction
    MaxRetries = 2
    Cap = 2
    Lite = FALSE
    Aggressive = FALSE
    NominationWait = TRUE
    HostCands = {h}
    SrflxCand = h
    RelayCand = h
    RelayAllowed = TRUE
    HasStun = FALSE
    TurnServers = 0
    Roles = {TRUE}
    WinsTie = FALSE
    Signalled = {a}
    Ufrags = {1}
    ConsentMax = 2
    MaxRecovery = 1
    MaxAttempts = 2
    MaxInputs = 1
PROPERTIES
    NomineeNotAbandoned
CHECK_DEADLOCK FALSE

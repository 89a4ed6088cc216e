SPECIFICATION FairSpec
CONSTANTS
    h = h
    g = g
    sx = sx
    rl = rl
    a = a
    b = b
    c = c
    d = d
    NoNom = NoNom
    Locals = {h, g}
    Endpoints = {a, b, c, d}
    RelayLocals = {}
    RelayEnds = {}
    Pairable <- MCPairable
    Foundation <- MCFoundation
    Order <- MCOrder
    FamilyOf <- MCFamily
    LocalOrder <- MCLocalOrder
    Predicted <- PredictC
    MaxRetries = 2
    Cap = 2
    Lite = FALSE
    Aggressive = FALSE
    NominationWait = TRUE
    HostCands = {h, g}
    SrflxCand = h
    RelayCand = h
    RelayAllowed = TRUE
    HasStun = FALSE
    TurnServers = 0
    Roles = {TRUE, FALSE}
    WinsTie = TRUE
    Signalled = {a, b, d}
    Ufrags = {1}
    ConsentMax = 2
    MaxRecovery = 0
    MaxAttempts = 2
    MaxInputs = 2
INVARIANTS
    ConsentWatched
    RestartBudget
    CapRespected
PROPERTY
    CheckingEnds
CHECK_DEADLOCK FALSE

SPECIFICATION Spec
CONSTANTS
    pk = pk
    i1 = i1
    i2 = i2
    c1 = c1
    c2 = c2
    t1 = t1
    t2 = t2
    None = None
    Peers = {pk}
    Ids = {i1, i2}
    Cids = {c1, c2}
    Threads = {t1, t2}
    MaxSessions = 3
SYMMETRY Symmetry
INVARIANTS TypeOK MapsAgree ReportedOnce RemovedIsDead ShutdownReportsAll AcceptedOnce
CHECK_DEADLOCK FALSE

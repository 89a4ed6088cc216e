SPECIFICATION Spec
CONSTANTS
    Base = 1200
    SearchSteps <- MCSteps
    Granularity = 8
    LossThreshold = 2
    PathMtus <- MCPaths
    MaxNominations = 2
    MaxLate = 1
INVARIANTS TypeOK SearchBracket PublishedWasCarried SearchIsTight
PROPERTIES PublishedGrows SearchFinishes
CHECK_DEADLOCK FALSE

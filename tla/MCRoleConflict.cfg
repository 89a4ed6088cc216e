SPECIFICATION FairSpec
CONSTANTS
    a1 = a1
    a2 = a2
    p1 = p1
    Agents = {a1, a2}
    Pairs = {p1}
    Tiebreaker <- Distinct
    MaxRetries = 2
    MaxLosses = 1
INVARIANT TypeOK
PROPERTIES WinnerKeepsRole RolesSettle
CHECK_DEADLOCK FALSE

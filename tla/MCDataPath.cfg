SPECIFICATION Spec
CONSTANTS
    MaxFrames = 6
    MaxOutages = 1
    MaxCopies = 2
    PendingMax = 2
    Window = 2
    Modulus = 8
INVARIANTS TypeOK DeliveredInOrder ParkedIsNewest
PROPERTY AllArrive
CHECK_DEADLOCK FALSE

SPECIFICATION Spec
CONSTANTS
    Senders = {s1, s2}
    MaxMessages = 2
    MaxTurns = 3
    MaxRuns = 2
    StoreMayFail = TRUE
SYMMETRY Symmetry
INVARIANTS
    InflightSound
    NothingLost
    InOrder
CHECK_DEADLOCK FALSE

SPECIFICATION Spec
CONSTANTS
    Tasks = {t1, t2}
    Handoff = {t2}
    Workers = {w1, w2}
    Commands = {a, b}
    MaxWorkers = 1
    MaxRounds = 2
    MaxDispatches = 2
    Employed = {w1}
    Asking = {1}
    MaxFaults = 1
    SharedFails = FALSE
INVARIANTS
    WorkersSound
    NoReplay
    ReportsAuthorised
PROPERTY
    OutcomeStands
SYMMETRY CommandsAlike
CHECK_DEADLOCK FALSE

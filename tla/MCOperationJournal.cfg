SPECIFICATION Spec
CONSTANTS
    Runtimes = {r1, r2, r3}
    Active = {r1}
    MaxOperations = 2
    MaxEffects = 2
    MaxRows = 3
    MaxFailures = 1
    LookupMayFail = TRUE
SYMMETRY Symmetry
INVARIANTS
    JournalSound
    SuccessHappened
    RecoveryIsFinal
PROPERTIES
    OutcomesStand
    OnlyTheLost
CHECK_DEADLOCK FALSE

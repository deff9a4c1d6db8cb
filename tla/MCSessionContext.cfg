SPECIFICATION ContextSpec
CONSTANTS
    MaxEntries = 5
    MaxOther = 2
INVARIANTS
    CompactionSound
    LiveIsStored
CHECK_DEADLOCK FALSE

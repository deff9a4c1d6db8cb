SPECIFICATION FairSpec
CONSTANTS
    Tasks = {t1, t2}
    External = {t2}
    MaxThreads = 1
    MaxSteers = 2
INVARIANTS
    TasksSound
    SteeringKept
    QuietAfterShutdown
PROPERTIES
    EndStands
CHECK_DEADLOCK FALSE

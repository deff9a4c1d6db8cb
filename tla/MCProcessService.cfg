SPECIFICATION FairSpec
CONSTANTS
    Procs = {p1, p2}
    MaxActive = 1
    MaxSize = 1
    MaxLive = 1
    MaxFaults = 1
    Disturbed = {p1}
    Unkillable = {p2}
INVARIANTS
    RecordsSound
    OnlyFailedStartsSurvive
PROPERTIES
    TerminalStands
    StopsEnd
    
CHECK_DEADLOCK FALSE

SPECIFICATION FairSpec
CONSTANTS
    Publishers = {p1}
    Closers = {c1, c2}
    Consumer = Consumer
    Tool = Tool
    Capacities = {1, 2}
    MaxUpdates = 4
    None = None
    Sentinel = Sentinel
INVARIANTS
    QueueSound
    CloseDeliversAccepted
PROPERTIES
    CloseSettles
CHECK_DEADLOCK FALSE

SPECIFICATION Spec
CONSTANTS
    Callers = {t1, t2}
    None = None
    MaxUsers = 2
    MaxTurns = 2
    MaxCalls = 2
    SinkMayFail = TRUE
INVARIANTS
    ConversationSound
    MessagesDelivered
    RequestRepaired
    LeaseExclusive
    LeaseNeverStuck
SYMMETRY CallersAlike
CHECK_DEADLOCK FALSE

SPECIFICATION StoreSpec
CONSTANTS
    Stores = {s1, s2}
    NoStore = NoStore
    MaxEntries = 4
    MaxFaults = 2
    Cuts = {1, 2, 3}
SYMMETRY StoreSymmetry
CONSTRAINT FewRecords
INVARIANTS
    FileSound
    AcknowledgedKept
    OneConversation
PROPERTY SelectionHonoured
CHECK_DEADLOCK FALSE

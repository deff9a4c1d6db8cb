SPECIFICATION StoreSpec
CONSTANTS
    Stores = {s1, s2}
    NoStore = NoStore
    MaxEntries = 3
    MaxFaults = 1
    Cuts = {0, 1, 2, 3}
SYMMETRY StoreSymmetry
INVARIANT NothingLost
CHECK_DEADLOCK FALSE

SPECIFICATION ContextSpec
CONSTANTS
    MaxEntries = 5
    MaxOther = 0
INVARIANT SummarisesDiscarded
CHECK_DEADLOCK FALSE

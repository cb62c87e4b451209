SPECIFICATION FairUsageSpec
CONSTANTS
    Keys = {k1, k2}
    KeepDays = 1
    MaxBufferedKeys = 2
    StoreFails = TRUE
    MaxDay = 3
    MaxEvents = 3
INVARIANTS
    CountedOnce
    DrainLeavesNoCounts
PROPERTIES
    WaitNilIsFinal
    FlushedEventually
CHECK_DEADLOCK FALSE

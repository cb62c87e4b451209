SPECIFICATION UsageSpec
CONSTANTS
    Keys = {k1}
    KeepDays = 1
    MaxBufferedKeys = 2
    StoreFails = FALSE
    MaxDay = 2
    MaxEvents = 2
INVARIANT CancelKeepsCounts
CHECK_DEADLOCK FALSE

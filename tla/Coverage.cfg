SPECIFICATION CoverageSpec
CONSTANTS
    MaxWrites = 2
    MaxRows = 1
    MaxSamples = 3
    MaxTime = 2
INVARIANTS
    NewestRowsKept
    NoReuseAfterDrain
PROPERTY WaitNilIsFinal
CHECK_DEADLOCK FALSE

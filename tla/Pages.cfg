SPECIFICATION PagesSpec
CONSTANTS
    Ids = {1, 2, 3, 4}
    Times = {1, 2}
    DefaultLimit = 1
    MaxLimit = 2
    Limits = {0, 2}
    QueueLimit = 2
INVARIANTS
    PagingExact
    QueueCountExact
CHECK_DEADLOCK FALSE

SPECIFICATION IntakeSpec
CONSTANTS
    Requests = {r1, r2}
    Clients = {c1, c2}
    NoClient = NoClient
    Window = 5
    MaxPerWin = 1
    GlobalMax = 2
    SweepEvery = 1
    MaxPending = 1
    CheckInterval = 2
    RetryInterval = 1
    RequestLife = 1
    MaxTime = 7
SYMMETRY IntakeSymmetry
INVARIANTS
    BudgetsHold
    OvershootBounded
CHECK_DEADLOCK FALSE

SPECIFICATION FairWorkerSpec
CONSTANTS
    NoSub = NoSub
    Subs = {s1, s2}
    Handlers = {h1, h2}
    Stoppers = {p1, p2}
    BufferSize = 1
    Cancelable = TRUE
INVARIANTS
    NoPanic
    ConsumedOnce
    CleanStopIsComplete
    TimedOutStopMissesOnlyCur
    CancelDrainsBuffer
PROPERTIES
    ImplementsQueue
    CallsReturn
    AcceptedIsSettled
CHECK_DEADLOCK FALSE

SPECIFICATION FairServerSpec
CONSTANTS
    NoSub = NoSub
    Main = Main
    Subs = {s1, s2}
    Handlers = {h1, h2}
    Stoppers = {Main}
    BufferSize = 1
    Cancelable = FALSE
INVARIANTS
    NothingSilentlyLost
    ApprovalEnqueuedOnce
PROPERTIES
    ImplementsLifecycle
    ShutdownTerminates
    ApprovalIsSettled
CHECK_DEADLOCK FALSE

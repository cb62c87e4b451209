SPECIFICATION ServerSpec
CONSTANTS
    NoSub = NoSub
    Main = Main
    Subs = {s1, s2}
    Handlers = {h1, h2}
    Stoppers = {Main}
    BufferSize = 1
    Cancelable = FALSE
SYMMETRY ServerSymmetry
INVARIANT TeardownOnEveryReturn
CHECK_DEADLOCK FALSE

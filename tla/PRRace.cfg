SPECIFICATION PRSpec
CONSTANTS
    NoSub = NoSub
    Edit = Edit
    Subs = {s1}
    Runners = {worker, cli}
    MaxEdits = 2
SYMMETRY PRSymmetry
INVARIANT BranchOnlyAddsOwnBlock

SPECIFICATION Spec
CONSTANTS
    Procs = {p1, p2, p3}
    Dirs = {d1, d2}
    MaxEpoch = 3
    MaxInode = 2
    MaxCalls = 1
    WithActivation = FALSE
SYMMETRY Symmetry
INVARIANTS LeaseExclusive SoleExecutor KnowsEveryCall
CHECK_DEADLOCK FALSE

SPECIFICATION AdmissionSpec
CONSTANTS
    Procs = {p1, p2, p3}
    Dirs = {d1}
    MaxEpoch = 2
    MaxInode = 1
    MaxCalls = 0
    WithActivation = TRUE
    MaxSubmit = 4
    MaxJobs = 1
    MaxIntents = 0
    MaxRestarts = 1
    Keys = {"k"}
    NoKey = "none"
    MachineActions = {}
    WithLegacy = TRUE
SYMMETRY Symmetry
INVARIANTS KeyStartsOnce LegacyQuarantined
CHECK_DEADLOCK FALSE
PROPERTY LeaseSpec

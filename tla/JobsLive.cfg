SPECIFICATION FairSpec
CONSTANTS
    MaxSubmit = 1
    MaxJobs = 1
    MaxIntents = 3
    MaxRestarts = 1
    Keys = {}
    NoKey = NoKey
    MachineActions = {"create", "delete"}
    WithLegacy = FALSE
INVARIANTS CleanMeansProved ReconciledMeansProved
PROPERTIES JobEnds AdmissionReopens
CHECK_DEADLOCK FALSE

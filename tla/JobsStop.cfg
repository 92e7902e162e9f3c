SPECIFICATION Spec
CONSTANTS
    MaxSubmit = 1
    MaxJobs = 1
    MaxIntents = 1
    MaxRestarts = 0
    Keys = {}
    NoKey = NoKey
    MachineActions = {}
    WithLegacy = FALSE
PROPERTY StopBlocksCall
CHECK_DEADLOCK FALSE

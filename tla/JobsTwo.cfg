SPECIFICATION Spec
CONSTANTS
    MaxSubmit = 2
    MaxJobs = 2
    MaxIntents = 1
    MaxRestarts = 1
    Keys = {}
    NoKey = NoKey
    MachineActions = {}
    WithLegacy = FALSE
INVARIANTS TypeOK OneExecutor CallsAreJournalled UnprovedIsReviewedFirst AtMostOneLateCall
PROPERTY TerminalIsFinal
CHECK_DEADLOCK FALSE

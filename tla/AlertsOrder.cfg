SPECIFICATION Spec
CONSTANTS
    Problems = {p}
    Events = {}
    NoProblem = NoProblem
    Channels = {c}
    Silences = {}
    Selects <- SelectsAll
    Severities = {3}
    RouteSets <- RoutesPlain
    LegacyTelegram = {}
    MaxAlerts = 2
    MaxTransitions = 2
    MaxSerials = 0
    MaxEdits = 1
    MaxFailures = 0
    MaxRestarts = 0
    MaxRetries = 0
    MaxTrouble = 9
    MaxAttempts = 2
    MaxDeliveries = 4
    MaxActive = 1
    MaxResolved = 1
PROPERTIES LatestAlertLast
CHECK_DEADLOCK FALSE

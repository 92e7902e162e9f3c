SPECIFICATION FairSpec
CONSTANTS
    Problems = {p}
    Events = {}
    NoProblem = NoProblem
    Channels = {c}
    Silences = {q}
    Selects <- SelectsAll
    Severities = {3}
    RouteSets <- RoutesPlain
    LegacyTelegram = {}
    MaxAlerts = 1
    MaxTransitions = 2
    MaxSerials = 0
    MaxEdits = 2
    MaxFailures = 0
    MaxRestarts = 1
    MaxRetries = 0
    MaxTrouble = 9
    MaxAttempts = 1
    MaxDeliveries = 2
    MaxActive = 1
    MaxResolved = 1
PROPERTIES EveryNoticeIsDecided
CHECK_DEADLOCK FALSE

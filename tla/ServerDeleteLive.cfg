SPECIFICATION FairSpec
CONSTANTS
    api = api
    sweep = sweep
    Drivers = {sweep}
    Sweep = sweep
    MaxRedrive = 1
    MaxAttempts = 2
    MaxRequests = 0
    MaxDisconnects = 1
    MaxCrashes = 0
    MaxRestarts = 1
    MaxFaults = 1
    MaxLags = 0
    MaxInbox = 0
    LoseCommands = FALSE
    LoseLeases = FALSE
PROPERTIES DeleteConverges TerminalIsFinal
CHECK_DEADLOCK FALSE

SPECIFICATION FairSpec
CONSTANTS
    api = api
    sweep = sweep
    Drivers = {sweep}
    Sweep = sweep
    MaxRedrive = 1
    MaxAttempts = 1
    MaxRequests = 0
    MaxDisconnects = 1
    MaxCrashes = 0
    MaxRestarts = 0
    MaxFaults = 1
    MaxLags = 0
    MaxInbox = 0
    LoseCommands = TRUE
    LoseLeases = FALSE
PROPERTY DeleteConverges
CHECK_DEADLOCK FALSE

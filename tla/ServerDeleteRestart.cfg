SPECIFICATION Spec
CONSTANTS
    api = api
    sweep = sweep
    Drivers = {sweep}
    Sweep = sweep
    MaxRedrive = 0
    MaxAttempts = 1
    MaxRequests = 0
    MaxDisconnects = 0
    MaxCrashes = 0
    MaxRestarts = 1
    MaxFaults = 1
    MaxLags = 0
    MaxInbox = 0
    LoseCommands = TRUE
    LoseLeases = FALSE
INVARIANT DeletedIsGone
CHECK_DEADLOCK FALSE

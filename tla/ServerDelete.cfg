SPECIFICATION Spec
CONSTANTS
    api = api
    sweep = sweep
    Drivers = {api, sweep}
    Sweep = sweep
    MaxRedrive = 0
    MaxAttempts = 1
    MaxRequests = 1
    MaxDisconnects = 1
    MaxCrashes = 1
    MaxRestarts = 0
    MaxFaults = 2
    MaxLags = 1
    MaxInbox = 0
    LoseCommands = TRUE
    LoseLeases = TRUE
INVARIANT TypeOK
INVARIANT DeletedIsGone
CHECK_DEADLOCK FALSE

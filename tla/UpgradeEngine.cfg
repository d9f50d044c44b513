SPECIFICATION FairSpec
CONSTANTS
    MaxRelease = 3
    Schema <- SchemaValues
    MaxAttempts = 2
    MaxChain = 4
    MaxFaults = 3
INVARIANTS TypeOK ClosedIsWhole RollbackIsPossible
PROPERTIES CommittedIsTarget UnfinishedIsClosed
CHECK_DEADLOCK FALSE

SPECIFICATION FairSpec
CONSTANTS
    create = create
    stop = stop
    delete = delete
    Commands = {create, stop, delete}
    NoCommand = NoCommand
    Effect <- MCEffect
    MaxEntries = 2
    WriteFaults = {"lost", "late"}
    MaxRuns = 2
INVARIANTS TypeOK ExecutedAtMostOnce RestoreIsSound SequenceNamesOneEvidence
PROPERTIES ImplementsOnceExecutor ExecutedIsReported

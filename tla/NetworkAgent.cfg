SPECIFICATION Spec
CONSTANTS
    apply = apply
    again = again
    remove = remove
    Commands = {apply, again, remove}
    NoCommand = NoCommand
    Effect <- MCEffect
    Rank <- MCRank
    Held <- MCHeld
    Identity <- MCIdentity
    Initial = "none"
    Partial = "partial"
    MaxToken = 2
    TTL = 1
    WriteFaults = {"lost", "late"}
    HostFaults = TRUE
    MaxRuns = 2
    MaxTasks = 1
SYMMETRY AttemptSymmetry
INVARIANTS TypeOK MutatedAtMostOnce
PROPERTIES ImplementsOnceExecutor AdmissionsFollowFence SuccessIsRealised

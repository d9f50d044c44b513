SPECIFICATION FairSpec
CONSTANTS
    s1 = s1
    s2 = s2
    k1 = k1
    k2 = k2
    Sessions = {s1, s2}
    NoSession = NoSession
    Keys = {k1, k2}
    HandoffKeys = {k1}
    TTL = 1
    MaxToken = 2
INVARIANTS TypeOK HandoffFenceUnique
PROPERTIES
    FenceAdvancesOnHandoff
    LiveOwnerUndisturbed
    AbandonedLeaseReclaimed
    CrashedSessionDelisted

SPECIFICATION Spec
CONSTANTS
    s1 = s1
    s2 = s2
    r1 = r1
    r2 = r2
    r3 = r3
    p1 = p1
    p2 = p2
    b0 = b0
    b1 = b1
    b2 = b2
    Providers = {p1, p2}
    Servers = {s1, s2}
    Requests = {r1, r2, r3}
    ServerOf <- ServerOfValues
    Bodies = {b0, b1, b2}
    Contents <- MixedKinds
    Size <- SizeValues
    Totals = {1}
    None = None
    Faults = {"crash", "startup", "refuse", "list", "fail", "error", "delete", "agent", "operator"}
    MaxFaults = 1
    MaxLives = 2
SYMMETRY RequestSymmetry
INVARIANTS TypeOK UsedIsAllocated LiveIsBacked NothingLeaked
PROPERTIES CommitsFit
CHECK_DEADLOCK FALSE

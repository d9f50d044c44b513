SPECIFICATION Spec
CONSTANTS
    s1 = s1
    s2 = s2
    r1 = r1
    r2 = r2
    r3 = r3
    p1 = p1
    p2 = p2
    b0 = b0
    b1 = b1
    b2 = b2
    Providers = {p1, p2}
    Servers = {s1, s2}
    Requests = {r1, r2}
    ServerOf <- TwoRequests
    Bodies = {b0, b1, b2}
    Contents <- Older
    Size <- SizeValues
    Totals = {0, 1}
    None = None
    Faults = {"delete"}
    MaxFaults = 1
    MaxLives = 2
PROPERTIES LiveKeepsAllocation
CHECK_DEADLOCK FALSE

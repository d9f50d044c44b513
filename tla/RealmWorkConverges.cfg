SPECIFICATION FairSpec
CONSTANTS
    k1 = k1
    k2 = k2
    Controllers = {k1}
    Nobody = Nobody
    NoCommand = NoCommand
    MaxGeneration = 2
    MaxToken = 6
    Faults = {"connect"}
    MaxFaults = 1
PROPERTY RealmConverges

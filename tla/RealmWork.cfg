SPECIFICATION Spec
CONSTANTS
    k1 = k1
    k2 = k2
    Controllers = {k1, k2}
    Nobody = Nobody
    NoCommand = NoCommand
    MaxGeneration = 2
    MaxToken = 3
    Faults = {"connect","transport","expiry","controller","agent","tick"}
    MaxFaults = 1
SYMMETRY ControllerSymmetry
INVARIANTS TypeOK ReportedIsHeld OneUnresolved SupersededNotAdmitted
PROPERTIES PlansAdvance NotFoundFences

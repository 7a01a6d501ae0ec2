CONSTANTS
    r1 = r1
    r2 = r2
    r3 = r3
    Requests <- ThreeRequests
    High <- OneHigh
    NoIP <- OneWithoutIP
    Threshold = 1
    MaxFaults = 2
    MaxEdits = 2
SPECIFICATION FairSpec
INVARIANTS
    VelocityIsBounded
PROPERTIES
    BarredIsDeclined
    WindowEnds

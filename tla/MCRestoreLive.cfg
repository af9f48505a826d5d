CONSTANTS
    NumPaths = 1
    Bytes = {a, b, Absent}
    Absent = Absent
    MaxOps = 1
    MaxEdits = 2
    MaxWrites = 0
    MaxTurns = 1
    MaxAppends = 0
    MaxFaults = 2
    MaxCrashes = 2
SPECIFICATION FairSpec
CHECK_DEADLOCK FALSE
PROPERTIES
    EventuallyResolved

CONSTANTS
    NumPaths = 2
    Bytes = {a, b, Absent}
    Absent = Absent
    MaxOps = 1
    MaxEdits = 1
    MaxWrites = 0
    MaxTurns = 1
    MaxAppends = 0
    MaxFaults = 1
    MaxCrashes = 1
SPECIFICATION Spec
SYMMETRY Symmetry
CHECK_DEADLOCK FALSE
INVARIANTS
    TypeOK
PROPERTIES
    ClearedOnlyWhenDecided
    NoTornRestore
    OverwrittenBytesAreCommitted

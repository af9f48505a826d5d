CONSTANTS
    Bytes = {b1, b2, b3, b4}
    Absent = Absent
    Partial = Partial
    MaxEdits = 1
    MaxFaults = 1
    MaxDeaths = 1
SPECIFICATION Spec
SYMMETRY Symmetry
CHECK_DEADLOCK FALSE
INVARIANT UndisturbedRecoveryDecides

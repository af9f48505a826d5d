CONSTANTS
    Bytes = {b1, b2, b3, b4, b5}
    Absent = Absent
    Partial = Partial
    MaxEdits = 3
    MaxFaults = 2
    MaxDeaths = 3
SPECIFICATION Spec
SYMMETRY Symmetry
CHECK_DEADLOCK FALSE
INVARIANTS TypeOK FailedApplyUndone SuccessIsClean
PROPERTY ApplyKeepsUserBytes

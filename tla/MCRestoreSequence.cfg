CONSTANTS
    NumPaths = 1
    Bytes = {a, b, Absent}
    Absent = Absent
    MaxOps = 2
    MaxEdits = 1
    MaxWrites = 1
    MaxTurns = 1
    MaxAppends = 1
    MaxFaults = 1
    MaxCrashes = 1
SPECIFICATION Spec
SYMMETRY Symmetry
CHECK_DEADLOCK FALSE
INVARIANTS
    MarkerAfterCommit
    CommittedOrPending
    ReplyTruthful
PROPERTIES
    ImplementsAtomicRestore

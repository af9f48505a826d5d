SPECIFICATION TCSpec
CONSTANTS
    Sessions = {"s1", "s2"}
    MaxTurns = 1
    MaxAllTurns = 2
    MaxFailures = 0
    MaxCrashes = 1
CHECK_DEADLOCK FALSE
PROPERTY OpensAfterCrash

SPECIFICATION TCSpec
CONSTANTS
    Sessions = {"s1", "s2"}
    MaxTurns = 2
    MaxAllTurns = 2
    MaxFailures = 2
    MaxCrashes = 1
CHECK_DEADLOCK FALSE
INVARIANT TCTypeOK OwnChangesOnly OneStatus WritesAccounted RecordsReadable DeadRecordsRetired
PROPERTY ImplementsTurnLedger LeaseGranted

SPECIFICATION FairSession
CONSTANTS
    MaxSends = 3
    MaxAborts = 2
    MaxFailures = 1
    Serial = FALSE
CHECK_DEADLOCK FALSE
INVARIANT STypeOK OneRun SendResolvesOwn QueuedOnce
PROPERTY ClearedNotDelivered AbortWaitsForRun SendsSettle

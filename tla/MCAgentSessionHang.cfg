SPECIFICATION FairSession
CONSTANTS
    MaxSends = 3
    MaxAborts = 0
    MaxFailures = 0
    Serial = TRUE
CHECK_DEADLOCK FALSE
PROPERTY EverySendSettles
